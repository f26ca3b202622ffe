-------------------------- MODULE RateCheckProofs --------------------------
(***************************************************************************)
(* Theorems about RateCheck, for any number of subscriptions, sources,     *)
(* overlapping runs and web requests, and every value of the bounds.       *)
(***************************************************************************)
EXTENDS RateCheck, TLAPS

(***************************************************************************)
(* Type correctness.  A run that works on a source holds a real price.     *)
(***************************************************************************)
HoldsPrice == \A n \in Run : pc[n] \in {"subs", "fire"} => price[n] \in Price

Typed == TypeOK /\ HoldsPrice

LEMMA ConditionTyped == Timed \in Condition /\ NoRow \in Row /\ 0 \in Price \cup {0}
  BY DEF Timed, Condition, NoRow, Row

LEMMA CopyTyped ==
  ASSUME Typed, NEW s \in Sub
  PROVE  /\ CopyOf(s) \in Copy
         /\ \A cond \in Condition : [CopyOf(s) EXCEPT !.cond = cond] \in Copy
  BY DEF Typed, TypeOK, CopyOf, Copy, Row

LEMMA RowTyped ==
  ASSUME NEW c \in Copy
  PROVE  /\ RowOf(c) \in Row
         /\ \A p \in Price : /\ Advanced(c, p) \in Row
                             /\ Advanced(c, p).rate = p
         /\ RowOf(c).rate = c.rate
  BY DEF Copy, RowOf, Row, Advanced

LEMMA InitTyped == Init => Typed
  BY RateCheckAssumption, ConditionTyped
     DEF Init, Typed, TypeOK, HoldsPrice, Stage, Said, Answer

LEMMA EndRunTyped ==
  ASSUME Typed, NEW n \in Run, EndRun(n)
  PROVE  /\ pc' \in [Run -> Stage]
         /\ sig' \in [Run -> BOOLEAN]
         /\ toVisit' \in [Run -> SUBSET Source]
         /\ at' \in [Run -> Source \cup {NoSource}]
         /\ price' \in [Run -> Price \cup {0}]
         /\ batch' \in [Run -> SUBSET Copy]
         /\ folded' \in [Run -> SUBSET Alert]
         /\ HoldsPrice'
  BY DEF Typed, TypeOK, HoldsPrice, EndRun, Goto, Stage

LEMMA FailsTyped ==
  ASSUME Typed, NEW n \in Run, Fails(n) \/ Fault \/ UNCHANGED faults
  PROVE  faults' \in Nat
  BY DEF Typed, TypeOK, Fails, Fault

LEMMA NextTyped == Typed /\ [Next]_vars => Typed'
<1> SUFFICES ASSUME Typed, [Next]_vars PROVE Typed'
  OBVIOUS
<1> USE DEF Typed, TypeOK, HoldsPrice, visit, web, env, books
<1>1. ASSUME NEW n \in Run, Begin(n) PROVE Typed'
  BY <1>1 DEF Begin, Goto, Stage
<1>2. ASSUME NEW n \in Run, ReadValue(n) PROVE Typed'
  <2>1. PICK x \in toVisit[n] :
          /\ toVisit' = [toVisit EXCEPT ![n] = @ \ {x}]
          /\ \/ /\ latest[x] # 0
                /\ at' = [at EXCEPT ![n] = x]
                /\ price' = [price EXCEPT ![n] = latest[x]]
                /\ Goto(n, "subs")
                /\ UNCHANGED faults
             \/ /\ Fails(n) \/ UNCHANGED faults
                /\ UNCHANGED <<pc, at, price>>
    BY <1>2 DEF ReadValue
  <2>2. faults' \in Nat
    BY <2>1, FailsTyped
  <2>3. x \in Source
    BY <2>1
  <2>4. UNCHANGED <<env, subs, sig, batch, folded, web, books>>
    BY <1>2 DEF ReadValue
  <2>5. CASE /\ latest[x] # 0
             /\ at' = [at EXCEPT ![n] = x]
             /\ price' = [price EXCEPT ![n] = latest[x]]
             /\ Goto(n, "subs")
    BY <2>1, <2>2, <2>3, <2>4, <2>5 DEF Goto, Stage
  <2>6. CASE UNCHANGED <<pc, at, price>>
    BY <2>1, <2>2, <2>4, <2>6
  <2>7. QED BY <2>1, <2>5, <2>6
<1>3. ASSUME NEW n \in Run, ReadSubs(n) PROVE Typed'
  <2>1. faults' \in Nat
    BY <1>3, FailsTyped DEF ReadSubs
  <2>2. batch' \in [Run -> SUBSET Copy]
    BY <1>3, CopyTyped DEF ReadSubs
  <2>3. QED BY <1>3, <2>1, <2>2 DEF ReadSubs, Goto, Stage
<1>4. ASSUME NEW n \in Run, Fire(n) PROVE Typed'
  <2>1. PICK c \in batch[n] :
          /\ batch' = [batch EXCEPT ![n] = @ \ {c}]
          /\ folded' = [folded EXCEPT ![n] = @ \cup {<<c.id, price[n]>>}]
          /\ fired' = [fired EXCEPT ![c.id] = price[n]]
          /\ spoiled' \in {spoiled \ {c.id}, spoiled \cup {c.id}}
          /\ subs' \in {subs, [subs EXCEPT ![c.id] = Advanced(c, price[n])]}
          /\ Fails(n) \/ UNCHANGED faults
    BY <1>4 DEF Fire
  <2>2. c \in Copy /\ c.id \in Sub /\ price[n] \in Price
    BY <1>4, <2>1 DEF Fire, Copy
  <2>3. faults' \in Nat
    BY <2>1, FailsTyped
  <2>4. subs' \in [Sub -> Row]
    BY <2>1, <2>2, RowTyped
  <2>5. UNCHANGED <<env, pc, visit, web, told, missed>>
    BY <1>4 DEF Fire
  <2>6. folded' \in [Run -> SUBSET Alert]
    <3>1. <<c.id, price[n]>> \in Alert
      BY <2>2 DEF Alert
    <3>2. QED BY <2>1, <3>1
  <2>7. /\ batch' \in [Run -> SUBSET Copy]
        /\ fired' \in [Sub -> Price \cup {0}]
        /\ spoiled' \subseteq Sub
    BY <2>1, <2>2
  <2>8. QED BY <2>3, <2>4, <2>5, <2>6, <2>7
<1>5. ASSUME NEW n \in Run, NextSource(n) PROVE Typed'
  BY <1>5 DEF NextSource, Goto, Stage
<1>6. ASSUME NEW n \in Run, QueuePart(n) PROVE Typed'
  <2>1. faults' \in Nat
    BY <1>6, FailsTyped DEF QueuePart
  <2>2. QED BY <1>6, <2>1 DEF QueuePart
<1>7. ASSUME NEW n \in Run, Finish(n) PROVE Typed'
  BY <1>7, EndRunTyped DEF Finish
<1>8. ASSUME NEW n \in Run, Sigterm(n) PROVE Typed'
  <2>1. faults' \in Nat
    BY <1>8, FailsTyped DEF Sigterm
  <2>2. QED BY <1>8, <2>1 DEF Sigterm
<1>9. ASSUME NEW n \in Run, Crash(n) PROVE Typed'
  <2>1. faults' \in Nat
    BY <1>9, FailsTyped DEF Crash
  <2>2. QED BY <1>9, <2>1, EndRunTyped DEF Crash
<1>10. ASSUME NEW s \in Sub, NEW cond \in Condition, Create(s, cond) PROVE Typed'
  BY <1>10 DEF Create, Row, Said, Answer
<1>11. ASSUME NEW s \in Sub, NEW cond \in Condition, NEW r \in Request,
              Receive(r, s, cond)
       PROVE  Typed'
  <2>1. req' \in [Request -> Pending \cup {NoRequest}]
    BY <1>11, CopyTyped DEF Receive, Pending
  <2>2. QED BY <1>11, <2>1 DEF Receive
<1>12. ASSUME NEW r \in Request, Patch(r) PROVE Typed'
  <2>1. req[r].copy \in Copy
    BY <1>12 DEF Patch, Pending, NoRequest
  <2>2. faults' \in Nat
    BY <1>12 DEF Patch, Fault
  <2>3. subs' \in [Sub -> Row]
    BY <1>12, <2>1, RowTyped DEF Patch
  <2>4. acked' \in [Sub -> Answer] /\ spoiled' \subseteq Sub
    BY <1>12, <2>1 DEF Patch, Said, Answer, Copy
  <2>5. QED BY <1>12, <2>2, <2>3, <2>4 DEF Patch
<1>13. ASSUME NEW r \in Request, Delete(r) PROVE Typed'
  <2>1. req[r].id \in Sub
    BY <1>13 DEF Delete, Pending, NoRequest
  <2>2. faults' \in Nat
    BY <1>13 DEF Delete, Fault
  <2>3. subs' \in [Sub -> Row]
    BY <1>13, <2>1, ConditionTyped DEF Delete
  <2>4. acked' \in [Sub -> Answer]
    <3>1. Said("deleted", Timed) \in Answer
      BY ConditionTyped DEF Said, Answer
    <3>2. QED BY <1>13, <2>1, <3>1 DEF Delete
  <2>5. QED BY <1>13, <2>2, <2>3, <2>4 DEF Delete
<1>14. ASSUME NEW x \in Source, NewRate(x) PROVE Typed'
  BY <1>14 DEF NewRate
<1>15. CASE UNCHANGED vars
  BY <1>15 DEF vars
<1>16. QED
  BY <1>1, <1>2, <1>3, <1>4, <1>5, <1>6, <1>7, <1>8, <1>9, <1>10, <1>11, <1>12,
     <1>13, <1>14, <1>15 DEF Next, RunStep

\* Every reachable state is type correct.
THEOREM TypeCorrect == Spec => []TypeOK
<1>1. Spec => []Typed
  BY InitTyped, NextTyped, PTL DEF Spec
<1>2. Typed => TypeOK
  BY DEF Typed
<1>3. QED BY <1>1, <1>2, PTL
-----------------------------------------------------------------------------
(***************************************************************************)
(* No silent advance.  Every baseline anyone holds, in the table, in a     *)
(* run's copies or in a web request, is one the owner was told, is about   *)
(* to be told, or lost to a fault; and no step takes that back.            *)
(***************************************************************************)
Voiced(s, p) ==
  <<s, p>> \in told \cup missed \/ \E n \in Run : <<s, p>> \in folded[n]

VoicedCopy(c) == c.rate # 0 => Voiced(c.id, c.rate)

VoicedEverywhere ==
  /\ \A s \in Sub : subs[s].rate # 0 => Voiced(s, subs[s].rate)
  /\ \A n \in Run : \A c \in batch[n] : VoicedCopy(c)
  /\ \A r \in Request : req[r].kind = "patch" => VoicedCopy(req[r].copy)

LEMMA VoicedStays ==
  ASSUME Typed, [Next]_vars, NEW s, NEW p, Voiced(s, p)
  PROVE  Voiced(s, p)'
<1> USE DEF Typed, TypeOK, Voiced, books
<1>1. CASE UNCHANGED <<told, missed, folded>>
  BY <1>1
<1>2. ASSUME NEW n \in Run, Fire(n) PROVE Voiced(s, p)'
  <2>1. /\ UNCHANGED <<told, missed>>
        /\ \A m \in Run : folded[m] \subseteq folded'[m]
    BY <1>2 DEF Fire
  <2>2. QED BY <2>1
<1>3. ASSUME NEW n \in Run, QueuePart(n) PROVE Voiced(s, p)'
  <2>1. PICK part \in SUBSET folded[n] :
          /\ folded' = [folded EXCEPT ![n] = @ \ part]
          /\ told' \cup missed' = told \cup missed \cup part
    BY <1>3 DEF QueuePart
  <2>2. QED BY <2>1
<1>4. ASSUME NEW n \in Run, Finish(n) PROVE Voiced(s, p)'
  <2>1. /\ folded[n] = {} /\ UNCHANGED <<told, missed>>
        /\ folded' = [folded EXCEPT ![n] = {}]
    BY <1>4 DEF Finish, EndRun
  <2>2. QED BY <2>1
<1>5. ASSUME NEW n \in Run, Crash(n) PROVE Voiced(s, p)'
  <2>1. /\ missed' = missed \cup folded[n] /\ UNCHANGED told
        /\ folded' = [folded EXCEPT ![n] = {}]
    BY <1>5 DEF Crash, EndRun
  <2>2. QED BY <2>1
<1>6. QED
  BY <1>1, <1>2, <1>3, <1>4, <1>5
     DEF Next, RunStep, Begin, ReadValue, ReadSubs, NextSource, Sigterm, Create,
         Receive, Patch, Delete, NewRate, vars

LEMMA InitVoiced == Init => VoicedEverywhere
  BY DEF Init, VoicedEverywhere, NoRow, NoRequest

LEMMA NextVoiced == Typed /\ VoicedEverywhere /\ [Next]_vars => VoicedEverywhere'
<1> SUFFICES ASSUME Typed, VoicedEverywhere, [Next]_vars PROVE VoicedEverywhere'
  OBVIOUS
<1> USE DEF Typed, TypeOK
<1>0. \A s, p : Voiced(s, p) => Voiced(s, p)'
  BY VoicedStays
<1>a. ASSUME NEW c, VoicedCopy(c) PROVE (c.rate # 0 => Voiced(c.id, c.rate)')
  BY <1>0, <1>a DEF VoicedCopy
<1> DEFINE Table == \A s \in Sub : subs[s].rate # 0 => Voiced(s, subs[s].rate)
           Batches == \A n \in Run : \A c \in batch[n] : VoicedCopy(c)
           Requests == \A r \in Request :
                         req[r].kind = "patch" => VoicedCopy(req[r].copy)
<1>b. /\ UNCHANGED subs => Table'
      /\ (\A n \in Run : batch'[n] \subseteq batch[n]) => Batches'
      /\ (\A r \in Request : req'[r] \in {req[r], NoRequest}) => Requests'
  <2>1. UNCHANGED subs => Table'
    BY <1>0 DEF VoicedEverywhere
  <2>2. (\A n \in Run : batch'[n] \subseteq batch[n]) => Batches'
    BY <1>0 DEF VoicedEverywhere, VoicedCopy
  <2>3. ASSUME \A r \in Request : req'[r] \in {req[r], NoRequest} PROVE Requests'
    BY <1>0, <2>3 DEF VoicedEverywhere, VoicedCopy, NoRequest
  <2>4. QED BY <2>1, <2>2, <2>3
<1>1. ASSUME NEW n \in Run,
             Begin(n) \/ ReadValue(n) \/ NextSource(n) \/ QueuePart(n)
             \/ Finish(n) \/ Sigterm(n) \/ Crash(n)
      PROVE  VoicedEverywhere'
  <2>1. UNCHANGED <<subs, req>> /\ \A m \in Run : batch'[m] \subseteq batch[m]
    BY <1>1 DEF Begin, ReadValue, NextSource, QueuePart, Finish, Sigterm, Crash,
                EndRun, web
  <2>2. QED BY <1>b, <2>1 DEF VoicedEverywhere
<1>2. ASSUME NEW n \in Run, ReadSubs(n) PROVE VoicedEverywhere'
  <2>1. UNCHANGED <<subs, req>>
    BY <1>2 DEF ReadSubs, web
  <2>2. \A m \in Run : \A c \in batch'[m] :
          c \in batch[m] \/ \E s \in Sub : c = CopyOf(s)
    BY <1>2 DEF ReadSubs
  <2>3. \A s \in Sub : CopyOf(s).id = s /\ CopyOf(s).rate = subs[s].rate
    BY DEF CopyOf
  <2>4. Batches'
    BY <1>0, <2>2, <2>3 DEF VoicedEverywhere, VoicedCopy
  <2>5. QED BY <1>b, <2>1, <2>4 DEF VoicedEverywhere
<1>3. ASSUME NEW n \in Run, Fire(n) PROVE VoicedEverywhere'
  <2>1. PICK c \in batch[n] :
          /\ batch' = [batch EXCEPT ![n] = @ \ {c}]
          /\ folded' = [folded EXCEPT ![n] = @ \cup {<<c.id, price[n]>>}]
          /\ subs' \in {subs, [subs EXCEPT ![c.id] = Advanced(c, price[n])]}
    BY <1>3 DEF Fire
  <2>2. c \in Copy /\ price[n] \in Price /\ UNCHANGED <<req, price>>
    BY <1>3, <2>1 DEF Fire, HoldsPrice, web, visit
  <2>3. Voiced(c.id, price[n])'
    BY <2>1, <2>2 DEF Voiced
  <2>4. \A s \in Sub : s # c.id => subs'[s] = subs[s]
    BY <2>1
  <2>5. subs'[c.id].rate \in {subs[c.id].rate, price[n]}
    BY <2>1, <2>2, RowTyped DEF Copy
  <2>6. Table'
    BY <1>0, <2>2, <2>3, <2>4, <2>5 DEF VoicedEverywhere, Copy
  <2>7. \A m \in Run : batch'[m] \subseteq batch[m]
    BY <2>1
  <2>8. QED BY <1>b, <2>2, <2>6, <2>7 DEF VoicedEverywhere
<1>4. ASSUME NEW s \in Sub, NEW cond \in Condition, Create(s, cond)
      PROVE  VoicedEverywhere'
  <2>1. /\ subs' = [subs EXCEPT ![s] = [live |-> TRUE, cond |-> cond, rate |-> 0]]
        /\ UNCHANGED <<batch, req>>
    BY <1>4 DEF Create
  <2>2. Table'
    BY <1>0, <2>1 DEF VoicedEverywhere
  <2>3. QED BY <1>b, <2>1, <2>2 DEF VoicedEverywhere
<1>5. ASSUME NEW s \in Sub, NEW cond \in Condition, NEW r \in Request,
             Receive(r, s, cond)
      PROVE  VoicedEverywhere'
  <2>1. UNCHANGED <<subs, batch>>
    BY <1>5 DEF Receive
  <2>2. \A q \in Request : q # r => req'[q] = req[q]
    BY <1>5 DEF Receive
  <2>3. req'[r].kind = "patch"
          => /\ req'[r].copy.id = s
             /\ req'[r].copy.rate = subs[s].rate
    BY <1>5 DEF Receive, CopyOf
  <2>4. Requests'
    BY <1>0, <2>2, <2>3 DEF VoicedEverywhere, VoicedCopy
  <2>5. QED BY <1>b, <2>1, <2>4 DEF VoicedEverywhere
<1>6. ASSUME NEW r \in Request, Patch(r) PROVE VoicedEverywhere'
  <2>1. PICK c : /\ c = req[r].copy /\ req[r].kind = "patch"
                 /\ subs' \in {subs, [subs EXCEPT ![c.id] = RowOf(c)]}
    BY <1>6 DEF Patch
  <2>2. c \in Copy /\ VoicedCopy(c)
    BY <2>1 DEF VoicedEverywhere, Pending, NoRequest
  <2>3. /\ UNCHANGED batch
        /\ \A q \in Request : req'[q] \in {req[q], NoRequest}
    BY <1>6 DEF Patch
  <2>4. Table'
    <3>1. c.id \in Sub /\ RowOf(c).rate = c.rate
      BY <2>2 DEF Copy, RowOf
    <3>2. c.rate # 0 => Voiced(c.id, c.rate)'
      BY <1>0, <2>2 DEF VoicedCopy
    <3>3. \A s \in Sub :
            subs'[s] = subs[s] \/ (s = c.id /\ subs'[s].rate = c.rate)
      BY <2>1, <3>1
    <3>4. QED BY <1>0, <3>2, <3>3 DEF VoicedEverywhere
  <2>5. QED BY <1>b, <2>3, <2>4 DEF VoicedEverywhere
<1>7. ASSUME NEW r \in Request, Delete(r) PROVE VoicedEverywhere'
  <2>1. /\ subs' \in {subs, [subs EXCEPT ![req[r].id] = NoRow]}
        /\ UNCHANGED batch
        /\ \A q \in Request : req'[q] \in {req[q], NoRequest}
    BY <1>7 DEF Delete
  <2>2. Table'
    BY <1>0, <2>1 DEF VoicedEverywhere, NoRow
  <2>3. QED BY <1>b, <2>1, <2>2 DEF VoicedEverywhere
<1>8. CASE (\E x \in Source : NewRate(x)) \/ UNCHANGED vars
  <2>1. UNCHANGED <<subs, batch, req>>
    BY <1>8 DEF NewRate, vars, web
  <2>2. QED BY <1>b, <2>1 DEF VoicedEverywhere
<1>9. QED
  BY <1>1, <1>2, <1>3, <1>4, <1>5, <1>6, <1>7, <1>8 DEF Next, RunStep

\* A baseline never moves in silence, whatever runs and requests overlap.
THEOREM BaselinesVoiced == Spec => []NoSilentAdvance
<1>1. Spec => [](Typed /\ VoicedEverywhere)
  BY InitTyped, NextTyped, InitVoiced, NextVoiced, PTL DEF Spec
<1>2. Typed /\ VoicedEverywhere => NoSilentAdvance
  BY DEF VoicedEverywhere, Voiced, NoSilentAdvance
<1>3. QED BY <1>1, <1>2, PTL
-----------------------------------------------------------------------------
(***************************************************************************)
(* No re-fire, when runs do not overlap.  Unless its write was lost, the   *)
(* baseline in the table and in the run's copies is the last rate an alert *)
(* was built for, and a due copy is at least its threshold away from it.   *)
(***************************************************************************)
Serial == \A m, n \in Run : m = n

\* Nothing is known of a subscription before it is created.
KnownOnlyCreated ==
  /\ \A s \in Sub : acked[s].said = "none" => ~subs[s].live /\ fired[s] = 0
  /\ \A n \in Run : \A c \in batch[n] : acked[c.id].said # "none"
  /\ \A r \in Request :
       /\ req[r].kind = "patch" => acked[req[r].copy.id].said # "none"
       /\ req[r].kind = "delete" => acked[req[r].id].said # "none"

BaselineCurrent ==
  \A s \in Sub : subs[s].live /\ s \notin spoiled => subs[s].rate = fired[s]

BatchCurrent ==
  \A n \in Run :
    /\ batch[n] # {} => pc[n] = "fire"
    /\ \A c, d \in batch[n] : c.id = d.id => c = d
    /\ \A c \in batch[n] :
         /\ c.id \notin spoiled => c.rate = fired[c.id]
         /\ c.cond.type = "delta" => DeltaSatisfied(c, price[n])

Current == KnownOnlyCreated /\ BaselineCurrent /\ BatchCurrent

LEMMA InitCurrent == Init => Current
  BY DEF Init, Current, KnownOnlyCreated, BaselineCurrent, BatchCurrent, NoRow,
         NoRequest, Said

LEMMA CurrentStays ==
  ASSUME Current, Typed, UNCHANGED <<subs, fired, spoiled, acked, req>>,
         \A n \in Run :
           \/ batch'[n] = {}
           \/ batch'[n] = batch[n] /\ pc'[n] = pc[n] /\ price'[n] = price[n]
  PROVE  Current'
<1> USE DEF Current, Typed, TypeOK
<1>1. KnownOnlyCreated'
  BY DEF KnownOnlyCreated
<1>2. BaselineCurrent'
  BY DEF BaselineCurrent
<1>3. BatchCurrent'
  BY DEF BatchCurrent, DeltaSatisfied
<1>4. QED BY <1>1, <1>2, <1>3

LEMMA FireCurrent ==
  ASSUME Serial, Typed, Current, NEW n \in Run, Fire(n)
  PROVE  Current'
<1> USE DEF Serial, Typed, TypeOK, Current
<1>1. PICK c \in batch[n] :
        /\ batch' = [batch EXCEPT ![n] = @ \ {c}]
        /\ fired' = [fired EXCEPT ![c.id] = price[n]]
        /\ \/ /\ subs' = [subs EXCEPT ![c.id] = Advanced(c, price[n])]
              /\ spoiled' = spoiled \ {c.id}
           \/ subs' = subs /\ spoiled' = spoiled \cup {c.id}
  BY DEF Fire
<1>2. /\ c \in Copy /\ c.id \in Sub /\ price[n] \in Price
      /\ UNCHANGED <<pc, price, acked, req>> /\ pc[n] = "fire"
  BY <1>1 DEF Fire, HoldsPrice, Copy, visit, web
<1>3. /\ \A s \in Sub : s # c.id => /\ subs'[s] = subs[s] /\ fired'[s] = fired[s]
                                    /\ s \in spoiled' <=> s \in spoiled
      /\ fired'[c.id] = price[n]
      /\ c.id \in spoiled' \/ subs'[c.id].rate = price[n]
  BY <1>1, <1>2, RowTyped
<1>4. KnownOnlyCreated'
  BY <1>1, <1>2, <1>3 DEF KnownOnlyCreated
<1>5. BaselineCurrent'
  BY <1>3 DEF BaselineCurrent
<1>6. BatchCurrent'
  <2>1. \A d \in batch'[n] : d \in batch[n] /\ d.id # c.id /\ d.id \in Sub
    BY <1>1 DEF BatchCurrent, Copy
  <2>2. \A d \in batch'[n] :
          /\ d.id \notin spoiled' => d.rate = fired'[d.id]
          /\ d.cond.type = "delta" => DeltaSatisfied(d, price'[n])
    BY <1>2, <1>3, <2>1 DEF BatchCurrent
  <2>3. QED BY <1>2, <2>1, <2>2 DEF BatchCurrent, DeltaSatisfied
<1>7. QED BY <1>4, <1>5, <1>6

LEMMA NextCurrent ==
  ASSUME Serial
  PROVE  Typed /\ Current /\ [Next]_vars => Current'
<1> SUFFICES ASSUME Typed, Current, [Next]_vars PROVE Current'
  OBVIOUS
<1> USE DEF Serial, Typed, TypeOK
<1>1. ASSUME NEW n \in Run,
             Begin(n) \/ ReadValue(n) \/ NextSource(n) \/ QueuePart(n)
             \/ Finish(n) \/ Sigterm(n) \/ Crash(n)
      PROVE  Current'
  <2>1. UNCHANGED <<subs, fired, spoiled, acked, req>>
    BY <1>1 DEF Begin, ReadValue, NextSource, QueuePart, Finish, Sigterm, Crash,
                EndRun, web, books
  <2>2. \/ batch'[n] = {}
        \/ batch'[n] = batch[n] /\ pc'[n] = pc[n] /\ price'[n] = price[n]
    BY <1>1 DEF Begin, ReadValue, NextSource, QueuePart, Finish, Sigterm, Crash,
                EndRun, visit, Current, BatchCurrent
  <2>3. QED BY <2>1, <2>2, CurrentStays
<1>2. ASSUME NEW n \in Run, ReadSubs(n) PROVE Current'
  <2>1. /\ UNCHANGED <<subs, fired, spoiled, acked, req, price>> /\ pc[n] = "subs"
    BY <1>2 DEF ReadSubs, web, books
  <2>2. CASE UNCHANGED batch
    BY <2>1, <2>2, CurrentStays DEF Current, BatchCurrent
  <2>3. CASE /\ Goto(n, "fire")
             /\ \A c \in batch'[n] :
                  /\ \E s \in Sub : subs[s].live /\ c = CopyOf(s)
                  /\ MayBeDue(c, price[n])
    <3>1. \A c \in batch'[n] : c = CopyOf(c.id) /\ c.id \in Sub /\ subs[c.id].live
      BY <2>3 DEF CopyOf
    <3>2. KnownOnlyCreated'
      BY <2>1, <3>1 DEF Current, KnownOnlyCreated
    <3>3. BaselineCurrent'
      BY <2>1 DEF Current, BaselineCurrent
    <3>4. \A c \in batch'[n] : c.id \notin spoiled' => c.rate = fired'[c.id]
      BY <2>1, <3>1 DEF Current, BaselineCurrent, CopyOf
    <3>5. \A c \in batch'[n] : c.cond.type = "delta" => DeltaSatisfied(c, price'[n])
      BY <2>1, <2>3 DEF MayBeDue, DeltaSatisfied
    <3>6. BatchCurrent'
      BY <2>3, <3>1, <3>4, <3>5 DEF BatchCurrent, Goto
    <3>7. QED BY <3>2, <3>3, <3>6 DEF Current
  <2>4. QED
    <3>1. CASE UNCHANGED batch
      BY <2>2, <3>1
    <3>2. CASE /\ Goto(n, "fire")
               /\ \E due \in SUBSET {c \in {CopyOf(s) : s \in {s \in Sub : subs[s].live /\ SourceOf[s] = at[n]}} : MayBeDue(c, price[n])} :
                    batch' = [batch EXCEPT ![n] = due]
      BY <2>3, <3>2
    <3>3. QED BY <1>2, <3>1, <3>2 DEF ReadSubs
<1>3. ASSUME NEW n \in Run, Fire(n) PROVE Current'
  BY <1>3, FireCurrent
<1>4. ASSUME NEW s \in Sub, NEW cond \in Condition, Create(s, cond) PROVE Current'
  <2>1. /\ acked[s].said = "none"
        /\ subs' = [subs EXCEPT ![s] = [live |-> TRUE, cond |-> cond, rate |-> 0]]
        /\ acked' = [acked EXCEPT ![s] = Said("exists", cond)]
        /\ UNCHANGED <<pc, price, batch, req, fired, spoiled>>
    BY <1>4 DEF Create, visit, books
  <2>2. fired[s] = 0
    BY <2>1 DEF Current, KnownOnlyCreated
  <2>3. KnownOnlyCreated'
    BY <2>1 DEF Current, KnownOnlyCreated, Said
  <2>4. BaselineCurrent'
    BY <2>1, <2>2 DEF Current, BaselineCurrent
  <2>5. BatchCurrent'
    BY <2>1 DEF Current, BatchCurrent, DeltaSatisfied
  <2>6. QED BY <2>3, <2>4, <2>5 DEF Current
<1>5. ASSUME NEW s \in Sub, NEW cond \in Condition, NEW r \in Request,
             Receive(r, s, cond)
      PROVE  Current'
  <2>1. /\ UNCHANGED <<pc, price, batch, subs, acked, fired, spoiled>>
        /\ subs[s].live
        /\ req' \in {[req EXCEPT ![r] = [kind |-> "patch",
                                  copy |-> [CopyOf(s) EXCEPT !.cond = cond]]],
                     [req EXCEPT ![r] = [kind |-> "delete", id |-> s]]}
    BY <1>5 DEF Receive, visit, books
  <2>2. acked[s].said # "none"
    BY <2>1 DEF Current, KnownOnlyCreated
  <2>3. KnownOnlyCreated'
    BY <2>1, <2>2 DEF Current, KnownOnlyCreated, CopyOf
  <2>4. BaselineCurrent' /\ BatchCurrent'
    BY <2>1 DEF Current, BaselineCurrent, BatchCurrent, DeltaSatisfied
  <2>5. QED BY <2>3, <2>4 DEF Current
<1>6. ASSUME NEW r \in Request, Patch(r) PROVE Current'
  <2>1. PICK c : /\ c = req[r].copy /\ req[r].kind = "patch"
                 /\ \/ /\ subs' = [subs EXCEPT ![c.id] = RowOf(c)]
                       /\ acked' = [acked EXCEPT ![c.id] = Said("exists", c.cond)]
                       /\ spoiled' = IF c.rate = fired[c.id] THEN spoiled
                                                             ELSE spoiled \cup {c.id}
                    \/ UNCHANGED <<subs, acked, spoiled>>
    BY <1>6 DEF Patch
  <2>2. /\ UNCHANGED <<pc, price, batch, fired>>
        /\ \A q \in Request : req'[q] \in {req[q], NoRequest}
    BY <1>6 DEF Patch, visit
  <2>3. c \in Copy /\ c.id \in Sub
    BY <2>1 DEF Pending, NoRequest, Copy
  <2>4. acked[c.id].said # "none"
    BY <2>1 DEF Current, KnownOnlyCreated
  <2>5. KnownOnlyCreated'
    <3>1. \A s \in Sub : acked'[s].said = "none"
            => acked[s].said = "none" /\ subs'[s] = subs[s]
      BY <2>1, <2>3, <2>4 DEF Said
    <3>2. \A s \in Sub : acked[s].said # "none" => acked'[s].said # "none"
      BY <2>1, <2>3 DEF Said
    <3>3. \A m \in Run : \A d \in batch[m] : d.id \in Sub
      BY DEF Copy
    <3>4. \A q \in Request : /\ req[q].kind = "patch" => req[q].copy.id \in Sub
                             /\ req[q].kind = "delete" => req[q].id \in Sub
      BY DEF Pending, NoRequest, Copy
    <3>5. \A s \in Sub : acked'[s].said = "none" => ~subs'[s].live /\ fired'[s] = 0
      BY <2>2, <3>1 DEF Current, KnownOnlyCreated
    <3>6. \A m \in Run : \A d \in batch'[m] : acked'[d.id].said # "none"
      BY <2>2, <3>2, <3>3 DEF Current, KnownOnlyCreated
    <3>7. \A q \in Request : /\ req'[q].kind = "patch" => acked'[req'[q].copy.id].said # "none"
                             /\ req'[q].kind = "delete" => acked'[req'[q].id].said # "none"
      <4> TAKE q \in Request
      <4>1. CASE req'[q] = req[q]
        BY <3>2, <3>4, <4>1 DEF Current, KnownOnlyCreated
      <4>2. CASE req'[q] = NoRequest
        BY <4>2 DEF NoRequest
      <4>3. QED BY <2>2, <4>1, <4>2
    <3>8. QED BY <3>5, <3>6, <3>7 DEF KnownOnlyCreated
  <2>6. BaselineCurrent'
    <3>1. \A s \in Sub : s # c.id => subs'[s] = subs[s] /\ (s \in spoiled' <=> s \in spoiled)
      BY <2>1
    <3>2. \/ subs'[c.id].rate = c.rate /\ (c.rate = fired[c.id] \/ c.id \in spoiled')
          \/ subs'[c.id] = subs[c.id] /\ spoiled' = spoiled
      BY <2>1, <2>3, RowTyped
    <3>3. QED BY <2>2, <2>3, <3>1, <3>2 DEF Current, BaselineCurrent
  <2>7. BatchCurrent'
    <3>1. spoiled \subseteq spoiled'
      BY <2>1
    <3>2. QED BY <2>2, <3>1 DEF Current, BatchCurrent, DeltaSatisfied
  <2>8. QED BY <2>5, <2>6, <2>7 DEF Current
<1>7. ASSUME NEW r \in Request, Delete(r) PROVE Current'
  <2>1. PICK s : /\ s = req[r].id /\ req[r].kind = "delete"
                 /\ \/ /\ subs' = [subs EXCEPT ![s] = NoRow]
                       /\ acked' = [acked EXCEPT ![s] = Said("deleted", Timed)]
                    \/ UNCHANGED <<subs, acked>>
    BY <1>7 DEF Delete
  <2>2. /\ UNCHANGED <<pc, price, batch, fired, spoiled>>
        /\ \A q \in Request : req'[q] \in {req[q], NoRequest}
    BY <1>7 DEF Delete, visit, books
  <2>3. s \in Sub /\ acked[s].said # "none"
    BY <2>1 DEF Pending, NoRequest, Current, KnownOnlyCreated
  <2>4. KnownOnlyCreated'
    <3>1. \A x \in Sub : acked'[x].said = "none"
            => acked[x].said = "none" /\ subs'[x] = subs[x]
      BY <2>1, <2>3 DEF Said
    <3>2. \A x \in Sub : acked[x].said # "none" => acked'[x].said # "none"
      BY <2>1, <2>3 DEF Said
    <3>3. \A m \in Run : \A d \in batch[m] : d.id \in Sub
      BY DEF Copy
    <3>4. \A q \in Request : /\ req[q].kind = "patch" => req[q].copy.id \in Sub
                             /\ req[q].kind = "delete" => req[q].id \in Sub
      BY DEF Pending, NoRequest, Copy
    <3>5. QED
      BY <2>2, <3>1, <3>2, <3>3, <3>4 DEF Current, KnownOnlyCreated, NoRequest
  <2>5. BaselineCurrent'
    BY <2>1, <2>2, <2>3 DEF Current, BaselineCurrent, NoRow
  <2>6. BatchCurrent'
    BY <2>2 DEF Current, BatchCurrent, DeltaSatisfied
  <2>7. QED BY <2>4, <2>5, <2>6 DEF Current
<1>8. CASE (\E x \in Source : NewRate(x)) \/ UNCHANGED vars
  <2>1. UNCHANGED <<subs, fired, spoiled, acked, req, batch, pc, price>>
    BY <1>8 DEF NewRate, vars, web, books, visit
  <2>2. QED BY <2>1, CurrentStays
<1>9. QED
  BY <1>1, <1>2, <1>3, <1>4, <1>5, <1>6, <1>7, <1>8 DEF Next, RunStep

\* One run at a time never fires a positive delta threshold twice in a row on
\* an unchanged rate, unless a write of its baseline was lost.
THEOREM SerialNoRefire == ASSUME Serial PROVE Spec => NoRefire
<1> DEFINE Quiet ==
      \A n \in Run : \A c \in batch[n] :
        (/\ pc[n] = "fire" /\ c \notin batch'[n] /\ pc'[n] = "fire"
         /\ c.cond.type = "delta" /\ c.cond.value > 0
         /\ c.id \notin spoiled)
            => price[n] # fired[c.id]
<1>1. Spec => [](Typed /\ Current)
  <2>1. Init => Typed /\ Current
    BY InitTyped, InitCurrent
  <2>2. Typed /\ Current /\ [Next]_vars => Typed' /\ Current'
    BY NextTyped, NextCurrent
  <2>3. QED BY <2>1, <2>2, PTL DEF Spec
<1>2. Typed /\ Current => Quiet
  <2> SUFFICES ASSUME Typed, Current, NEW n \in Run, NEW c \in batch[n],
                      pc[n] = "fire", c.cond.type = "delta", c.cond.value > 0,
                      c.id \notin spoiled
               PROVE  price[n] # fired[c.id]
    OBVIOUS
  <2>1. /\ c \in Copy /\ price[n] \in Price
        /\ c.rate = fired[c.id] /\ DeltaSatisfied(c, price[n])
    BY DEF Typed, TypeOK, HoldsPrice, Current, BatchCurrent
  <2>2. c.rate \in Nat /\ price[n] \in Nat /\ price[n] > 0
    BY <2>1, RateCheckAssumption DEF Copy, Price
  <2>3. c.cond.value \in Nat
    <3>1. c.cond \in Condition
      BY <2>1 DEF Copy
    <3>2. CASE c.cond \in [type : {"delta"}, value : Threshold]
      BY <3>2, RateCheckAssumption
    <3>3. CASE c.cond = Timed
      BY <3>3 DEF Timed
    <3>4. QED BY <3>1, <3>2, <3>3 DEF Condition
  <2>4. QED BY <2>1, <2>2, <2>3 DEF DeltaSatisfied, Abs
<1>3. Typed /\ Current /\ [Next]_vars => [Quiet]_vars
  BY <1>2
<1>4. QED BY <1>1, <1>3, PTL DEF Spec, NoRefire
=============================================================================
