--------------------------- MODULE DispatchProofs ---------------------------
(***************************************************************************)
(* Theorems about Dispatch, for every set of events and notifier slots and *)
(* every value of the bounds.                                              *)
(***************************************************************************)
EXTENDS Dispatch, TLAPS

(***************************************************************************)
(* Type correctness, with what Retain needs to know: a run that is about   *)
(* to write holds a real copy.                                             *)
(***************************************************************************)
HoldsCopy == \A n \in Notifier : pc[n] = "retain" => cur[n] \in Copy

Typed == TypeOK /\ HoldsCopy

LEMMA InitTyped == Init => Typed
  BY DispatchAssumption
     DEF Init, Typed, TypeOK, HoldsCopy, Row, NoRow, Status, Stage

LEMMA EndRunTyped ==
  ASSUME Typed, NEW n \in Notifier, EndRun(n)
  PROVE  /\ pc' \in [Notifier -> Stage]
         /\ sig' \in [Notifier -> BOOLEAN]
         /\ now' \in [Notifier -> Nat]
         /\ todo' \in [Notifier -> SUBSET Copy]
         /\ cur' \in [Notifier -> Copy \cup {NoCopy}]
         /\ HoldsCopy'
  BY DEF Typed, TypeOK, HoldsCopy, EndRun, Goto, Stage

LEMMA CopiesTyped ==
  ASSUME Typed
  PROVE  {CopyOf(e) : e \in Unprocessed} \subseteq Copy
  BY DEF Typed, TypeOK, CopyOf, Unprocessed, Copy, Row

LEMMA ForgetTyped ==
  ASSUME Typed, NEW n \in Notifier, Forget(n)
  PROVE  lost' \in [Event -> Nat]
  BY DEF Typed, TypeOK, HoldsCopy, Forget, Copy

LEMMA NextTyped == Typed /\ [Next]_vars => Typed'
<1> SUFFICES ASSUME Typed, [Next]_vars PROVE Typed'
  OBVIOUS
<1> USE DEF Typed, TypeOK, HoldsCopy, db, runVars, chat
<1>1. ASSUME NEW n \in Notifier, Start(n) PROVE Typed'
  BY <1>1 DEF Start, Goto, Stage
<1>2. ASSUME NEW n \in Notifier, Vacuum(n) PROVE Typed'
  BY <1>2 DEF Vacuum, Goto, Stage, Fault, Row, NoRow, Status
<1>3. ASSUME NEW n \in Notifier, CheckDone(n) PROVE Typed'
  BY <1>3 DEF CheckDone, Goto, Stage
<1>4. ASSUME NEW n \in Notifier, ReadUnprocessed(n) PROVE Typed'
  <2>1. CASE /\ todo' = [todo EXCEPT ![n] = {CopyOf(e) : e \in Unprocessed}]
             /\ now' = [now EXCEPT ![n] = clock]
             /\ Goto(n, "attempt")
             /\ UNCHANGED <<sig, cur, faults>>
    BY <1>4, <2>1, CopiesTyped DEF ReadUnprocessed, Goto, Stage
  <2>2. CASE EndRun(n) /\ (UNCHANGED faults \/ Fault)
    BY <1>4, <2>2, EndRunTyped DEF ReadUnprocessed, Fault
  <2>3. QED BY <1>4, <2>1, <2>2 DEF ReadUnprocessed
<1>5. ASSUME NEW n \in Notifier, Attempt(n) PROVE Typed'
  <2>1. PICK c \in Oldest(todo[n]) :
          /\ todo' = [todo EXCEPT ![n] = @ \ {c}]
          /\ \E s \in {"canceled", "sent", "failed"} :
               cur' = [cur EXCEPT ![n] = [c EXCEPT !.status = s]]
          /\ delivered' \in {delivered, [delivered EXCEPT ![c.id] = @ + 1]}
          /\ lost' \in {lost, [lost EXCEPT ![c.id] = @ + 1]}
          /\ UNCHANGED faults \/ Fault
    BY <1>5 DEF Attempt, Accepted
  <2>2. c \in Copy
    BY <2>1 DEF Oldest
  <2>3. \A s \in {"canceled", "sent", "failed"} : [c EXCEPT !.status = s] \in Copy
    BY <2>2 DEF Copy, Status
  <2>4. cur' \in [Notifier -> Copy \cup {NoCopy}] /\ cur'[n] \in Copy
    BY <2>1, <2>3
  <2>5. delivered' \in [Event -> Nat] /\ lost' \in [Event -> Nat]
    BY <2>1, <2>2 DEF Copy
  <2>6. \A m \in Notifier : pc'[m] = "retain" => cur'[m] \in Copy
    BY <1>5, <2>1, <2>4 DEF Attempt, Goto
  <2>7. QED
    BY <1>5, <2>1, <2>4, <2>5, <2>6 DEF Attempt, Goto, Stage, Fault
<1>6. ASSUME NEW n \in Notifier, Retain(n) PROVE Typed'
  <2>1. cur[n] \in Copy
    BY <1>6 DEF Retain
  <2>2. events' \in [Event -> Row]
    BY <1>6, <2>1 DEF Retain, Copy, Row
  <2>3. lost' \in [Event -> Nat]
    BY <1>6, ForgetTyped DEF Retain
  <2>4. QED
    BY <1>6, <2>2, <2>3 DEF Retain, Goto, Stage, Fault
<1>7. ASSUME NEW n \in Notifier, Pause(n) PROVE Typed'
  <2>1. CASE EndRun(n)
    BY <1>7, <2>1, EndRunTyped DEF Pause
  <2>2. CASE Goto(n, "attempt") /\ UNCHANGED <<sig, now, todo, cur>>
    BY <1>7, <2>2 DEF Pause, Goto, Stage
  <2>3. QED BY <1>7, <2>1, <2>2 DEF Pause
<1>8. ASSUME NEW n \in Notifier, Sigterm(n) PROVE Typed'
  BY <1>8 DEF Sigterm, Fault
<1>9. ASSUME NEW n \in Notifier, Crash(n) PROVE Typed'
  BY <1>9, EndRunTyped, ForgetTyped DEF Crash, Fault
<1>10. ASSUME NEW n \in Notifier, NEW e \in Event, QueueEvent(n, e) PROVE Typed'
  BY <1>10 DEF QueueEvent, Row, Status
<1>11. CASE Tick
  BY <1>11 DEF Tick
<1>12. CASE UNCHANGED vars
  BY <1>12 DEF vars
<1>13. ASSUME NEW n \in Notifier, Connect(n) PROVE Typed'
  <2>1. CASE Goto(n, "vacuum") /\ UNCHANGED <<sig, now, todo, cur>>
    BY <1>13, <2>1 DEF Connect, Goto, Stage
  <2>2. CASE EndRun(n)
    BY <1>13, <2>2, EndRunTyped DEF Connect
  <2>3. QED BY <1>13, <2>1, <2>2 DEF Connect
<1>14. QED
  BY <1>1, <1>2, <1>3, <1>4, <1>5, <1>6, <1>7, <1>8, <1>9, <1>10, <1>11, <1>12, <1>13
     DEF Next, RunStep

\* Every reachable state is type correct.
THEOREM TypeCorrect == Spec => []TypeOK
<1>1. Spec => []Typed
  BY InitTyped, NextTyped, PTL DEF Spec
<1>2. Typed => TypeOK
  BY DEF Typed
<1>3. QED BY <1>1, <1>2, PTL
-----------------------------------------------------------------------------
(***************************************************************************)
(* Overlapping runs.  What a run is about to write must already be true,   *)
(* however old the snapshot it works from.                                 *)
(***************************************************************************)
SentInHand ==
  \A n \in Notifier :
    pc[n] = "retain" /\ cur[n].status = "sent" => delivered[cur[n].id] >= 1

CanceledInHand ==
  \A n \in Notifier :
    /\ now[n] <= clock
    /\ pc[n] = "retain" /\ cur[n].status = "canceled"
         => cur[n].createdAt + TTL < clock

\* A run never writes a status that is not true yet, and no row carries one.
Honest ==
  SentMeansDelivered /\ CanceledOnlyAfterTTL /\ SentInHand /\ CanceledInHand

\* What Attempt does, with the copy it takes named.
LEMMA AttemptEffect ==
  ASSUME Typed, NEW n \in Notifier, Attempt(n)
  PROVE  \E c \in todo[n] :
           /\ c \in Copy
           /\ todo' = [todo EXCEPT ![n] = @ \ {c}]
           /\ pc' = [pc EXCEPT ![n] = "retain"]
           /\ cur' = [cur EXCEPT ![n] = cur'[n]]
           /\ cur'[n].id = c.id /\ cur'[n].createdAt = c.createdAt
           /\ cur'[n] \in Copy
           /\ \/ /\ cur'[n].status = "canceled" /\ Expired(n, c)
                 /\ UNCHANGED <<delivered, lost>>
              \/ /\ cur'[n].status = "failed"
                 /\ UNCHANGED <<delivered, lost>>
              \/ /\ cur'[n].status = "sent"
                 /\ delivered' = [delivered EXCEPT ![c.id] = @ + 1]
                 /\ UNCHANGED lost
              \/ /\ cur'[n].status = "failed"
                 /\ delivered' = [delivered EXCEPT ![c.id] = @ + 1]
                 /\ lost' = [lost EXCEPT ![c.id] = @ + 1]
<1>1. PICK c \in Oldest(todo[n]) :
        /\ todo' = [todo EXCEPT ![n] = @ \ {c}]
        /\ \/ /\ Expired(n, c)
              /\ cur' = [cur EXCEPT ![n] = [c EXCEPT !.status = "canceled"]]
              /\ UNCHANGED <<delivered, lost>>
           \/ /\ cur' = [cur EXCEPT ![n] = [c EXCEPT !.status = "sent"]]
              /\ delivered' = [delivered EXCEPT ![c.id] = @ + 1]
              /\ UNCHANGED lost
           \/ /\ cur' = [cur EXCEPT ![n] = [c EXCEPT !.status = "failed"]]
              /\ UNCHANGED <<delivered, lost>>
           \/ /\ cur' = [cur EXCEPT ![n] = [c EXCEPT !.status = "failed"]]
              /\ delivered' = [delivered EXCEPT ![c.id] = @ + 1]
              /\ lost' = [lost EXCEPT ![c.id] = @ + 1]
  BY DEF Attempt, Accepted
<1>2. c \in todo[n] /\ c \in Copy
  BY <1>1 DEF Oldest, Typed, TypeOK
<1>3. \A s \in {"canceled", "sent", "failed"} :
        /\ [c EXCEPT !.status = s] \in Copy
        /\ [c EXCEPT !.status = s].id = c.id
        /\ [c EXCEPT !.status = s].createdAt = c.createdAt
        /\ [c EXCEPT !.status = s].status = s
  BY <1>2 DEF Copy, Status
<1>4. \E s \in {"canceled", "sent", "failed"} :
        cur' = [cur EXCEPT ![n] = [c EXCEPT !.status = s]]
  BY <1>1
<1>5. /\ cur' = [cur EXCEPT ![n] = cur'[n]]
      /\ cur'[n].id = c.id /\ cur'[n].createdAt = c.createdAt
      /\ cur'[n] \in Copy
  BY <1>3, <1>4 DEF Typed, TypeOK
<1>6. \A s \in {"canceled", "sent", "failed"} :
        cur' = [cur EXCEPT ![n] = [c EXCEPT !.status = s]] => cur'[n].status = s
  BY <1>3 DEF Typed, TypeOK
<1>7. pc' = [pc EXCEPT ![n] = "retain"]
  BY DEF Attempt, Goto
<1>8. \/ /\ cur'[n].status = "canceled" /\ Expired(n, c)
         /\ UNCHANGED <<delivered, lost>>
      \/ /\ cur'[n].status = "failed"
         /\ UNCHANGED <<delivered, lost>>
      \/ /\ cur'[n].status = "sent"
         /\ delivered' = [delivered EXCEPT ![c.id] = @ + 1]
         /\ UNCHANGED lost
      \/ /\ cur'[n].status = "failed"
         /\ delivered' = [delivered EXCEPT ![c.id] = @ + 1]
         /\ lost' = [lost EXCEPT ![c.id] = @ + 1]
  BY <1>1, <1>6
<1>9. QED
  BY <1>1, <1>2, <1>5, <1>7, <1>8

LEMMA InitHonest == Init => Honest
  BY DispatchAssumption
     DEF Init, Honest, SentMeansDelivered, CanceledOnlyAfterTTL, SentInHand,
         CanceledInHand, NoRow

LEMMA NextHonest == Typed /\ Honest /\ [Next]_vars => Honest'
<1> SUFFICES ASSUME Typed, Honest, [Next]_vars PROVE Honest'
  OBVIOUS
<1> USE DEF Honest, SentMeansDelivered, CanceledOnlyAfterTTL, SentInHand,
            CanceledInHand, db, runVars, chat
<1>0. /\ TTL \in Nat /\ clock \in Nat /\ delivered \in [Event -> Nat]
      /\ events \in [Event -> Row] /\ pc \in [Notifier -> Stage]
      /\ now \in [Notifier -> Nat] /\ todo \in [Notifier -> SUBSET Copy]
      /\ cur \in [Notifier -> Copy \cup {NoCopy}]
  BY DispatchAssumption DEF Typed, TypeOK
<1>1. ASSUME NEW n \in Notifier, Start(n) PROVE Honest'
  BY <1>0, <1>1 DEF Start, Goto
<1>2. ASSUME NEW n \in Notifier, Vacuum(n) PROVE Honest'
  <2>1. UNCHANGED <<clock, now, cur, delivered>>
    BY <1>2 DEF Vacuum
  <2>2. \A e \in Event : events'[e] \in {events[e], NoRow}
    BY <1>0, <1>2 DEF Vacuum
  <2>3. SentMeansDelivered' /\ CanceledOnlyAfterTTL'
    BY <2>1, <2>2 DEF NoRow
  <2>4. SentInHand' /\ CanceledInHand'
    BY <1>0, <1>2, <2>1 DEF Vacuum, Goto
  <2>5. QED BY <2>3, <2>4
<1>3. ASSUME NEW n \in Notifier, CheckDone(n) PROVE Honest'
  BY <1>0, <1>3 DEF CheckDone, Goto
<1>4. ASSUME NEW n \in Notifier, ReadUnprocessed(n) PROVE Honest'
  BY <1>0, <1>4 DEF ReadUnprocessed, EndRun, Goto, NoCopy
<1>5. ASSUME NEW n \in Notifier, Attempt(n) PROVE Honest'
  <2>1. PICK c \in todo[n] :
          /\ c \in Copy
          /\ pc' = [pc EXCEPT ![n] = "retain"]
          /\ cur' = [cur EXCEPT ![n] = cur'[n]]
          /\ cur'[n].id = c.id /\ cur'[n].createdAt = c.createdAt
          /\ \/ cur'[n].status = "canceled" /\ Expired(n, c)
                /\ UNCHANGED delivered
             \/ cur'[n].status = "failed"
                /\ (delivered' = [delivered EXCEPT ![c.id] = @ + 1]
                    \/ UNCHANGED delivered)
             \/ cur'[n].status = "sent"
                /\ delivered' = [delivered EXCEPT ![c.id] = @ + 1]
    BY <1>5, AttemptEffect
  <2>2. UNCHANGED <<clock, events, now>>
    BY <1>5 DEF Attempt
  <2>3. c.id \in Event /\ c.createdAt \in Nat
    BY <2>1 DEF Copy
  <2>4. \A e \in Event : delivered'[e] >= delivered[e]
    BY <1>0, <2>1, <2>3
  <2>5. SentMeansDelivered' /\ CanceledOnlyAfterTTL'
    BY <1>0, <2>1, <2>2, <2>4
  <2>6. \A m \in Notifier : m # n => cur'[m] = cur[m] /\ pc'[m] = pc[m]
    BY <1>0, <2>1
  <2>7. SentInHand'
    <3>1. \A m \in Notifier : pc[m] = "retain" => cur[m].id \in Event
      BY <1>0 DEF Typed, HoldsCopy, Copy
    <3>2. cur'[n].status = "sent" => delivered'[cur'[n].id] >= 1
      BY <1>0, <2>1, <2>3
    <3>3. \A m \in Notifier : m # n /\ pc'[m] = "retain" /\ cur'[m].status = "sent"
             => delivered'[cur'[m].id] >= 1
      BY <1>0, <2>1, <2>4, <2>6, <3>1
    <3>4. QED BY <3>2, <3>3
  <2>8. CanceledInHand'
    BY <1>0, <2>1, <2>2, <2>3, <2>6 DEF Expired
  <2>9. QED BY <2>5, <2>7, <2>8
<1>6. ASSUME NEW n \in Notifier, Retain(n) PROVE Honest'
  <2>1. cur[n] \in Copy /\ UNCHANGED <<clock, now, delivered>>
    BY <1>6 DEF Retain, Typed, HoldsCopy
  <2>2. /\ pc' = [pc EXCEPT ![n] = "pause"]
        /\ cur' = [cur EXCEPT ![n] = NoCopy]
        /\ pc[n] = "retain"
    BY <1>6 DEF Retain, Goto
  <2>3. \/ UNCHANGED events
        \/ events' = [events EXCEPT ![cur[n].id] =
                        [status |-> cur[n].status, createdAt |-> cur[n].createdAt]]
    BY <1>6 DEF Retain
  <2>4. SentMeansDelivered' /\ CanceledOnlyAfterTTL'
    BY <1>0, <2>1, <2>2, <2>3 DEF Copy
  <2>5. SentInHand' /\ CanceledInHand'
    BY <1>0, <2>1, <2>2
  <2>6. QED BY <2>4, <2>5
<1>7. ASSUME NEW n \in Notifier, Pause(n) PROVE Honest'
  BY <1>0, <1>7 DEF Pause, EndRun, Goto, NoCopy
<1>8. ASSUME NEW n \in Notifier, Sigterm(n) PROVE Honest'
  BY <1>8 DEF Sigterm
<1>9. ASSUME NEW n \in Notifier, Crash(n) PROVE Honest'
  BY <1>0, <1>9 DEF Crash, EndRun, Goto, NoCopy
<1>10. ASSUME NEW n \in Notifier, NEW e \in Event, QueueEvent(n, e) PROVE Honest'
  <2>1. /\ UNCHANGED <<clock, pc, now, cur, delivered>>
        /\ events' = [events EXCEPT ![e] = [status |-> "pending", createdAt |-> clock]]
    BY <1>10 DEF QueueEvent
  <2>2. QED BY <1>0, <2>1
<1>11. CASE Tick
  <2>1. clock' = clock + 1 /\ UNCHANGED <<events, pc, now, cur, delivered>>
    BY <1>11 DEF Tick
  <2>2. \A e \in Event : events[e].createdAt \in Nat
    BY <1>0 DEF Row
  <2>3. \A m \in Notifier : pc[m] = "retain" => cur[m].createdAt \in Nat
    BY <1>0 DEF Typed, HoldsCopy, Copy
  <2>4. QED BY <1>0, <2>1, <2>2, <2>3
<1>12. CASE UNCHANGED vars
  BY <1>12 DEF vars
<1>13. ASSUME NEW n \in Notifier, Connect(n) PROVE Honest'
  BY <1>0, <1>13 DEF Connect, EndRun, Goto, NoCopy
<1>14. QED
  BY <1>1, <1>2, <1>3, <1>4, <1>5, <1>6, <1>7, <1>8, <1>9, <1>10, <1>11, <1>12, <1>13
     DEF Next, RunStep

\* However many runs overlap and however old their snapshots are, a row that
\* says sent belongs to a message that reached its chat, and a row that says
\* canceled to one that outlived its TTL.
THEOREM StatusHonest == Spec => [](SentMeansDelivered /\ CanceledOnlyAfterTTL)
<1>1. Spec => [](Typed /\ Honest)
  BY InitTyped, NextTyped, InitHonest, NextHonest, PTL DEF Spec
<1>2. Honest => SentMeansDelivered /\ CanceledOnlyAfterTTL
  BY DEF Honest
<1>3. QED BY <1>1, <1>2, PTL

\* A row says canceled only when its message outlived its TTL, whichever run's snapshot
\* the row was written from (processEvent's TTL check and the batch write after it).
THEOREM CanceledIsExpired == Spec => []CanceledOnlyAfterTTL
<1>1. SentMeansDelivered /\ CanceledOnlyAfterTTL => CanceledOnlyAfterTTL
  OBVIOUS
<1>2. QED BY <1>1, StatusHonest, PTL
-----------------------------------------------------------------------------
(***************************************************************************)
(* Runs that never overlap (one slot): duplicates come from lost records   *)
(* only, vacuumed events stay gone, and Dispatch implements the safety     *)
(* part of DeliveryPromise.                                                *)
(***************************************************************************)

Serial == \A m, n \in Notifier : m = n

\* A run's copies are what the table still says: nobody else writes.
FreshCopies ==
  \A n \in Notifier :
    /\ todo[n] # {} => pc[n] \in {"attempt", "retain", "pause"}
    /\ \A c \in todo[n] : c.id \in Unprocessed /\ c = CopyOf(c.id)

\* The copy in hand is of a row nobody settled, and is not also on the list.
FreshInHand ==
  \A n \in Notifier : pc[n] = "retain" =>
    /\ cur[n].id \in Unprocessed
    /\ \A c \in todo[n] : c.id # cur[n].id
    /\ cur[n].status \in {"sent", "failed", "canceled"}

\* A delivery of e whose record is still to be written.
Owed(e) ==
  \E n \in Notifier : pc[n] = "retain" /\ cur[n].id = e /\ cur[n].status = "sent"

\* The ledger of deliveries against their records.
Ledger ==
  \A e \in Event :
    /\ events[e].status # "absent" => e \in queued
    /\ e \notin queued => delivered[e] = 0 /\ lost[e] = 0
    /\ delivered[e] <= lost[e] + 1
    /\ Owed(e) => delivered[e] = lost[e] + 1
    /\ ~Owed(e) /\ events[e].status \in {"pending", "failed"}
         => delivered[e] = lost[e]
    /\ events[e].status = "canceled" => delivered[e] = lost[e]

Accounted == FreshCopies /\ FreshInHand /\ Ledger

LEMMA InitAccounted == Init => Accounted
  BY DEF Init, Accounted, FreshCopies, FreshInHand, Ledger, Owed, Unprocessed, NoRow

\* Steps that touch neither the table nor the books, of a run that holds
\* nothing before and after.
LEMMA QuietStep ==
  ASSUME Typed, Accounted, Serial, NEW n \in Notifier,
         UNCHANGED <<events, queued, delivered, lost>>,
         pc' \in [Notifier -> Stage],
         todo'[n] = {} \/ (todo'[n] = todo[n] /\ pc'[n] = "attempt"),
         pc[n] # "retain", pc'[n] # "retain"
  PROVE  Accounted'
<1> USE DEF Serial, Typed, TypeOK, Accounted
<1>1. FreshCopies'
  BY DEF FreshCopies, Unprocessed, CopyOf
<1>2. FreshInHand'
  BY DEF FreshInHand
<1>3. \A e \in Event : ~Owed(e) /\ ~Owed(e)'
  BY DEF Owed
<1>4. Ledger'
  BY <1>3 DEF Ledger
<1>5. QED BY <1>1, <1>2, <1>4

LEMMA CrashForgets ==
  ASSUME Typed, Accounted, Serial, NEW n \in Notifier,
         Forget(n), UNCHANGED <<events, queued, delivered>>,
         pc' \in [Notifier -> Stage], pc'[n] # "retain"
  PROVE  Ledger'
<1> USE DEF Serial, Typed, TypeOK, Accounted, HoldsCopy
<1>1. \A e \in Event : ~Owed(e)'
  BY DEF Owed
<1>2. CASE pc[n] = "retain" /\ cur[n].status = "sent"
  <2>1. cur[n].id \in Event /\ Owed(cur[n].id) /\ cur[n].id \in Unprocessed
    BY <1>2 DEF Owed, Copy, FreshInHand
  <2>2. \A e \in Event : e # cur[n].id => ~Owed(e)
    BY DEF Owed
  <2>3. lost' = [lost EXCEPT ![cur[n].id] = @ + 1]
    BY <1>2 DEF Forget
  <2>4. events[cur[n].id].status \in {"pending", "failed"}
    BY <2>1 DEF Unprocessed
  <2>5. QED BY <1>1, <2>1, <2>2, <2>3, <2>4 DEF Ledger
<1>3. CASE ~(pc[n] = "retain" /\ cur[n].status = "sent")
  <2>1. \A e \in Event : ~Owed(e)
    BY <1>3 DEF Owed
  <2>2. lost' = lost
    BY <1>3 DEF Forget
  <2>3. QED BY <1>1, <2>1, <2>2 DEF Ledger
<1>4. QED BY <1>2, <1>3

LEMMA AttemptAccounted ==
  ASSUME Typed, Accounted, Serial, NEW n \in Notifier, Attempt(n)
  PROVE  Accounted'
<1> USE DEF Serial, Typed, TypeOK, Accounted
<1>1. PICK c \in todo[n] :
        /\ c \in Copy
        /\ todo' = [todo EXCEPT ![n] = @ \ {c}]
        /\ pc' = [pc EXCEPT ![n] = "retain"]
        /\ cur' = [cur EXCEPT ![n] = cur'[n]]
        /\ cur'[n].id = c.id /\ cur'[n].createdAt = c.createdAt
        /\ cur'[n] \in Copy
        /\ \/ /\ cur'[n].status = "canceled" /\ Expired(n, c)
              /\ UNCHANGED <<delivered, lost>>
           \/ /\ cur'[n].status = "failed"
              /\ UNCHANGED <<delivered, lost>>
           \/ /\ cur'[n].status = "sent"
              /\ delivered' = [delivered EXCEPT ![c.id] = @ + 1]
              /\ UNCHANGED lost
           \/ /\ cur'[n].status = "failed"
              /\ delivered' = [delivered EXCEPT ![c.id] = @ + 1]
              /\ lost' = [lost EXCEPT ![c.id] = @ + 1]
  BY AttemptEffect
<1>2. pc[n] = "attempt" /\ UNCHANGED <<events, queued>>
  BY DEF Attempt, db
<1>3. c.id \in Event /\ c.id \in Unprocessed /\ c = CopyOf(c.id)
  BY <1>1 DEF Copy, FreshCopies
<1>4. \A e \in Event : ~Owed(e)
  BY <1>2 DEF Owed
<1>5. delivered[c.id] = lost[c.id] /\ c.id \in queued
  BY <1>3, <1>4 DEF Ledger, Unprocessed
<1>6. FreshCopies'
  BY <1>1, <1>2 DEF FreshCopies, Unprocessed, CopyOf
<1>7. \A d \in todo[n] : d # c => d.id # c.id
  BY <1>1, <1>3 DEF FreshCopies
<1>8. FreshInHand'
  <2>1. cur'[n].id \in Unprocessed'
    BY <1>1, <1>2, <1>3 DEF Unprocessed
  <2>2. \A d \in todo'[n] : d.id # cur'[n].id
    BY <1>1, <1>7
  <2>3. cur'[n].status \in {"sent", "failed", "canceled"}
    BY <1>1
  <2>4. QED BY <2>1, <2>2, <2>3 DEF FreshInHand
<1>9. \A e \in Event : Owed(e)' <=> e = c.id /\ cur'[n].status = "sent"
  BY <1>1 DEF Owed
<1>10. events[c.id].status \in {"pending", "failed"}
  BY <1>3 DEF Unprocessed
<1>11. ASSUME NEW e \in Event, e # c.id
       PROVE  delivered'[e] = delivered[e] /\ lost'[e] = lost[e]
  BY <1>1, <1>11
<1>12. \/ delivered'[c.id] = delivered[c.id] /\ lost'[c.id] = lost[c.id]
          /\ cur'[n].status # "sent"
       \/ delivered'[c.id] = delivered[c.id] + 1 /\ lost'[c.id] = lost[c.id]
          /\ cur'[n].status = "sent"
       \/ delivered'[c.id] = delivered[c.id] + 1 /\ lost'[c.id] = lost[c.id] + 1
          /\ cur'[n].status # "sent"
  BY <1>1, <1>3
<1>13. Ledger'
  BY <1>2, <1>3, <1>4, <1>5, <1>9, <1>10, <1>11, <1>12 DEF Ledger
<1>14. QED BY <1>6, <1>8, <1>13

LEMMA RetainAccounted ==
  ASSUME Typed, Accounted, Serial, NEW n \in Notifier, Retain(n)
  PROVE  Accounted'
<1> USE DEF Serial, Typed, TypeOK, Accounted, HoldsCopy
<1>1. /\ pc[n] = "retain" /\ pc' = [pc EXCEPT ![n] = "pause"]
      /\ UNCHANGED <<queued, todo, delivered>>
      /\ cur[n] \in Copy
  BY DEF Retain, Goto
<1>2. /\ cur[n].id \in Event /\ cur[n].id \in Unprocessed
      /\ cur[n].status \in {"sent", "failed", "canceled"}
      /\ \A c \in todo[n] : c.id # cur[n].id
  BY <1>1 DEF FreshInHand, Copy
<1>3. FreshInHand'
  BY <1>1 DEF FreshInHand
<1>4. CASE /\ events' = [events EXCEPT ![cur[n].id] =
                  [status |-> cur[n].status, createdAt |-> cur[n].createdAt]]
           /\ UNCHANGED lost
  <2>1. \A c \in todo[n] : events'[c.id] = events[c.id]
    BY <1>2, <1>4
  <2>2. FreshCopies'
    BY <1>1, <2>1 DEF FreshCopies, Unprocessed, CopyOf
  <2>3. \A e \in Event : ~Owed(e)'
    BY <1>1 DEF Owed
  <2>4. \A e \in Event : Owed(e) <=> e = cur[n].id /\ cur[n].status = "sent"
    BY <1>1 DEF Owed
  <2>5. events'[cur[n].id].status = cur[n].status
    BY <1>2, <1>4
  <2>6. \A e \in Event : e # cur[n].id => events'[e] = events[e]
    BY <1>4
  <2>7. events[cur[n].id].status \in {"pending", "failed"}
    BY <1>2 DEF Unprocessed
  <2>8. Ledger'
    BY <1>1, <1>2, <1>4, <2>3, <2>4, <2>5, <2>6, <2>7 DEF Ledger
  <2>9. QED BY <1>3, <2>2, <2>8
<1>5. CASE Forget(n) /\ UNCHANGED events
  <2>1. FreshCopies'
    BY <1>1, <1>5 DEF FreshCopies, Unprocessed, CopyOf
  <2>2. Ledger'
    BY <1>1, <1>5, CrashForgets DEF Stage
  <2>3. QED BY <1>3, <2>1, <2>2
<1>6. QED BY <1>4, <1>5 DEF Retain

LEMMA NextAccounted ==
  ASSUME Serial
  PROVE  Typed /\ Accounted /\ [Next]_vars => Accounted'
<1> SUFFICES ASSUME Typed, Accounted, [Next]_vars PROVE Accounted'
  OBVIOUS
<1> USE DEF Serial, Typed, TypeOK
<1>1. ASSUME NEW n \in Notifier, Start(n) PROVE Accounted'
  <2>1. /\ UNCHANGED <<events, queued, delivered, lost>>
        /\ pc' \in [Notifier -> Stage]
        /\ pc[n] = "idle" /\ pc'[n] = "connect"
        /\ todo' = todo
    BY <1>1 DEF Start, Goto, Stage, db, chat
  <2>2. todo'[n] = {}
    BY <2>1 DEF Accounted, FreshCopies
  <2>3. QED BY <2>1, <2>2, QuietStep
<1>2. ASSUME NEW n \in Notifier, Vacuum(n) PROVE Accounted'
  <2>1. /\ pc[n] = "vacuum" /\ pc' = [pc EXCEPT ![n] = "check"]
        /\ UNCHANGED <<queued, todo, cur, delivered, lost>>
    BY <1>2 DEF Vacuum, Goto, chat
  <2>2. todo[n] = {}
    BY <2>1 DEF Accounted, FreshCopies
  <2>3. FreshCopies' /\ FreshInHand'
    BY <2>1, <2>2 DEF FreshCopies, FreshInHand
  <2>4. \A e \in Event : ~Owed(e) /\ ~Owed(e)'
    BY <2>1 DEF Owed
  <2>5. \A e \in Event : events'[e] = events[e] \/ events'[e].status = "absent"
    BY <1>2 DEF Vacuum, NoRow
  <2>6. Ledger'
    BY <2>1, <2>4, <2>5 DEF Accounted, Ledger
  <2>7. QED BY <2>3, <2>6 DEF Accounted
<1>3. ASSUME NEW n \in Notifier, CheckDone(n) PROVE Accounted'
  <2>1. /\ UNCHANGED <<events, queued, delivered, lost>>
        /\ pc' \in [Notifier -> Stage]
        /\ pc[n] = "check" /\ pc'[n] = "read"
        /\ todo' = todo
    BY <1>3 DEF CheckDone, Goto, Stage, db, chat
  <2>2. todo'[n] = {}
    BY <2>1 DEF Accounted, FreshCopies
  <2>3. QED BY <2>1, <2>2, QuietStep
<1>4. ASSUME NEW n \in Notifier, ReadUnprocessed(n) PROVE Accounted'
  <2>1. /\ pc[n] = "read" /\ UNCHANGED <<events, queued, delivered, lost>>
    BY <1>4 DEF ReadUnprocessed, db, chat
  <2>2. CASE EndRun(n)
    <3>1. pc' \in [Notifier -> Stage] /\ pc'[n] = "idle" /\ todo'[n] = {}
      BY <2>2 DEF EndRun, Goto, Stage
    <3>2. QED BY <2>1, <3>1, QuietStep
  <2>3. CASE /\ todo' = [todo EXCEPT ![n] = {CopyOf(e) : e \in Unprocessed}]
             /\ Goto(n, "attempt")
    <3>1. pc' = [pc EXCEPT ![n] = "attempt"]
      BY <2>3 DEF Goto
    <3>2. \A c \in todo'[n] : \E e \in Unprocessed : c = CopyOf(e)
      BY <2>3
    <3>3. \A c \in todo'[n] : c.id \in Unprocessed' /\ c = CopyOf(c.id)'
      BY <2>1, <3>2 DEF CopyOf, Unprocessed
    <3>4. FreshCopies'
      BY <3>1, <3>3 DEF FreshCopies
    <3>5. FreshInHand'
      BY <3>1 DEF FreshInHand
    <3>6. \A e \in Event : ~Owed(e) /\ ~Owed(e)'
      BY <2>1, <3>1 DEF Owed
    <3>7. Ledger'
      BY <2>1, <3>6 DEF Accounted, Ledger
    <3>8. QED BY <3>4, <3>5, <3>7 DEF Accounted
  <2>4. QED BY <1>4, <2>2, <2>3 DEF ReadUnprocessed
<1>5. ASSUME NEW n \in Notifier, Attempt(n) PROVE Accounted'
  BY <1>5, AttemptAccounted
<1>6. ASSUME NEW n \in Notifier, Retain(n) PROVE Accounted'
  BY <1>6, RetainAccounted
<1>7. ASSUME NEW n \in Notifier, Pause(n) PROVE Accounted'
  <2>1. UNCHANGED <<events, queued, delivered, lost>> /\ pc[n] = "pause"
    BY <1>7 DEF Pause, db, chat
  <2>2. /\ pc' \in [Notifier -> Stage] /\ pc'[n] \in {"idle", "attempt"}
        /\ todo'[n] = {} \/ (todo'[n] = todo[n] /\ pc'[n] = "attempt")
    BY <1>7 DEF Pause, EndRun, Goto, Stage
  <2>3. QED BY <2>1, <2>2, QuietStep
<1>8. ASSUME NEW n \in Notifier, Sigterm(n) PROVE Accounted'
  <2>1. UNCHANGED <<events, queued, pc, todo, cur, delivered, lost>>
    BY <1>8 DEF Sigterm, db, chat
  <2>2. \A e \in Event : Owed(e)' <=> Owed(e)
    BY <2>1 DEF Owed
  <2>3. QED
    BY <2>1, <2>2 DEF Accounted, FreshCopies, FreshInHand, Ledger, Unprocessed, CopyOf
<1>9. ASSUME NEW n \in Notifier, Crash(n) PROVE Accounted'
  <2>1. /\ Forget(n) /\ UNCHANGED <<events, queued, delivered>>
        /\ pc' = [pc EXCEPT ![n] = "idle"]
        /\ todo' = [todo EXCEPT ![n] = {}]
    BY <1>9 DEF Crash, EndRun, Goto, db
  <2>2. Ledger'
    BY <2>1, CrashForgets DEF Stage
  <2>3. FreshCopies' /\ FreshInHand'
    BY <2>1 DEF FreshCopies, FreshInHand
  <2>4. QED BY <2>2, <2>3 DEF Accounted
<1>10. ASSUME NEW n \in Notifier, NEW e \in Event, QueueEvent(n, e) PROVE Accounted'
  <2>1. /\ pc[n] = "check" /\ e \notin queued /\ queued' = queued \cup {e}
        /\ events' = [events EXCEPT ![e] = [status |-> "pending", createdAt |-> clock]]
        /\ UNCHANGED <<pc, todo, cur, delivered, lost>>
    BY <1>10 DEF QueueEvent, runVars, chat
  <2>2. todo[n] = {} /\ FreshCopies' /\ FreshInHand'
    BY <2>1 DEF Accounted, FreshCopies, FreshInHand
  <2>3. \A d \in Event : ~Owed(d) /\ ~Owed(d)'
    BY <2>1 DEF Owed
  <2>4. Ledger'
    BY <2>1, <2>3 DEF Accounted, Ledger
  <2>5. QED BY <2>2, <2>4 DEF Accounted
<1>11. CASE Tick \/ UNCHANGED vars
  <2>1. UNCHANGED <<events, queued, pc, todo, cur, delivered, lost>>
    BY <1>11 DEF Tick, vars, db, runVars, chat
  <2>2. \A e \in Event : Owed(e)' <=> Owed(e)
    BY <2>1 DEF Owed
  <2>3. QED
    BY <2>1, <2>2 DEF Accounted, FreshCopies, FreshInHand, Ledger, Unprocessed, CopyOf
<1>12. ASSUME NEW n \in Notifier, Connect(n) PROVE Accounted'
  <2>1. UNCHANGED <<events, queued, delivered, lost>> /\ pc[n] = "connect"
    BY <1>12 DEF Connect, db, chat
  <2>2. todo[n] = {}
    BY <2>1 DEF Accounted, FreshCopies
  <2>3. pc' \in [Notifier -> Stage] /\ pc'[n] \in {"idle", "vacuum"} /\ todo'[n] = {}
    BY <1>12, <2>2 DEF Connect, EndRun, Goto, Stage
  <2>4. QED BY <2>1, <2>3, QuietStep
<1>13. QED
  BY <1>1, <1>2, <1>3, <1>4, <1>5, <1>6, <1>7, <1>8, <1>9, <1>10, <1>11, <1>12
     DEF Next, RunStep

LEMMA AccountedHolds == ASSUME Serial PROVE Spec => [](Typed /\ Accounted)
<1>1. Init => Typed /\ Accounted
  BY InitTyped, InitAccounted
<1>2. Typed /\ Accounted /\ [Next]_vars => Typed' /\ Accounted'
  BY NextTyped, NextAccounted
<1>3. QED BY <1>1, <1>2, PTL DEF Spec

\* One run at a time never repeats a message unless the record of an earlier
\* delivery was lost, nor calls canceled one whose delivery it knows of.
THEOREM SerialDuplicates == ASSUME Serial PROVE Spec => []DuplicateOnlyByLoss
<1>1. Spec => [](Typed /\ Accounted)
  BY AccountedHolds
<1>2. Typed /\ Accounted => DuplicateOnlyByLoss
  BY DEF Typed, TypeOK, Accounted, Ledger, DuplicateOnlyByLoss
<1>3. QED BY <1>1, <1>2, PTL

\* One run at a time never re-inserts, through the INSERT branch of its
\* write-back, an event the vacuum removed.
THEOREM SerialVacuum == ASSUME Serial PROVE Spec => VacuumedStaysGone
<1>1. ASSUME Typed, Accounted, [Next]_vars,
             NEW e \in Event, e \in queued, events[e].status = "absent"
      PROVE  events'[e].status = "absent"
  <2> USE <1>1 DEF Typed, TypeOK
  <2>1. CASE UNCHANGED events
    BY <2>1
  <2>2. ASSUME NEW n \in Notifier, Vacuum(n) PROVE events'[e].status = "absent"
    BY <2>2 DEF Vacuum, NoRow
  <2>3. ASSUME NEW n \in Notifier, NEW d \in Event, QueueEvent(n, d)
        PROVE  events'[e].status = "absent"
    BY <2>3 DEF QueueEvent
  <2>4. ASSUME NEW n \in Notifier, Retain(n) PROVE events'[e].status = "absent"
    <3>1. cur[n].id \in Unprocessed
      BY <2>4 DEF Retain, Accounted, FreshInHand
    <3>2. cur[n].id # e
      BY <3>1 DEF Unprocessed
    <3>3. QED BY <2>4, <3>2 DEF Retain
  <2>5. QED
    BY <2>1, <2>2, <2>3, <2>4
       DEF Next, RunStep, Start, Connect, CheckDone, ReadUnprocessed, Attempt, Pause,
           Sigterm, Crash, Tick, vars, db
<1>2. Typed /\ Accounted /\ [Next]_vars =>
        [\A e \in Event :
           (e \in queued /\ events[e].status = "absent")
             => events'[e].status = "absent"]_vars
  BY <1>1
<1>3. QED BY AccountedHolds, <1>2, PTL DEF Spec, VacuumedStaysGone
-----------------------------------------------------------------------------
(***************************************************************************)
(* Refinement: every step of non-overlapping runs is a step of the promise *)
(* or leaves it alone.                                                     *)
(***************************************************************************)
LEMMA InitPromise == Init => Promise!Init
  BY DEF Init, Promise!Init, FateOf, NoRow

\* The promise sees no change when table and books do not change.
LEMMA PromiseStutter ==
  ASSUME UNCHANGED <<events, queued, delivered, lost>>
  PROVE  UNCHANGED Promise!promiseVars
  BY DEF Promise!promiseVars, FateOf

\* A failed write-back or a killed process writes off the delivery in hand.
LEMMA PromiseForget ==
  ASSUME Typed, Accounted, NEW n \in Notifier,
         Forget(n), UNCHANGED <<events, queued, delivered>>
  PROVE  [Promise!Next]_(Promise!promiseVars)
<1>1. CASE pc[n] = "retain" /\ cur[n].status = "sent"
  <2>1. cur[n].id \in Event
    BY <1>1 DEF Typed, HoldsCopy, Copy
  <2>2. FateOf(cur[n].id) = "waiting"
    BY <1>1 DEF Accounted, FreshInHand, Unprocessed, FateOf
  <2>3. delivered[cur[n].id] = lost[cur[n].id] + 1
    BY <1>1, <2>1 DEF Accounted, Ledger, Owed
  <2>4. Promise!LoseRecord(cur[n].id)
    BY <1>1, <2>1, <2>2, <2>3
       DEF Promise!LoseRecord, Promise!Unrecorded, Forget, FateOf
  <2>5. QED BY <2>1, <2>4 DEF Promise!Next
<1>2. CASE ~(pc[n] = "retain" /\ cur[n].status = "sent")
  BY <1>2, PromiseStutter DEF Forget
<1>3. QED BY <1>1, <1>2

LEMMA PromiseAttempt ==
  ASSUME Typed, Accounted, Serial, NEW n \in Notifier, Attempt(n)
  PROVE  [Promise!Next]_(Promise!promiseVars)
<1>1. PICK c \in todo[n] :
        /\ c \in Copy
        /\ \/ UNCHANGED <<delivered, lost>>
           \/ /\ delivered' = [delivered EXCEPT ![c.id] = @ + 1]
              /\ UNCHANGED lost
           \/ /\ delivered' = [delivered EXCEPT ![c.id] = @ + 1]
              /\ lost' = [lost EXCEPT ![c.id] = @ + 1]
  BY AttemptEffect
<1>2. UNCHANGED <<events, queued>> /\ pc[n] = "attempt"
  BY DEF Attempt, db
<1>3. c.id \in Event /\ c.id \in Unprocessed
  BY <1>1 DEF Accounted, FreshCopies, Copy
<1>4. ~Owed(c.id)
  BY <1>2 DEF Owed, Serial
<1>5. delivered[c.id] = lost[c.id] /\ delivered[c.id] \in Nat
  BY <1>3, <1>4 DEF Accounted, Ledger, Unprocessed, Typed, TypeOK
<1>6. FateOf(c.id) = "waiting" /\ ~Promise!Unrecorded(c.id)
  BY <1>3, <1>5 DEF FateOf, Unprocessed, Promise!Unrecorded
<1>7. UNCHANGED [e \in Event |-> FateOf(e)]
  BY <1>2 DEF FateOf
<1>8. CASE UNCHANGED <<delivered, lost>>
  BY <1>2, <1>8, PromiseStutter
<1>9. CASE /\ delivered' = [delivered EXCEPT ![c.id] = @ + 1]
           /\ UNCHANGED lost
  <2>1. Promise!Deliver(c.id)
    BY <1>3, <1>6, <1>7, <1>9 DEF Promise!Deliver
  <2>2. QED BY <1>3, <2>1 DEF Promise!Next
<1>10. CASE /\ delivered' = [delivered EXCEPT ![c.id] = @ + 1]
            /\ lost' = [lost EXCEPT ![c.id] = @ + 1]
  <2>1. Promise!DeliverUnanswered(c.id)
    BY <1>3, <1>6, <1>7, <1>10 DEF Promise!DeliverUnanswered
  <2>2. QED BY <1>3, <2>1 DEF Promise!Next
<1>11. QED BY <1>1, <1>8, <1>9, <1>10

LEMMA PromiseRetain ==
  ASSUME Typed, Accounted, Serial, NEW n \in Notifier, Retain(n)
  PROVE  [Promise!Next]_(Promise!promiseVars)
<1>1. /\ pc[n] = "retain" /\ UNCHANGED <<queued, delivered>>
      /\ cur[n] \in Copy
  BY DEF Retain, Typed, HoldsCopy
<1>2. PICK e \in Event :
        /\ e = cur[n].id /\ e \in Unprocessed
        /\ cur[n].status \in {"sent", "failed", "canceled"}
  BY <1>1 DEF Accounted, FreshInHand, Copy
<1>3. CASE Forget(n) /\ UNCHANGED events
  BY <1>1, <1>3, PromiseForget
<1>4. CASE /\ events' = [events EXCEPT ![cur[n].id] =
                  [status |-> cur[n].status, createdAt |-> cur[n].createdAt]]
           /\ UNCHANGED lost
  <2>1. /\ events'[e].status = cur[n].status
        /\ \A d \in Event : d # e => events'[d] = events[d]
    BY <1>2, <1>4 DEF Typed, TypeOK
  <2>2. FateOf(e) = "waiting"
    BY <1>2 DEF FateOf, Unprocessed
  <2>3. \A d \in Event : d # e => FateOf(d)' = FateOf(d)
    BY <1>1, <2>1 DEF FateOf
  <2>4. Owed(e) <=> cur[n].status = "sent"
    BY <1>1, <1>2 DEF Owed, Serial
  <2>5. CASE cur[n].status = "sent"
    <3>1. FateOf(e)' = "sent"
      BY <2>1, <2>5 DEF FateOf
    <3>2. delivered[e] = lost[e] + 1
      BY <1>2, <2>4, <2>5 DEF Accounted, Ledger
    <3>3. Promise!Record(e)
      BY <1>1, <1>2, <1>4, <2>2, <2>3, <3>1, <3>2
         DEF Promise!Record, Promise!Unrecorded
    <3>4. QED BY <1>2, <3>3 DEF Promise!Next
  <2>6. CASE cur[n].status = "canceled"
    <3>1. FateOf(e)' = "canceled"
      BY <2>1, <2>6 DEF FateOf
    <3>2. delivered[e] = lost[e] /\ delivered[e] \in Nat
      BY <1>2, <2>4, <2>6 DEF Accounted, Ledger, Unprocessed, Typed, TypeOK
    <3>3. Promise!Cancel(e)
      BY <1>1, <1>2, <1>4, <2>2, <2>3, <3>1, <3>2
         DEF Promise!Cancel, Promise!Unrecorded
    <3>4. QED BY <1>2, <3>3 DEF Promise!Next
  <2>7. CASE cur[n].status = "failed"
    <3>1. FateOf(e)' = "waiting"
      BY <2>1, <2>7 DEF FateOf
    <3>2. UNCHANGED [d \in Event |-> FateOf(d)]
      BY <2>2, <2>3, <3>1
    <3>3. QED BY <1>1, <1>4, <3>2 DEF Promise!promiseVars
  <2>8. QED BY <1>2, <2>5, <2>6, <2>7
<1>5. QED BY <1>3, <1>4 DEF Retain

LEMMA PromiseVacuum ==
  ASSUME Typed, Accounted, NEW n \in Notifier, Vacuum(n)
  PROVE  [Promise!Next]_(Promise!promiseVars)
<1>1. UNCHANGED <<queued, delivered, lost>>
  BY DEF Vacuum, chat
<1>2. CASE UNCHANGED events
  BY <1>1, <1>2, PromiseStutter
<1>3. CASE events' = [e \in Event |->
                IF /\ events[e].status # "pending"
                   /\ events[e].createdAt + Retention < clock
                THEN NoRow ELSE events[e]]
  <2> DEFINE old == {e \in Event : /\ FateOf(e) \in {"waiting", "sent", "canceled"}
                                   /\ events[e].status # "pending"
                                   /\ events[e].createdAt + Retention < clock}
  <2>1. ASSUME NEW e \in Event, e \in old PROVE FateOf(e)' = "purged"
    <3>1. events[e].status # "absent" /\ e \in queued
      BY <2>1 DEF FateOf, Accounted, Ledger
    <3>2. events'[e] = NoRow
      BY <1>3, <2>1
    <3>3. QED BY <1>1, <3>1, <3>2 DEF FateOf, NoRow
  <2>2. ASSUME NEW e \in Event, e \notin old PROVE FateOf(e)' = FateOf(e)
    <3>1. CASE events[e].status = "absent"
      BY <1>1, <1>3, <3>1 DEF FateOf, NoRow
    <3>2. CASE events[e].status # "absent"
      <4>1. FateOf(e) \in {"waiting", "sent", "canceled"}
        BY <3>2 DEF FateOf, Typed, TypeOK, Row, Status
      <4>2. events'[e] = events[e]
        BY <1>3, <2>2, <4>1
      <4>3. QED BY <1>1, <4>2 DEF FateOf
    <3>3. QED BY <3>1, <3>2
  <2>3. [e \in Event |-> FateOf(e)]'
          = [e \in Event |-> IF e \in old THEN "purged"
                                         ELSE [d \in Event |-> FateOf(d)][e]]
    BY <2>1, <2>2
  <2>4. old \in SUBSET {e \in Event :
               [d \in Event |-> FateOf(d)][e] \in {"waiting", "sent", "canceled"}}
    OBVIOUS
  <2>5. Promise!Purge
    BY <1>1, <2>3, <2>4 DEF Promise!Purge
  <2>6. QED BY <2>5 DEF Promise!Next
<1>4. QED BY <1>2, <1>3 DEF Vacuum

LEMMA PromiseStep ==
  ASSUME Serial
  PROVE  Typed /\ Accounted /\ [Next]_vars
           => [Promise!Next]_(Promise!promiseVars)
<1> SUFFICES ASSUME Typed, Accounted, [Next]_vars
             PROVE  [Promise!Next]_(Promise!promiseVars)
  OBVIOUS
<1>1. ASSUME NEW n \in Notifier,
             \/ Start(n) \/ Connect(n) \/ CheckDone(n) \/ ReadUnprocessed(n)
             \/ Pause(n) \/ Sigterm(n)
      PROVE  UNCHANGED Promise!promiseVars
  BY <1>1, PromiseStutter
     DEF Start, Connect, CheckDone, ReadUnprocessed, Pause, Sigterm, db, chat
<1>2. ASSUME NEW n \in Notifier, Crash(n)
      PROVE  [Promise!Next]_(Promise!promiseVars)
  BY <1>2, PromiseForget DEF Crash, db
<1>3. ASSUME NEW n \in Notifier, NEW e \in Event, QueueEvent(n, e)
      PROVE  [Promise!Next]_(Promise!promiseVars)
  <2>1. /\ e \notin queued /\ queued' = queued \cup {e}
        /\ events' = [events EXCEPT ![e] = [status |-> "pending", createdAt |-> clock]]
        /\ UNCHANGED <<delivered, lost>>
    BY <1>3 DEF QueueEvent, chat
  <2>2. FateOf(e) = "none"
    BY <2>1 DEF FateOf, Accounted, Ledger
  <2>3. FateOf(e)' = "waiting"
    BY <2>1 DEF FateOf, Typed, TypeOK
  <2>4. \A d \in Event : d # e => FateOf(d)' = FateOf(d)
    BY <2>1 DEF FateOf, Typed, TypeOK
  <2>5. Promise!Queue(e)
    BY <2>1, <2>2, <2>3, <2>4 DEF Promise!Queue
  <2>6. QED BY <2>5 DEF Promise!Next
<1>4. CASE Tick \/ UNCHANGED vars
  BY <1>4, PromiseStutter DEF Tick, vars, db, chat
<1>5. QED
  BY <1>1, <1>2, <1>3, <1>4, PromiseVacuum, PromiseAttempt, PromiseRetain
     DEF Next, RunStep

\* Notifier runs that never overlap implement the promise of the pool: every
\* queued message waits, is delivered, recorded, written off, abandoned or
\* purged exactly as DeliveryPromise allows.
THEOREM SerialKeepsPromise == ASSUME Serial PROVE Spec => Promise!Spec
<1>1. Typed /\ Accounted /\ [Next]_vars
        => [Promise!Next]_(Promise!promiseVars)
  BY PromiseStep
<1>2. QED
  BY AccountedHolds, InitPromise, <1>1, PTL DEF Spec, Promise!Spec
=============================================================================
