----------------------------- MODULE RateCheck -----------------------------
(***************************************************************************)
(* RateCheckAgent.Run against the subscription table, while the Mini App   *)
(* creates, updates and deletes subscriptions and the collector adds       *)
(* rates.                                                                  *)
(*                                                                         *)
(* A run visits every source: it reads the newest rate in one transaction, *)
(* the subscriptions in another, writes each due subscription back as a    *)
(* whole row with the rate as its new baseline, and only after the last    *)
(* source queues the messages that tell the users.  A web request also     *)
(* reads a row and later writes it back whole.  What makes a time-based    *)
(* subscription due is the subject of module Schedule; here it is due or   *)
(* not as it happens.                                                      *)
(***************************************************************************)
EXTENDS Integers

CONSTANTS
    Sub,            \* ids of rate_user_subscriptions rows
    Source,         \* rate sources
    NoSource,       \* no source
    SourceOf,       \* the source a subscription watches
    OwnerOf,        \* the user it belongs to
    Threshold,      \* delta thresholds users may ask for
    Run,            \* slots for concurrent notifier runs
    Request,        \* slots for concurrent web requests
    MaxPrice,       \* bound: prices are 1..MaxPrice
    MaxRates,       \* bound: rates the collector adds
    MaxEdits,       \* bound: update and delete requests
    MaxFaults       \* bound: crashes, signals, failed transactions

ASSUME RateCheckAssumption ==
    /\ SourceOf \in [Sub -> Source]
    /\ NoSource \notin Source
    /\ Threshold \subseteq Nat
    /\ MaxPrice \in Nat /\ MaxRates \in Nat /\ MaxEdits \in Nat /\ MaxFaults \in Nat

VARIABLES
    latest,         \* newest rate of each source, 0 before the first
    subs,           \* the table: id -> row
    pc,             \* where the run of a slot is
    sig,            \* its context was cancelled by SIGTERM
    toVisit,        \* sources the run has still to visit
    at,             \* the source it is visiting
    price,          \* the rate it read there
    batch,          \* copies of due subscriptions it has still to handle
    folded,         \* alerts built and not yet queued: <<subscription, rate>>
    req,            \* web requests in progress
    acked,          \* history: what the owner was last told of the row
    told,           \* history: <<subscription, rate>> of queued messages
    missed,         \* history: <<subscription, rate>> of lost messages
    fired,          \* history: rate of the last alert built, 0 for none
    spoiled,        \* history: subscriptions that lost a baseline write
    rates, edits, faults    \* counters behind MaxRates, MaxEdits, MaxFaults

visit == <<sig, toVisit, at, price>>
web == <<req, acked, edits>>
env == <<latest, rates>>
books == <<told, missed, fired, spoiled>>
vars == <<latest, subs, pc, sig, toVisit, at, price, batch, folded, req, acked,
          told, missed, fired, spoiled, rates, edits, faults>>

Price == 1 .. MaxPrice
Alert == Sub \X Price
Timed == [type |-> "timed", value |-> 0]
Condition == [type : {"delta"}, value : Threshold] \cup {Timed}
Row == [live : BOOLEAN, cond : Condition, rate : Price \cup {0}]
NoRow == [live |-> FALSE, cond |-> Timed, rate |-> 0]
Copy == [id : Sub, cond : Condition, rate : Price \cup {0}]
Stage == {"idle", "value", "subs", "fire", "queue"}
NoRequest == [kind |-> "none"]
Pending == [kind : {"patch"}, copy : Copy] \cup [kind : {"delete"}, id : Sub]

\* What a 201 or 204 answer told the owner: nothing yet, that the row exists
\* with a condition, or that it is gone.
Answer == [said : {"none", "exists", "deleted"}, cond : Condition]
Said(word, cond) == [said |-> word, cond |-> cond]

CopyOf(s) == [id |-> s, cond |-> subs[s].cond, rate |-> subs[s].rate]
RowOf(c) == [live |-> TRUE, cond |-> c.cond, rate |-> c.rate]

TypeOK ==
    /\ latest \in [Source -> Price \cup {0}]
    /\ subs \in [Sub -> Row]
    /\ pc \in [Run -> Stage]
    /\ sig \in [Run -> BOOLEAN]
    /\ toVisit \in [Run -> SUBSET Source]
    /\ at \in [Run -> Source \cup {NoSource}]
    /\ price \in [Run -> Price \cup {0}]
    /\ batch \in [Run -> SUBSET Copy]
    /\ folded \in [Run -> SUBSET Alert]
    /\ req \in [Request -> Pending \cup {NoRequest}]
    /\ acked \in [Sub -> Answer]
    /\ told \subseteq Alert /\ missed \subseteq Alert
    /\ fired \in [Sub -> Price \cup {0}]
    /\ spoiled \subseteq Sub
    /\ rates \in Nat /\ edits \in Nat /\ faults \in Nat

Init ==
    /\ latest = [x \in Source |-> 0]
    /\ subs = [s \in Sub |-> NoRow]
    /\ pc = [n \in Run |-> "idle"]
    /\ sig = [n \in Run |-> FALSE]
    /\ toVisit = [n \in Run |-> {}]
    /\ at = [n \in Run |-> NoSource]
    /\ price = [n \in Run |-> 0]
    /\ batch = [n \in Run |-> {}]
    /\ folded = [n \in Run |-> {}]
    /\ req = [r \in Request |-> NoRequest]
    /\ acked = [s \in Sub |-> Said("none", Timed)]
    /\ told = {} /\ missed = {}
    /\ fired = [s \in Sub |-> 0]
    /\ spoiled = {}
    /\ rates = 0 /\ edits = 0 /\ faults = 0
-----------------------------------------------------------------------------
(* RateCheckAgent.Run                                                      *)

Goto(n, stage) == pc' = [pc EXCEPT ![n] = stage]

Fault == faults < MaxFaults /\ faults' = faults + 1

\* A database call may fail; under a cancelled context it always does.
Fails(n) == IF sig[n] THEN UNCHANGED faults ELSE Fault

EndRun(n) ==
    /\ Goto(n, "idle")
    /\ sig' = [sig EXCEPT ![n] = FALSE]
    /\ toVisit' = [toVisit EXCEPT ![n] = {}]
    /\ at' = [at EXCEPT ![n] = NoSource]
    /\ price' = [price EXCEPT ![n] = 0]
    /\ batch' = [batch EXCEPT ![n] = {}]
    /\ folded' = [folded EXCEPT ![n] = {}]

\* ObtainAllRateSources, once the notifier has started: cron starts runs whether or
\* not another one works, and Telegram lets them in or not (Dispatch).
Begin(n) ==
    /\ pc[n] = "idle"
    /\ toVisit' = [toVisit EXCEPT ![n] = Source]
    /\ Goto(n, "value")
    /\ UNCHANGED <<env, subs, sig, at, price, batch, folded, web, books, faults>>

\* The newest rate of the next source; a source that has none, or whose read
\* fails, is left out of this run.
ReadValue(n) ==
    /\ pc[n] = "value" /\ toVisit[n] # {}
    /\ \E x \in toVisit[n] :
        /\ toVisit' = [toVisit EXCEPT ![n] = @ \ {x}]
        /\ \/ /\ ~sig[n] /\ latest[x] # 0
              /\ at' = [at EXCEPT ![n] = x]
              /\ price' = [price EXCEPT ![n] = latest[x]]
              /\ Goto(n, "subs")
              /\ UNCHANGED faults
           \/ /\ \/ latest[x] = 0 /\ UNCHANGED faults
                 \/ Fails(n)
              /\ UNCHANGED <<pc, at, price>>
    /\ UNCHANGED <<env, subs, sig, batch, folded, web, books>>

Abs(d) == IF d < 0 THEN -d ELSE d

\* mutant of DeltaSatisfied: the threshold itself does not fire
DeltaExceeded(c, current) == c.rate <= 0 \/ Abs(current - c.rate) > c.cond.value

\* IsDeltaSatisfied: without a baseline it fires unconditionally.
DeltaSatisfied(c, current) == c.rate <= 0 \/ Abs(current - c.rate) >= c.cond.value

\* IsDue, the clock's part left open.
MayBeDue(c, current) == c.cond.type = "timed" \/ DeltaSatisfied(c, current)
MustBeDue(c, current) == c.cond.type = "delta" /\ DeltaSatisfied(c, current)

\* The subscriptions of the source, in a transaction of their own; those not
\* due are passed over.
ReadSubs(n) ==
    /\ pc[n] = "subs"
    /\ \/ /\ ~sig[n]
          /\ LET copies == {CopyOf(s) : s \in {s \in Sub : subs[s].live /\ SourceOf[s] = at[n]}}
             IN  \E due \in SUBSET {c \in copies : MayBeDue(c, price[n])} :
                    /\ {c \in copies : MustBeDue(c, price[n])} \subseteq due
                    /\ batch' = [batch EXCEPT ![n] = due]
          /\ Goto(n, "fire")
          /\ UNCHANGED faults
       \/ /\ Fails(n)
          /\ Goto(n, "value")
          /\ UNCHANGED batch
    /\ UNCHANGED <<env, subs, sig, toVisit, at, price, folded, web, books>>

\* mutants of Advanced: the baseline stays, or becomes the change
NotAdvanced(c, current) == RowOf(c)
AdvancedByDelta(c, current) == [RowOf(c) EXCEPT !.rate = current - c.rate]

\* The row written back: every column from the copy, the rate as baseline.
Advanced(c, current) == [RowOf(c) EXCEPT !.rate = current]

\* Write a due subscription back with the new baseline (UPDATE when the id is
\* there, INSERT when it is not), then build its alert whether or not the
\* write succeeded.
Fire(n) ==
    /\ pc[n] = "fire"
    /\ \E c \in batch[n] :
        /\ batch' = [batch EXCEPT ![n] = @ \ {c}]
        /\ folded' = [folded EXCEPT ![n] = @ \cup {<<c.id, price[n]>>}]
        /\ fired' = [fired EXCEPT ![c.id] = price[n]]
        /\ \/ /\ ~sig[n]
              /\ subs' = [subs EXCEPT ![c.id] = Advanced(c, price[n])]
              /\ spoiled' = spoiled \ {c.id}
              /\ UNCHANGED faults
           \/ /\ Fails(n)
              /\ spoiled' = spoiled \cup {c.id}
              /\ UNCHANGED subs
    /\ UNCHANGED <<env, pc, visit, web, told, missed>>

\* On to the next source, and after the last one to the messages.
NextSource(n) ==
    /\ \/ pc[n] = "fire" /\ batch[n] = {} /\ Goto(n, "value")
       \/ pc[n] = "value" /\ toVisit[n] = {} /\ Goto(n, "queue")
    /\ UNCHANGED <<env, subs, visit, batch, folded, web, books, faults>>

\* Insert one pending event: a part of one user's message.
QueuePart(n) ==
    /\ pc[n] = "queue"
    /\ \E part \in SUBSET folded[n] \ {{}} :
        /\ \A a, b \in part : OwnerOf[a[1]] = OwnerOf[b[1]]
        /\ folded' = [folded EXCEPT ![n] = @ \ part]
        /\ \/ /\ ~sig[n]
              /\ told' = told \cup part
              /\ UNCHANGED <<missed, faults>>
           \/ /\ Fails(n)
              /\ missed' = missed \cup part
              /\ UNCHANGED told
    /\ UNCHANGED <<env, subs, pc, visit, batch, web, fired, spoiled>>

\* mutant of Finish: returns with messages still to queue
FinishEarly(n) ==
    /\ pc[n] = "queue"
    /\ EndRun(n)
    /\ UNCHANGED <<env, subs, web, books, faults>>

Finish(n) ==
    /\ pc[n] = "queue" /\ folded[n] = {}
    /\ EndRun(n)
    /\ UNCHANGED <<env, subs, web, books, faults>>

RunStep(n) ==
    ReadValue(n) \/ ReadSubs(n) \/ Fire(n) \/ NextSource(n) \/ QueuePart(n) \/ Finish(n)

Sigterm(n) ==
    /\ pc[n] # "idle" /\ ~sig[n]
    /\ Fault
    /\ sig' = [sig EXCEPT ![n] = TRUE]
    /\ UNCHANGED <<env, subs, pc, toVisit, at, price, batch, folded, web, books>>

\* The process dies; the alerts it had not queued die with it.
Crash(n) ==
    /\ pc[n] # "idle"
    /\ Fault
    /\ missed' = missed \cup folded[n]
    /\ EndRun(n)
    /\ UNCHANGED <<env, subs, web, told, fired, spoiled>>
-----------------------------------------------------------------------------
(* The Mini App's requests.                                                *)

\* CreateMeSubscription inserts a row with a fresh id and no baseline.
Create(s, cond) ==
    /\ acked[s].said = "none"
    /\ subs' = [subs EXCEPT ![s] = [live |-> TRUE, cond |-> cond, rate |-> 0]]
    /\ acked' = [acked EXCEPT ![s] = Said("exists", cond)]
    /\ UNCHANGED <<env, pc, visit, batch, folded, req, books, edits, faults>>

\* meSubscriptionOwnershipCheck: UpdateMeSubscription and DeleteMeSubscription
\* read the row first; a missing row is answered 404.
Receive(r, s, cond) ==
    /\ req[r] = NoRequest /\ edits < MaxEdits
    /\ subs[s].live
    /\ \/ /\ req' = [req EXCEPT ![r] =
                [kind |-> "patch", copy |-> [CopyOf(s) EXCEPT !.cond = cond]]]
       \/ req' = [req EXCEPT ![r] = [kind |-> "delete", id |-> s]]
    /\ edits' = edits + 1
    /\ UNCHANGED <<env, subs, pc, visit, batch, folded, acked, books, faults>>

\* Write the patched row back whole: 204, or 500 when the transaction fails.
Patch(r) ==
    /\ req[r].kind = "patch"
    /\ LET c == req[r].copy
       IN  \/ /\ subs' = [subs EXCEPT ![c.id] = RowOf(c)]
              /\ acked' = [acked EXCEPT ![c.id] = Said("exists", c.cond)]
              /\ spoiled' = IF c.rate = fired[c.id] THEN spoiled ELSE spoiled \cup {c.id}
              /\ UNCHANGED faults
           \/ Fault /\ UNCHANGED <<subs, acked, spoiled>>
    /\ req' = [req EXCEPT ![r] = NoRequest]
    /\ UNCHANGED <<env, pc, visit, batch, folded, told, missed, fired, edits>>

\* Delete by id; deleting a row that is no longer there is answered 204 too.
Delete(r) ==
    /\ req[r].kind = "delete"
    /\ LET s == req[r].id
       IN  \/ /\ subs' = [subs EXCEPT ![s] = NoRow]
              /\ acked' = [acked EXCEPT ![s] = Said("deleted", Timed)]
              /\ UNCHANGED faults
           \/ Fault /\ UNCHANGED <<subs, acked>>
    /\ req' = [req EXCEPT ![r] = NoRequest]
    /\ UNCHANGED <<env, pc, visit, batch, folded, books, edits>>
-----------------------------------------------------------------------------
\* The collector stores another rate.
NewRate(x) ==
    /\ rates < MaxRates /\ rates' = rates + 1
    /\ \E p \in Price \ {latest[x]} : latest' = [latest EXCEPT ![x] = p]
    /\ UNCHANGED <<subs, pc, visit, batch, folded, web, books, faults>>

Next ==
    \/ \E n \in Run : Begin(n) \/ RunStep(n) \/ Sigterm(n) \/ Crash(n)
    \/ \E s \in Sub, cond \in Condition :
        Create(s, cond) \/ \E r \in Request : Receive(r, s, cond)
    \/ \E r \in Request : Patch(r) \/ Delete(r)
    \/ \E x \in Source : NewRate(x)

\* A run that has begun goes on, a request that was received is answered.
Fairness ==
    /\ \A n \in Run : WF_vars(RunStep(n))
    /\ \A r \in Request : WF_vars(Patch(r) \/ Delete(r))

Spec == Init /\ [][Next]_vars
FairSpec == Spec /\ Fairness
-----------------------------------------------------------------------------
(* Properties.                                                             *)

\* A baseline never moves in silence: the rate a subscription is compared
\* with is one its owner was told in a queued message, or is about to be by
\* a run in progress, or whose message was lost to a fault.  It holds for
\* overlapping runs, stale write-backs and resurrected rows alike.
NoSilentAdvance ==
    \A s \in Sub :
        subs[s].rate # 0 =>
            \/ <<s, subs[s].rate>> \in told \cup missed
            \/ \E n \in Run : <<s, subs[s].rate>> \in folded[n]

\* "LatestNotifiedRate advances, preventing re-fire on unchanged rates": with
\* one run at a time a positive delta threshold never fires twice in a row on
\* the same rate, unless the baseline was lost: the write failed, or a web
\* request wrote an older one back.
NoRefire ==
    [][\A n \in Run : \A c \in batch[n] :
          (/\ pc[n] = "fire" /\ c \notin batch'[n] /\ pc'[n] = "fire"
           /\ c.cond.type = "delta" /\ c.cond.value > 0
           /\ c.id \notin spoiled)
              => price[n] # fired[c.id]]_vars

\* Again and again some run begins.
RunsBegin == []<>(\E n \in Run : pc[n] = "value")

\* As long as runs begin, every delta subscription's owner, once rates, edits and
\* faults have ceased, has been told (or was to be told by a message lost to a
\* fault) a rate that is within the threshold of the current one.
Informed(s) ==
    \E a \in told \cup missed :
        a[1] = s /\ Abs(latest[SourceOf[s]] - a[2]) < subs[s].cond.value

EventuallyInformed == RunsBegin =>
    <>[](\A s \in Sub :
            (/\ subs[s].live /\ subs[s].cond.type = "delta" /\ subs[s].cond.value > 0
             /\ latest[SourceOf[s]] # 0)
                => Informed(s))

\* "204 No Content on success" of UpdateMeSubscription and
\* DeleteMeSubscription: an acknowledged condition stays until the owner
\* changes it again, and an acknowledged deletion is final.
AckedSticks ==
    \A s \in Sub :
        /\ acked[s].said = "exists" => subs[s].live /\ subs[s].cond = acked[s].cond
        /\ acked[s].said = "deleted" => ~subs[s].live
=============================================================================
