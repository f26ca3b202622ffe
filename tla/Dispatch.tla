------------------------------ MODULE Dispatch ------------------------------
(***************************************************************************)
(* The notification pool (table rate_user_events) and the runs of          *)
(* cmd/notifier that vacuum it, fill it and deliver from it.               *)
(*                                                                         *)
(* Cron starts notifier runs and nothing keeps two of them apart, so each  *)
(* element of Notifier is a slot in which one run at a time executes; one  *)
(* slot models runs that never overlap.  A run is: a call to Telegram,     *)
(* without whose answer it ends before it has begun; Vacuum; the check     *)
(* agent (here only its effect on the pool, QueueEvent); then              *)
(* RateDispatchAgent.Run, which reads every unprocessed event once and     *)
(* works through its own copies: decide, send, write the whole row back,   *)
(* pause.  Telegram, SIGTERM, a killed process and failing transactions    *)
(* are the environment.  The client that calls Telegram has no timeout.    *)
(***************************************************************************)
EXTENDS Naturals, FiniteSets

CONSTANTS
    Event,          \* ids of rate_user_events rows
    NoEvent,        \* the id of no row
    Notifier,       \* slots for concurrent notifier runs
    Reachable,      \* events whose user id parses as a Telegram chat
    TTL,            \* RateDispatchAgent.ttl, in clock ticks
    Retention,      \* Vacuum's age limit, in clock ticks
    MaxClock,       \* bound: the last clock tick
    MaxCopies,      \* bound: copies of one message that Telegram accepts
    MaxFaults       \* bound: crashes, signals, failed transactions, lost answers

ASSUME DispatchAssumption ==
    /\ Reachable \subseteq Event
    /\ NoEvent \notin Event
    /\ TTL \in Nat /\ Retention \in Nat
    /\ MaxClock \in Nat /\ MaxCopies \in Nat /\ MaxFaults \in Nat

VARIABLES
    clock,          \* wall clock
    events,         \* the table: id -> row, status "absent" when there is none
    pc,             \* where the run of a slot is, "idle" when there is no run
    sig,            \* the run's context was cancelled by SIGTERM
    now,            \* the instant RateDispatchAgent.Run took at its start
    todo,           \* copies of unprocessed events the run still has to handle
    cur,            \* the copy in hand
    queued,         \* history: ids ever inserted
    delivered,      \* history: copies in the recipient's chat
    lost,           \* history: deliveries whose record was lost
    faults          \* faults so far

db == <<events, queued>>
runVars == <<pc, sig, now, todo, cur>>
chat == <<delivered, lost>>
vars == <<clock, events, pc, sig, now, todo, cur, queued, delivered, lost, faults>>

Status == {"absent", "pending", "sent", "failed", "canceled"}
Row == [status : Status, createdAt : Nat]
NoRow == [status |-> "absent", createdAt |-> 0]
Copy == [id : Event, status : Status, createdAt : Nat]
NoCopy == [id |-> NoEvent, status |-> "absent", createdAt |-> 0]
Stage == {"idle", "connect", "vacuum", "check", "read", "attempt", "retain", "pause"}

\* mutants of Unprocessed: failed events are not retried; settled ones are
PendingOnly == {e \in Event : events[e].status = "pending"}
AnyStatus == {e \in Event : events[e].status # "absent"}

\* Events a run picks up: status in (pending, failed).
Unprocessed == {e \in Event : events[e].status \in {"pending", "failed"}}

\* mutant of CopyOf: the copy carries the deadline's baseline
Backdated(e) ==
    [id |-> e, status |-> events[e].status, createdAt |-> events[e].createdAt - TTL]

CopyOf(e) == [id |-> e, status |-> events[e].status, createdAt |-> events[e].createdAt]

TypeOK ==
    /\ clock \in Nat
    /\ events \in [Event -> Row]
    /\ pc \in [Notifier -> Stage]
    /\ sig \in [Notifier -> BOOLEAN]
    /\ now \in [Notifier -> Nat]
    /\ todo \in [Notifier -> SUBSET Copy]
    /\ cur \in [Notifier -> Copy \cup {NoCopy}]
    /\ queued \subseteq Event
    /\ delivered \in [Event -> Nat]
    /\ lost \in [Event -> Nat]
    /\ faults \in Nat

Init ==
    /\ clock = 0
    /\ events = [e \in Event |-> NoRow]
    /\ pc = [n \in Notifier |-> "idle"]
    /\ sig = [n \in Notifier |-> FALSE]
    /\ now = [n \in Notifier |-> 0]
    /\ todo = [n \in Notifier |-> {}]
    /\ cur = [n \in Notifier |-> NoCopy]
    /\ queued = {}
    /\ delivered = [e \in Event |-> 0]
    /\ lost = [e \in Event |-> 0]
    /\ faults = 0
-----------------------------------------------------------------------------
(* The notifier run, up to the dispatch agent.                             *)

Goto(n, stage) == pc' = [pc EXCEPT ![n] = stage]

\* The process is gone, and what it held in memory with it.
EndRun(n) ==
    /\ Goto(n, "idle")
    /\ sig' = [sig EXCEPT ![n] = FALSE]
    /\ now' = [now EXCEPT ![n] = 0]
    /\ todo' = [todo EXCEPT ![n] = {}]
    /\ cur' = [cur EXCEPT ![n] = NoCopy]

\* One of the environment's faults, within the bound.
Fault == faults < MaxFaults /\ faults' = faults + 1

\* Cron starts a run; nothing checks whether the previous one has ended.
Start(n) ==
    /\ pc[n] = "idle"
    /\ Goto(n, "connect")
    /\ UNCHANGED <<clock, db, sig, now, todo, cur, chat, faults>>

\* NewTBotClient asks Telegram for the bot's name: an error ends the run here
\* (log.Fatalf), before the vacuum; no answer keeps it here.
Connect(n) ==
    /\ pc[n] = "connect"
    /\ \/ Goto(n, "vacuum") /\ UNCHANGED <<sig, now, todo, cur>>
       \/ EndRun(n)
    /\ UNCHANGED <<clock, db, chat, faults>>

\* mutant of Vacuum: also runs while a dispatch is under way
VacuumBetween(n) ==
    /\ pc[n] \in {"vacuum", "attempt"}
    /\ Goto(n, IF pc[n] = "vacuum" THEN "check" ELSE "attempt")
    /\ events' = [e \in Event |->
            IF /\ events[e].status # "pending"
               /\ events[e].createdAt + Retention < clock
            THEN NoRow ELSE events[e]]
    /\ UNCHANGED <<clock, queued, sig, now, todo, cur, chat, faults>>

\* Delete every non-pending row created before the retention window.  Runs
\* under a background context and its failure does not stop the run.
Vacuum(n) ==
    /\ pc[n] = "vacuum"
    /\ Goto(n, "check")
    /\ \/ /\ events' = [e \in Event |->
                IF /\ events[e].status # "pending"
                   /\ events[e].createdAt + Retention < clock
                THEN NoRow ELSE events[e]]
          /\ UNCHANGED faults
       \/ Fault /\ UNCHANGED events
    /\ UNCHANGED <<clock, queued, sig, now, todo, cur, chat>>

\* The check agent inserts a fresh pending event; under a cancelled context
\* the transaction cannot begin.  The last TTL ticks of the horizon take no
\* new events, so that each one still lives to see its deadline.
QueueEvent(n, e) ==
    /\ pc[n] = "check" /\ ~sig[n]
    /\ e \notin queued
    /\ clock + TTL < MaxClock
    /\ events' = [events EXCEPT ![e] = [status |-> "pending", createdAt |-> clock]]
    /\ queued' = queued \cup {e}
    /\ UNCHANGED <<clock, runVars, chat, faults>>

CheckDone(n) ==
    /\ pc[n] = "check"
    /\ Goto(n, "read")
    /\ UNCHANGED <<clock, db, sig, now, todo, cur, chat, faults>>
-----------------------------------------------------------------------------
(* RateDispatchAgent.Run                                                   *)

\* Snapshot every pending or failed event; an error, which a cancelled
\* context makes certain, ends the run.
ReadUnprocessed(n) ==
    /\ pc[n] = "read"
    /\ \/ /\ ~sig[n] /\ Unprocessed # {}
          /\ todo' = [todo EXCEPT ![n] = {CopyOf(e) : e \in Unprocessed}]
          /\ now' = [now EXCEPT ![n] = clock]
          /\ Goto(n, "attempt")
          /\ UNCHANGED <<sig, cur, faults>>
       \/ /\ sig[n] \/ Unprocessed = {}
          /\ EndRun(n)
          /\ UNCHANGED faults
       \/ Fault /\ EndRun(n)
    /\ UNCHANGED <<clock, db, chat>>

\* ORDER BY created_at ASC; rows of the same second come in any order.
Oldest(copies) == {c \in copies : \A d \in copies : c.createdAt <= d.createdAt}

\* mutants of Expired: off by one; never
ExpiredEarly(n, c) == c.createdAt + TTL <= now[n]
ExpiredNever(n, c) == FALSE

\* event.CreatedAt.Before(now - ttl)
Expired(n, c) == c.createdAt + TTL < now[n]

\* The message can reach the recipient's chat.
Deliverable(n, c) ==
    ~Expired(n, c) /\ c.id \in Reachable /\ delivered[c.id] < MaxCopies

\* mutant of Accepted: the client reports success without sending
AcceptedUnsent(c) == UNCHANGED delivered

\* Telegram accepts the message: one more copy in the chat.
Accepted(c) == delivered' = [delivered EXCEPT ![c.id] = @ + 1]

\* Take the next copy and give it a status: canceled past the deadline,
\* otherwise what the transport answers.  The Telegram client ignores the
\* context, so a signal does not stop a send; an answer may be lost after
\* Telegram accepted the message.
Attempt(n) ==
    /\ pc[n] = "attempt"
    /\ \E c \in Oldest(todo[n]) :
        LET Becomes(status) == cur' = [cur EXCEPT ![n] = [c EXCEPT !.status = status]]
        IN  /\ todo' = [todo EXCEPT ![n] = @ \ {c}]
            /\ \/ /\ Expired(n, c)
                  /\ Becomes("canceled")
                  /\ UNCHANGED <<delivered, lost, faults>>
               \/ /\ Deliverable(n, c)                           \* accepted
                  /\ Becomes("sent")
                  /\ Accepted(c)
                  /\ UNCHANGED <<lost, faults>>
               \/ /\ ~Expired(n, c)                              \* refused
                  /\ Becomes("failed")
                  /\ UNCHANGED <<delivered, lost, faults>>
               \/ /\ Deliverable(n, c)                           \* answer lost
                  /\ Becomes("failed")
                  /\ Accepted(c)
                  /\ lost' = [lost EXCEPT ![c.id] = @ + 1]
                  /\ Fault
    /\ Goto(n, "retain")
    /\ UNCHANGED <<clock, db, sig, now>>

\* What becomes of the run's delivery when its record is not written.
Forget(n) ==
    lost' = IF pc[n] = "retain" /\ cur[n].status = "sent"
            THEN [lost EXCEPT ![cur[n].id] = @ + 1] ELSE lost

\* Write the whole row back: UPDATE when the id is there, INSERT when it is
\* not.  A busy database fails the transaction, a cancelled context always
\* does; the agent only remembers the error.
Retain(n) ==
    /\ pc[n] = "retain"
    /\ \/ /\ ~sig[n]
          /\ events' = [events EXCEPT ![cur[n].id] =
                          [status |-> cur[n].status, createdAt |-> cur[n].createdAt]]
          /\ UNCHANGED <<lost, faults>>
       \/ /\ IF sig[n] THEN UNCHANGED faults ELSE Fault
          /\ Forget(n)
          /\ UNCHANGED events
    /\ cur' = [cur EXCEPT ![n] = NoCopy]
    /\ Goto(n, "pause")
    /\ UNCHANGED <<clock, queued, sig, now, todo, delivered>>

\* The rate-limit pause: a cancelled context returns from Run here.
Pause(n) ==
    /\ pc[n] = "pause"
    /\ IF sig[n] \/ todo[n] = {}
       THEN EndRun(n)
       ELSE Goto(n, "attempt") /\ UNCHANGED <<sig, now, todo, cur>>
    /\ UNCHANGED <<clock, db, chat, faults>>
-----------------------------------------------------------------------------
(* The environment.                                                        *)

\* Before the agents are built nothing catches the signal: that is Crash.
Sigterm(n) ==
    /\ pc[n] \notin {"idle", "connect"} /\ ~sig[n]
    /\ Fault
    /\ sig' = [sig EXCEPT ![n] = TRUE]
    /\ UNCHANGED <<clock, db, pc, now, todo, cur, chat>>

\* The process dies with everything it had not committed.
Crash(n) ==
    /\ pc[n] # "idle"
    /\ Fault
    /\ Forget(n)
    /\ EndRun(n)
    /\ UNCHANGED <<clock, db, delivered>>

Tick ==
    /\ clock < MaxClock
    /\ clock' = clock + 1
    /\ UNCHANGED <<db, runVars, chat, faults>>

RunStep(n) ==
    \/ Connect(n) \/ Vacuum(n) \/ CheckDone(n) \/ ReadUnprocessed(n)
    \/ Attempt(n) \/ Retain(n) \/ Pause(n)

Next ==
    \/ \E n \in Notifier :
        \/ Start(n) \/ RunStep(n) \/ Sigterm(n) \/ Crash(n)
        \/ \E e \in Event : QueueEvent(n, e)
    \/ Tick

\* The steps for which a run waits for nothing but the database: an attempt is one
\* when it is past the deadline, so that nothing is sent.
OwnStep(n) ==
    \/ Vacuum(n) \/ CheckDone(n) \/ ReadUnprocessed(n)
    \/ Attempt(n) /\ cur'[n].status = "canceled"
    \/ Retain(n) \/ Pause(n)

\* A run goes on unless it waits for Telegram, and time passes.  Nothing is asked
\* of Telegram, nor of cron.
Fairness == WF_vars(Tick) /\ \A n \in Notifier : WF_vars(OwnStep(n))

Spec == Init /\ [][Next]_vars
FairSpec == Spec /\ Fairness
-----------------------------------------------------------------------------
(* Properties.                                                             *)

\* "sent indicates the notification was delivered successfully": a row says
\* sent only when its message reached the chat, whichever of several
\* overlapping runs wrote it and from however old a snapshot.
SentMeansDelivered ==
    \A e \in Event : events[e].status = "sent" => delivered[e] >= 1

\* A message is abandoned only once it has outlived its TTL.
CanceledOnlyAfterTTL ==
    \A e \in Event :
        events[e].status = "canceled" => events[e].createdAt + TTL < clock

\* Runs that do not overlap repeat a message only when the record of an
\* earlier delivery was lost (killed process, SIGTERM between send and
\* write, failed transaction, lost answer), and a message called canceled
\* reached nobody unless the same happened.
DuplicateOnlyByLoss ==
    \A e \in Event :
        /\ delivered[e] <= lost[e] + 1
        /\ events[e].status = "canceled" => delivered[e] <= lost[e]

\* When runs do not overlap, writing an event back always finds its row: an
\* event the vacuum removed never comes back through the INSERT branch.
VacuumedStaysGone ==
    [][\A e \in Event :
          (e \in queued /\ events[e].status = "absent")
              => events'[e].status = "absent"]_vars

\* Again and again some run or other is let in by Telegram.
RunsGetThrough == []<>(\E n \in Notifier : pc[n] = "vacuum")

\* As long as that is so, every queued event is in the end out of the pending and
\* failed states for good, with any number of overlapping runs, even if some of
\* them wait for ever for the answer to a send: old snapshots die out, and past
\* the TTL every run writes only canceled.
EventuallySettled == RunsGetThrough => <>[](Unprocessed = {})
-----------------------------------------------------------------------------
(* What the pool promises, with the runs hidden.                           *)

FateOf(e) ==
    CASE events[e].status = "absent" -> IF e \in queued THEN "purged" ELSE "none"
      [] events[e].status \in {"pending", "failed"} -> "waiting"
      [] OTHER -> events[e].status

Promise == INSTANCE DeliveryPromise WITH
    fate <- [e \in Event |-> FateOf(e)],
    copies <- delivered

\* Runs that do not overlap keep the promise of the pool: its safety part always,
\* and no message waits for ever as long as Telegram keeps letting runs in.
KeepsPromise == Promise!Spec /\ (RunsGetThrough => Promise!Settles)
=============================================================================
