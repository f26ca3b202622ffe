-------------------------- MODULE DeliveryPromise --------------------------
(***************************************************************************)
(* What the notification pool promises about each queued message, with no  *)
(* mention of runs, clocks, snapshots or transactions: a message waits     *)
(* until it is recorded as sent or abandoned, it is delivered again only   *)
(* when the record of an earlier delivery was lost.  Where the transport   *)
(* allows it, it does not wait for ever either (Settles).  Module Dispatch *)
(* implements this promise.                                                *)
(***************************************************************************)
EXTENDS Naturals

CONSTANT Event      \* messages ever queued, by rate_user_events.id

VARIABLES
    fate,           \* what the pool says of the message
    copies,         \* copies of it in the recipient's chat
    lost            \* deliveries whose record was lost

promiseVars == <<fate, copies, lost>>

Fate == {"none", "waiting", "sent", "canceled", "purged"}

\* A delivered copy that is neither recorded nor written off yet.
Unrecorded(e) == copies[e] = lost[e] + 1

Init ==
    /\ fate = [e \in Event |-> "none"]
    /\ copies = [e \in Event |-> 0]
    /\ lost = [e \in Event |-> 0]

Queue(e) ==
    /\ fate[e] = "none"
    /\ fate' = [fate EXCEPT ![e] = "waiting"]
    /\ UNCHANGED <<copies, lost>>

Deliver(e) ==
    /\ fate[e] = "waiting" /\ ~Unrecorded(e)
    /\ copies' = [copies EXCEPT ![e] = @ + 1]
    /\ UNCHANGED <<fate, lost>>

\* The recipient got the message and the sender was told it failed.
DeliverUnanswered(e) ==
    /\ fate[e] = "waiting" /\ ~Unrecorded(e)
    /\ copies' = [copies EXCEPT ![e] = @ + 1]
    /\ lost' = [lost EXCEPT ![e] = @ + 1]
    /\ UNCHANGED fate

Record(e) ==
    /\ fate[e] = "waiting" /\ Unrecorded(e)
    /\ fate' = [fate EXCEPT ![e] = "sent"]
    /\ UNCHANGED <<copies, lost>>

LoseRecord(e) ==
    /\ fate[e] = "waiting" /\ Unrecorded(e)
    /\ lost' = [lost EXCEPT ![e] = @ + 1]
    /\ UNCHANGED <<fate, copies>>

Cancel(e) ==
    /\ fate[e] = "waiting" /\ ~Unrecorded(e)
    /\ fate' = [fate EXCEPT ![e] = "canceled"]
    /\ UNCHANGED <<copies, lost>>

\* Old messages leave the pool, several at once.
Purge ==
    /\ \E old \in SUBSET {e \in Event : fate[e] \in {"waiting", "sent", "canceled"}} :
          fate' = [e \in Event |-> IF e \in old THEN "purged" ELSE fate[e]]
    /\ UNCHANGED <<copies, lost>>

Next ==
    \/ \E e \in Event : \/ Queue(e) \/ Deliver(e) \/ DeliverUnanswered(e)
                        \/ Record(e) \/ LoseRecord(e) \/ Cancel(e)
    \/ Purge

Spec == Init /\ [][Next]_promiseVars

\* No message waits for ever.
Settles == \A e \in Event : (fate[e] = "waiting") ~> (fate[e] # "waiting")
=============================================================================
