------------------------------ MODULE Schedule ------------------------------
(***************************************************************************)
(* When a time-based subscription is due: IsIntervalDue, IsDailyDue and    *)
(* IsCronDue against a notifier that cron starts every Period ticks.       *)
(*                                                                         *)
(* The subtlety is in two instants.  A run compares the row's updated_at   *)
(* with the instant it took at its start, but RetainRateUserSubscription   *)
(* stamps updated_at with the later instant of the write, and web requests *)
(* stamp it too.  The module follows one subscription; what races do to    *)
(* its other columns is the subject of module RateCheck.                   *)
(***************************************************************************)
EXTENDS Integers, FiniteSetsExt

CONSTANTS
    Day,            \* ticks in a day, and in the cycle of a cron expression
    Period,         \* ticks between the notifier's starts
    MaxLag,         \* bound: ticks from a run's start to its write
    Condition,      \* conditions the owner may ask for
    MaxClock,       \* bound: the last tick
    MaxEdits,       \* bound: create and update requests
    MaxFaults       \* bound: starts that cron misses, writes that fail

\* Validate lets through any time of day, intervals of at least one unit, and
\* any five well-formed cron fields, whether or not a date matches them all.
ValidCondition ==
    [type : {"daily"}, value : 0 .. Day - 1, when : {{}}]
    \cup [type : {"interval"}, value : 1 .. MaxClock, when : {{}}]
    \cup [type : {"cron"}, value : {0}, when : SUBSET (0 .. Day - 1)]

ASSUME ScheduleAssumption ==
    /\ Day \in Nat \ {0} /\ Period \in Nat \ {0}
    /\ MaxLag \in Nat /\ MaxLag < Period
    /\ Condition \subseteq ValidCondition
    /\ MaxClock \in Nat /\ MaxEdits \in Nat /\ MaxFaults \in Nat

VARIABLES
    clock,          \* wall clock, in ticks since midnight of some day
    live,           \* the subscription exists
    cond,           \* its condition
    updatedAt,      \* its updated_at
    started,        \* tick of the last start of the notifier
    now,            \* the instant the run in progress took, -1 without a run
    hand,           \* the condition in the copy the run is about to write back
    since,          \* history: what the row last answers for: an edit, or the
                    \*   start of the run whose write succeeded
    told,           \* history: the last edit, or the start of the run that last
                    \*   notified, written back or not
    unwritten,      \* history: the write of the run that last notified failed
    excused,        \* history: the last day a start was missed or a write lost
    edits, faults   \* counters behind MaxEdits and MaxFaults

vars == <<clock, live, cond, updatedAt, started, now, hand, since, told,
          unwritten, excused, edits, faults>>
row == <<live, cond, updatedAt>>
run == <<started, now, hand>>
answers == <<since, told, unwritten>>

NoCondition == [type |-> "none", value |-> 0, when |-> {}]

Date(t) == t \div Day
Midnight(t) == t - (t % Day)

TypeOK ==
    /\ clock \in Nat
    /\ live \in BOOLEAN
    /\ cond \in Condition \cup {NoCondition}
    /\ updatedAt \in Nat
    /\ started \in Nat \cup {-1}
    /\ now \in Nat \cup {-1}
    /\ hand \in Condition \cup {NoCondition}
    /\ since \in Nat /\ told \in Nat /\ unwritten \in BOOLEAN
    /\ excused \in Nat \cup {-1}
    /\ edits \in Nat /\ faults \in Nat
-----------------------------------------------------------------------------
(* domain.RateUserSubscription                                             *)

IsIntervalDue(c, t, stamp) == t - stamp >= c.value

\* mutants of IsDailyDue: due on every run after the time of day; the time
\* itself is too early
IsDailyPassed(c, t, stamp) == t >= Midnight(t) + c.value
IsDailyOver(c, t, stamp) == t > Midnight(t) + c.value /\ stamp < Midnight(t) + c.value

\* Past today's time, and not stamped since.
IsDailyDue(c, t, stamp) ==
    LET todayFire == Midnight(t) + c.value
    IN  t >= todayFire /\ stamp < todayFire

\* The zero time.Time, before every instant.
ZeroTime == -1

\* cron.Schedule.Next: the first matching instant after t; the zero time when
\* none exists within five years.
NextFire(when, t) ==
    LET matches == {u \in t + 1 .. t + Day : u % Day \in when}
    IN  IF matches = {} THEN ZeroTime ELSE Min(matches)

\* mutant of IsCronDue: After instead of !Before
IsCronOver(c, t, stamp) == NextFire(c.when, stamp) < t

IsCronDue(c, t, stamp) == NextFire(c.when, stamp) <= t

IsDue(c, t, stamp) ==
    CASE c.type = "interval" -> IsIntervalDue(c, t, stamp)
      [] c.type = "daily" -> IsDailyDue(c, t, stamp)
      [] c.type = "cron" -> IsCronDue(c, t, stamp)
-----------------------------------------------------------------------------
Init ==
    /\ clock = 0
    /\ live = FALSE /\ cond = NoCondition /\ updatedAt = 0
    /\ started = -1 /\ now = -1 /\ hand = NoCondition
    /\ since = 0 /\ told = 0 /\ unwritten = FALSE /\ excused = -1
    /\ edits = 0 /\ faults = 0

\* RetainRateUserSubscription stamps every write with the current time.
Stamp(c) == live' = TRUE /\ cond' = c /\ updatedAt' = clock

\* CreateMeSubscription and UpdateMeSubscription.
Edit(c) ==
    /\ edits < MaxEdits /\ edits' = edits + 1
    /\ Stamp(c)
    /\ since' = clock /\ told' = clock /\ unwritten' = FALSE
    /\ UNCHANGED <<clock, run, excused, faults>>

CronStarts == clock % Period = 0 /\ started # clock

\* A run starts, takes its instant and decides; a subscription that is not
\* due is passed over.
Check ==
    /\ CronStarts /\ now = -1
    /\ started' = clock
    /\ IF live /\ IsDue(cond, clock, updatedAt)
       THEN now' = clock /\ hand' = cond
       ELSE UNCHANGED <<now, hand>>
    /\ UNCHANGED <<clock, row, answers, excused, edits, faults>>

\* The write-back, from the run's own copy.  The run notifies whether or not
\* the write succeeds.
Retain ==
    /\ now # -1
    /\ \/ /\ Stamp(hand)
          /\ since' = now /\ unwritten' = FALSE
          /\ UNCHANGED <<excused, faults>>
       \/ /\ faults < MaxFaults /\ faults' = faults + 1
          /\ excused' = Date(clock)
          /\ unwritten' = TRUE
          /\ UNCHANGED <<row, since>>
    /\ told' = now
    /\ now' = -1 /\ hand' = NoCondition
    /\ UNCHANGED <<clock, started, edits>>

\* Cron does not start a run it should have: the host was down.
Miss ==
    /\ CronStarts
    /\ faults < MaxFaults /\ faults' = faults + 1
    /\ started' = clock
    /\ excused' = Date(clock)
    /\ UNCHANGED <<clock, row, now, hand, answers, edits>>

\* Time passes; runs start on time and end within MaxLag.
Tick ==
    /\ clock < MaxClock
    /\ ~CronStarts
    /\ now # -1 => clock < now + MaxLag
    /\ clock' = clock + 1
    /\ UNCHANGED <<row, run, answers, excused, edits, faults>>

Next == Check \/ Retain \/ Miss \/ Tick \/ \E c \in Condition : Edit(c)

Spec == Init /\ [][Next]_vars
-----------------------------------------------------------------------------
(* Properties.                                                             *)

\* The instants at which a condition asks for a notification, after what the
\* row last answered for and no later than t.
Occurrences(c, after, t) ==
    CASE c.type = "interval" -> {u \in after + c.value .. t : u = after + c.value}
      [] c.type = "daily" -> {u \in after + 1 .. t : u % Day = c.value}
      [] c.type = "cron" -> {u \in after + 1 .. t : u % Day \in c.when}

\* "IsCronDue reports whether the cron schedule has fired at least once since
\* the last notification", and likewise for the others: no run notifies
\* without an occurrence since the last notified run or the last edit, unless
\* the write of that run failed.  The run notified all the same, and its
\* occurrence is notified again; even then there is an occurrence since what
\* the row answers for.
OncePerOccurrence ==
    [][now = -1 /\ now' # -1 =>
          /\ Occurrences(cond, since, now') # {}
          /\ unwritten \/ Occurrences(cond, told, now') # {}]_vars

\* A run that finds an occurrence notifies, except for the cases the code
\* gives up: an occurrence between the start of the last notified run and its
\* write, and a daily time of an earlier date.
NoneOverlooked ==
    [][(/\ started' # started /\ live /\ faults' = faults
        /\ \E u \in Occurrences(cond, since + MaxLag, clock) :
              cond.type = "daily" => Date(u) = Date(clock))
          => now' # -1]_vars

\* "ConditionTypeDaily triggers once per day at a configured time-of-day": a
\* day does not end with its notification still to come, faults aside, unless
\* the run that answered for the day before made its write after the time.
DailyEveryDay ==
    [][(/\ Date(clock') > Date(clock)
        /\ live /\ cond.type = "daily" /\ now = -1
        /\ excused # Date(clock))
          => LET todayFire == Midnight(clock) + cond.value
             IN  \/ since >= todayFire
                 \/ since < Midnight(clock) /\ since + MaxLag >= todayFire]_vars
=============================================================================
