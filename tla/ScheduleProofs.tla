--------------------------- MODULE ScheduleProofs ---------------------------
(***************************************************************************)
(* Theorems about Schedule for any length of the day, any period of the    *)
(* notifier's starts, any lag of its writes and any conditions: which      *)
(* occurrences a run notifies, and which the code gives up.                *)
(***************************************************************************)
EXTENDS Schedule, FiniteSetTheorems, TLAPS

\* The row's stamp and what the row answers for are at most a run apart.
Stamped ==
  /\ clock \in Nat /\ since \in Nat /\ updatedAt \in Nat
  /\ since <= updatedAt /\ updatedAt <= clock /\ updatedAt <= since + MaxLag
  /\ live \in BOOLEAN /\ cond \in Condition \cup {NoCondition}
  /\ live => cond \in Condition

\* A run in progress took its instant at the last start, and it was due.
Running ==
  /\ started \in Nat \cup {-1} /\ started <= clock
  /\ now \in Nat \cup {-1}
  /\ hand \in Condition \cup {NoCondition}
  /\ now # -1 => /\ started = now /\ now % Period = 0
                 /\ now <= clock /\ clock <= now + MaxLag
                 /\ hand \in Condition
                 /\ hand.type = "daily" => now >= Midnight(now) + hand.value

\* The row answers for the last notified run, unless that run's write failed.
Written ==
  /\ told \in Nat /\ unwritten \in BOOLEAN
  /\ unwritten \/ told = since

Counted ==
  /\ excused \in Nat \cup {-1} /\ edits \in Nat /\ faults \in Nat

\* No start is passed over without being counted as made or missed.
StartsSeen == \A s \in 0 .. clock - 1 : s % Period = 0 => s <= started

\* What the row answers for is an edit, or a run after that day's time.
FromEditOrRun ==
  live /\ cond.type = "daily" =>
    since = updatedAt \/ since >= Midnight(since) + cond.value

Answered ==
  LET todayFire == Midnight(clock) + cond.value
  IN  \/ since >= todayFire
      \/ since < Midnight(clock) /\ since + MaxLag >= todayFire

\* After the first start past today's time, today is answered for.
ToldToday ==
  (/\ live /\ cond.type = "daily" /\ now = -1 /\ excused # Date(clock)
   /\ started >= Midnight(clock) + cond.value) => Answered

IInv == /\ Stamped /\ Running /\ Written /\ Counted
        /\ StartsSeen /\ FromEditOrRun /\ ToldToday
-----------------------------------------------------------------------------
(* Days and starts                                                         *)

LEMMA Remainder ==
  ASSUME NEW n \in Nat \ {0}, NEW t \in Int
  PROVE  t % n \in 0 .. n - 1 /\ t \div n \in Int /\ t = (n * (t \div n)) + (t % n)
  OBVIOUS

LEMMA RemainderOf ==
  ASSUME NEW n \in Nat \ {0}, NEW q \in Int, NEW v \in 0 .. n - 1
  PROVE  ((n * q) + v) % n = v /\ ((n * q) + v) \div n = q
  OBVIOUS

LEMMA LeastNat ==
  ASSUME NEW S \in SUBSET Nat, S # {}
  PROVE  \E x \in S : \A y \in S : x <= y
<1>1. \E x \in S : \A y \in S : ~(<<y, x>> \in OpToRel(<, Nat))
  BY NatLessThanWellFounded, WFMin
<1>2. PICK x \in S : \A y \in S : ~(<<y, x>> \in OpToRel(<, Nat))
  BY <1>1
<1>3. ASSUME NEW y \in S, y < x PROVE FALSE
  <2>1. <<y, x>> \in Nat \X Nat /\ <<y, x>>[1] < <<y, x>>[2]
    BY <1>3
  <2>2. <<y, x>> \in OpToRel(<, Nat)
    BY <2>1 DEF OpToRel
  <2>3. QED BY <1>2, <2>2
<1>4. \A y \in S : y \in Nat /\ x \in Nat
  OBVIOUS
<1>5. \A y \in S : x <= y
  BY <1>3, <1>4
<1>6. QED BY <1>5

\* An instant belongs to the day that begins at its midnight.
LEMMA DayOf ==
  ASSUME NEW t \in Nat
  PROVE  /\ Midnight(t) \in Nat /\ Midnight(t) <= t /\ t < Midnight(t) + Day
         /\ Midnight(t) = Day * Date(t) /\ Date(t) \in Nat
<1>1. Day \in Nat \ {0}
  BY ScheduleAssumption
<1>2. t % Day \in 0 .. Day - 1 /\ t \div Day \in Int /\ t = (Day * (t \div Day)) + (t % Day)
  BY <1>1, Remainder
<1>3. t \div Day \in Nat
  BY <1>1, <1>2
<1>4. QED BY <1>1, <1>2, <1>3 DEF Midnight, Date

\* The day an instant belongs to is the only one it lies in.
LEMMA SameDay ==
  ASSUME NEW s \in Nat, NEW t \in Nat, Midnight(s) <= t, t < Midnight(s) + Day
  PROVE  Midnight(t) = Midnight(s) /\ Date(t) = Date(s)
<1> DEFINE v == t - Midnight(s)
<1>1. Day \in Nat \ {0} /\ v \in 0 .. Day - 1 /\ Date(s) \in Int
      /\ t = (Day * Date(s)) + v
  <2>1. /\ Midnight(s) \in Nat /\ Midnight(s) = Day * Date(s) /\ Date(s) \in Nat
        /\ Day \in Nat \ {0}
    BY ScheduleAssumption, DayOf
  <2>2. v \in 0 .. Day - 1 /\ t = Midnight(s) + v
    BY <2>1
  <2> HIDE DEF v
  <2>3. QED BY <2>1, <2>2
<1>2. t \div Day = Date(s)
  BY <1>1, RemainderOf
<1>3. QED BY <1>2, DayOf DEF Date

LEMMA TimeOfDay ==
  ASSUME NEW t \in Nat, NEW v \in 0 .. Day - 1
  PROVE  (Midnight(t) + v) % Day = v /\ (Midnight(t) + Day + v) % Day = v
<1> DEFINE q == Date(t)
<1>1. Day \in Nat \ {0} /\ q \in Int /\ q + 1 \in Int /\ Midnight(t) = Day * q
  BY ScheduleAssumption, DayOf
<1>2. ((Day * q) + v) % Day = v /\ ((Day * (q + 1)) + v) % Day = v
  BY <1>1, RemainderOf
<1>3. Day * (q + 1) = Day * q + Day
  BY <1>1
<1>4. QED BY <1>1, <1>2, <1>3

\* Two starts are a period apart.
LEMMA StartsApart ==
  ASSUME NEW s \in Nat, NEW t \in Nat, s % Period = 0, t % Period = 0,
         s <= t, t < s + Period
  PROVE  s = t
<1>1. Period \in Nat \ {0}
  BY ScheduleAssumption
<1>2. s = (Period * (s \div Period)) + 0 /\ s \div Period \in Int
  BY <1>1, Remainder
<1>3. t - s \in 0 .. Period - 1 /\ t = (Period * (s \div Period)) + (t - s)
  BY <1>1, <1>2
<1>4. t % Period = t - s
  BY <1>1, <1>2, <1>3, RemainderOf
<1>5. QED BY <1>4

\* There is a start in the period that ends with an instant.
LEMMA StartBefore ==
  ASSUME NEW t \in Nat
  PROVE  \E s \in 0 .. t : s % Period = 0 /\ t < s + Period
<1>1. Period \in Nat \ {0}
  BY ScheduleAssumption
<1>2. t % Period \in 0 .. Period - 1 /\ t \div Period \in Int
      /\ t = (Period * (t \div Period)) + (t % Period)
  BY <1>1, Remainder
<1> DEFINE s == Period * (t \div Period)
<1>3. s = (Period * (t \div Period)) + 0 /\ 0 \in 0 .. Period - 1
  BY <1>1, <1>2
<1>4. s % Period = 0
  BY <1>1, <1>2, <1>3, RemainderOf
<1>5. t \div Period \in Nat
  BY <1>1, <1>2
<1>6. s \in Nat /\ s <= t /\ t < s + Period
  BY <1>1, <1>2, <1>5
<1>7. QED BY <1>4, <1>6

LEMMA ConditionIs ==
  ASSUME NEW c \in Condition
  PROVE  /\ c.type \in {"daily", "interval", "cron"}
         /\ c.type = "daily" => c.value \in 0 .. Day - 1
         /\ c.type = "interval" => c.value \in Nat /\ c.value >= 1
         /\ c.type = "cron" => c.when \in SUBSET (0 .. Day - 1)
  BY ScheduleAssumption DEF ValidCondition

\* cron's Next finds the first instant, when the expression has one at all.
LEMMA NextFireIs ==
  ASSUME NEW when \in SUBSET (0 .. Day - 1), when # {}, NEW t \in Nat
  PROVE  /\ NextFire(when, t) \in t + 1 .. t + Day /\ NextFire(when, t) % Day \in when
         /\ \A u \in t + 1 .. t + Day : u % Day \in when => NextFire(when, t) <= u
<1> DEFINE matches == {u \in t + 1 .. t + Day : u % Day \in when}
<1>1. matches # {}
  <2>1. PICK v \in when : TRUE
    OBVIOUS
  <2>2. /\ Midnight(t) \in Nat /\ Midnight(t) <= t /\ t < Midnight(t) + Day
        /\ v \in 0 .. Day - 1 /\ Day \in Nat
    BY <2>1, DayOf, ScheduleAssumption
  <2>3. (Midnight(t) + v) % Day = v /\ (Midnight(t) + Day + v) % Day = v
    BY <2>2, TimeOfDay
  <2>4. CASE Midnight(t) + v > t
    <3>1. Midnight(t) + v \in t + 1 .. t + Day
      BY <2>2, <2>4
    <3>2. QED BY <2>1, <2>3, <3>1
  <2>5. CASE ~(Midnight(t) + v > t)
    <3>1. Midnight(t) + Day + v \in t + 1 .. t + Day
      BY <2>2, <2>5
    <3>2. QED BY <2>1, <2>3, <3>1
  <2>6. QED BY <2>4, <2>5
<1>2. matches \in SUBSET Nat
  OBVIOUS
<1>3. Min(matches) \in matches /\ \A u \in matches : Min(matches) <= u
  <2> HIDE DEF matches
  <2>1. \E x \in matches : \A y \in matches : x <= y
    BY <1>1, <1>2, LeastNat
  <2>2. QED BY <2>1 DEF Min
<1>4. NextFire(when, t) = Min(matches)
  BY <1>1 DEF NextFire
<1> HIDE DEF NextFire
<1>5. QED BY <1>3, <1>4

\* Next never passes over a match.
LEMMA NextFireBy ==
  ASSUME NEW when \in SUBSET (0 .. Day - 1), NEW t \in Nat, NEW u \in Nat,
         u > t, u % Day \in when
  PROVE  NextFire(when, t) <= u
<1>1. when # {}
  OBVIOUS
<1>2. /\ NextFire(when, t) \in t + 1 .. t + Day
      /\ \A w \in t + 1 .. t + Day : w % Day \in when => NextFire(when, t) <= w
  BY <1>1, NextFireIs
<1>3. Day \in Nat
  BY ScheduleAssumption
<1>4. CASE u <= t + Day
  <2>1. u \in t + 1 .. t + Day
    BY <1>3, <1>4
  <2>2. QED BY <1>2, <2>1
<1>5. CASE u > t + Day
  BY <1>2, <1>3, <1>5
<1>6. QED BY <1>3, <1>4, <1>5
-----------------------------------------------------------------------------
(* The invariant, action by action                                         *)

LEMMA InvInit == Init => IInv
<1> SUFFICES ASSUME Init PROVE IInv
  OBVIOUS
<1>0. /\ clock = 0 /\ since = 0 /\ updatedAt = 0 /\ live = FALSE /\ cond = NoCondition
      /\ started = -1 /\ now = -1 /\ hand = NoCondition /\ excused = -1
      /\ told = 0 /\ unwritten = FALSE /\ edits = 0 /\ faults = 0 /\ MaxLag \in Nat
  BY ScheduleAssumption DEF Init
<1>1. Stamped /\ Running /\ Written /\ Counted /\ FromEditOrRun /\ ToldToday
  <2>1. Stamped
    <3>1. live \in BOOLEAN /\ ~live /\ cond \in Condition \cup {NoCondition}
      BY <1>0
    <3>2. /\ clock \in Nat /\ since \in Nat /\ updatedAt \in Nat
          /\ since <= updatedAt /\ updatedAt <= clock /\ updatedAt <= since + MaxLag
      BY <1>0
    <3>3. QED BY <3>1, <3>2 DEF Stamped
  <2>2. Running
    BY <1>0 DEF Running
  <2>3. Written /\ Counted
    BY <1>0 DEF Written, Counted
  <2>4. FromEditOrRun /\ ToldToday
    BY <1>0 DEF FromEditOrRun, ToldToday
  <2>5. QED BY <2>1, <2>2, <2>3, <2>4
<1>2. StartsSeen
  BY DEF Init, StartsSeen
<1>3. QED BY <1>1, <1>2 DEF IInv

LEMMA EditInv ==
  ASSUME IInv, NEW c \in Condition, Edit(c)
  PROVE  IInv'
<1>1. /\ clock \in Nat /\ clock' = clock /\ updatedAt' = clock /\ since' = clock
      /\ live' = TRUE /\ cond' = c /\ told' = clock /\ unwritten' = FALSE
      /\ UNCHANGED <<started, now, hand, excused, faults>> /\ edits' = edits + 1
  BY DEF Edit, Stamp, run, IInv, Stamped
<1>2. Stamped'
  BY <1>1, ScheduleAssumption DEF Stamped
<1>3. Running' /\ Counted' /\ StartsSeen' /\ Written'
  <2>1. Running' /\ Counted' /\ StartsSeen'
    BY <1>1 DEF IInv, Running, Counted, StartsSeen, Midnight
  <2>2. Written'
    BY <1>1 DEF Written
  <2>3. QED BY <2>1, <2>2
<1>4. FromEditOrRun'
  BY <1>1 DEF FromEditOrRun
<1>5. ToldToday'
  <2>1. SUFFICES ASSUME cond'.type = "daily", started' >= (Midnight(clock) + cond.value)'
                 PROVE  Answered'
    BY DEF ToldToday
  <2>2. Midnight(clock)' = Midnight(clock) /\ Midnight(clock) \in Nat
    BY <1>1, DayOf DEF Midnight
  <2>3. c.value \in Nat /\ started \in Int /\ started <= clock
    BY <1>1, <2>1, ConditionIs, ScheduleAssumption DEF IInv, Running
  <2>4. since' >= Midnight(clock)' + cond'.value
    BY <1>1, <2>1, <2>2, <2>3
  <2>5. QED BY <2>4 DEF Answered
<1>6. QED BY <1>2, <1>3, <1>4, <1>5 DEF IInv

\* A daily subscription that a start passes over is answered for.
LEMMA PassedOverIsTold ==
  ASSUME IInv, live, cond.type = "daily", ~IsDailyDue(cond, clock, updatedAt),
         clock >= Midnight(clock) + cond.value
  PROVE  Answered
<1> DEFINE fire == Midnight(clock) + cond.value
<1>1. /\ clock \in Nat /\ since \in Nat /\ updatedAt \in Nat /\ MaxLag \in Nat
      /\ since <= updatedAt /\ updatedAt <= clock /\ updatedAt <= since + MaxLag
      /\ cond \in Condition
  BY ScheduleAssumption DEF IInv, Stamped
<1>2. cond.value \in Nat /\ Midnight(clock) \in Nat /\ clock < Midnight(clock) + Day
  <2>1. cond.value \in 0 .. Day - 1
    BY <1>1, ConditionIs
  <2>2. QED BY <1>1, <2>1, DayOf
<1>3. updatedAt >= fire
  BY <1>1, <1>2 DEF IsDailyDue
<1>4. since = updatedAt \/ since >= Midnight(since) + cond.value
  BY DEF IInv, FromEditOrRun
<1>5. CASE since < Midnight(clock)
  BY <1>1, <1>2, <1>3, <1>5 DEF Answered
<1>6. CASE since >= Midnight(clock)
  <2>1. Midnight(clock) <= since /\ since < Midnight(clock) + Day
    BY <1>1, <1>2, <1>6, ScheduleAssumption
  <2>2. Midnight(since) = Midnight(clock)
    BY <1>1, <2>1, SameDay
  <2>3. QED BY <1>3, <1>4, <2>2 DEF Answered
<1>7. QED BY <1>1, <1>2, <1>5, <1>6

LEMMA CheckInv ==
  ASSUME IInv, Check
  PROVE  IInv'
<1>1. /\ clock' = clock /\ now = -1 /\ clock % Period = 0 /\ started' = clock
      /\ UNCHANGED <<live, cond, updatedAt, since, told, unwritten, excused, edits, faults>>
      /\ clock \in Nat
  BY DEF Check, CronStarts, row, answers, IInv, Stamped
<1>2. Stamped' /\ Written' /\ Counted' /\ FromEditOrRun'
  BY <1>1 DEF IInv, Stamped, Written, Counted, FromEditOrRun, Midnight
<1>3. StartsSeen'
  BY <1>1 DEF StartsSeen
<1>4. CASE live /\ IsDue(cond, clock, updatedAt)
  <2>1. now' = clock /\ hand' = cond /\ cond \in Condition
    BY <1>4 DEF Check, IInv, Stamped
  <2>2. hand'.type = "daily" => now' >= Midnight(now') + hand'.value
    BY <1>4, <2>1 DEF IsDue, IsDailyDue
  <2>3. Running'
    BY <1>1, <2>1, <2>2, ScheduleAssumption DEF Running, Midnight
  <2>4. ToldToday'
    BY <1>1, <2>1 DEF ToldToday
  <2>5. QED BY <1>2, <1>3, <2>3, <2>4 DEF IInv
<1>5. CASE ~(live /\ IsDue(cond, clock, updatedAt))
  <2>1. UNCHANGED <<now, hand>>
    BY <1>5 DEF Check
  <2>2. Running'
    BY <1>1, <2>1 DEF IInv, Running
  <2>3. ToldToday'
    <3>1. SUFFICES ASSUME live, cond.type = "daily", clock >= Midnight(clock) + cond.value
                   PROVE  Answered
      BY <1>1, <2>1 DEF ToldToday, Answered, Midnight
    <3>2. ~IsDailyDue(cond, clock, updatedAt)
      BY <1>5, <3>1 DEF IsDue
    <3>3. QED BY <3>1, <3>2, PassedOverIsTold
  <2>4. QED BY <1>2, <1>3, <2>2, <2>3 DEF IInv
<1>6. QED BY <1>4, <1>5

LEMMA RetainInv ==
  ASSUME IInv, Retain
  PROVE  IInv'
<1>1. /\ now # -1 /\ now' = -1 /\ hand' = NoCondition
      /\ told' = now /\ UNCHANGED <<clock, started, edits>>
      /\ clock \in Nat /\ now \in Nat /\ started = now
      /\ now <= clock /\ clock <= now + MaxLag /\ hand \in Condition
      /\ hand.type = "daily" => now >= Midnight(now) + hand.value
  BY DEF Retain, IInv, Stamped, Running
<1>2. Running' /\ StartsSeen'
  BY <1>1 DEF IInv, Running, StartsSeen
<1>3. CASE /\ Stamp(hand) /\ since' = now /\ unwritten' = FALSE
           /\ UNCHANGED <<excused, faults>>
  <2>1. live' = TRUE /\ cond' = hand /\ updatedAt' = clock /\ since' = now
    BY <1>3 DEF Stamp
  <2>2. Stamped'
    BY <1>1, <2>1 DEF Stamped
  <2>3. Written' /\ Counted'
    BY <1>1, <1>3 DEF IInv, Written, Counted
  <2>4. FromEditOrRun'
    BY <1>1, <2>1 DEF FromEditOrRun, Midnight
  <2>5. ToldToday'
    BY <1>1, <2>1 DEF ToldToday, Answered
  <2>6. QED BY <1>2, <2>2, <2>3, <2>4, <2>5 DEF IInv
<1>4. CASE /\ faults' = faults + 1 /\ excused' = Date(clock)
           /\ unwritten' = TRUE /\ UNCHANGED <<row, since>>
  <2>1. UNCHANGED <<live, cond, updatedAt, since>> /\ Date(clock) \in Nat
    BY <1>1, <1>4, DayOf DEF row
  <2>2. Stamped' /\ FromEditOrRun' /\ Written' /\ Counted'
    BY <1>1, <1>4, <2>1 DEF IInv, Stamped, FromEditOrRun, Written, Counted, Midnight
  <2>3. ToldToday'
    <3>1. excused' = Date(clock)'
      BY <1>1, <1>4 DEF Date
    <3>2. QED BY <3>1 DEF ToldToday
  <2>4. QED BY <1>2, <2>2, <2>3 DEF IInv
<1>5. QED BY <1>3, <1>4 DEF Retain

LEMMA MissInv ==
  ASSUME IInv, Miss
  PROVE  IInv'
<1>1. /\ clock % Period = 0 /\ started # clock /\ started' = clock
      /\ faults' = faults + 1 /\ excused' = Date(clock)
      /\ UNCHANGED <<clock, live, cond, updatedAt, now, hand, since, told,
                     unwritten, edits>>
      /\ clock \in Nat /\ Date(clock) \in Nat
  BY DayOf DEF Miss, CronStarts, row, answers, IInv, Stamped
<1>2. now = -1
  <2>1. SUFFICES ASSUME now # -1 PROVE FALSE
    OBVIOUS
  <2>2. /\ now \in Nat /\ started = now /\ now % Period = 0
        /\ now <= clock /\ clock <= now + MaxLag
    BY <2>1 DEF IInv, Running
  <2>3. clock < now + Period
    BY <1>1, <2>2, ScheduleAssumption
  <2>4. now = clock
    BY <1>1, <2>2, <2>3, StartsApart
  <2>5. QED BY <1>1, <2>2, <2>4
<1>3. Stamped' /\ FromEditOrRun' /\ Written' /\ Counted' /\ Running'
  BY <1>1, <1>2 DEF IInv, Stamped, FromEditOrRun, Written, Counted, Running, Midnight
<1>4. StartsSeen'
  BY <1>1 DEF StartsSeen
<1>5. ToldToday'
  <2>1. excused' = Date(clock)'
    BY <1>1 DEF Date
  <2>2. QED BY <2>1 DEF ToldToday
<1>6. QED BY <1>3, <1>4, <1>5 DEF IInv

LEMMA TickInv ==
  ASSUME IInv, Tick
  PROVE  IInv'
<1>1. /\ clock' = clock + 1 /\ ~(clock % Period = 0 /\ started # clock)
      /\ now # -1 => clock < now + MaxLag
      /\ UNCHANGED <<live, cond, updatedAt, started, now, hand, since, told, unwritten,
                     excused, edits, faults>>
      /\ clock \in Nat /\ clock + 1 \in Nat /\ started \in Int /\ started <= clock
  BY DEF Tick, CronStarts, row, run, answers, IInv, Stamped, Running
<1>2. Stamped' /\ FromEditOrRun' /\ Written' /\ Counted'
  BY <1>1 DEF IInv, Stamped, FromEditOrRun, Written, Counted, Midnight
<1>3. Running'
  BY <1>1, ScheduleAssumption DEF IInv, Running, Midnight
<1>4. StartsSeen'
  <2>1. ASSUME NEW s \in 0 .. clock, s % Period = 0 PROVE s <= started
    <3>1. CASE s = clock
      BY <1>1, <2>1, <3>1
    <3>2. CASE s # clock
      <4>1. s \in 0 .. clock - 1
        BY <1>1, <3>2
      <4>2. QED BY <2>1, <4>1 DEF IInv, StartsSeen
    <3>3. QED BY <3>1, <3>2
  <2>2. 0 .. clock' - 1 = 0 .. clock
    BY <1>1
  <2>3. QED BY <1>1, <2>1, <2>2 DEF StartsSeen
<1>5. ToldToday'
  <2>1. SUFFICES ASSUME live, cond.type = "daily", now = -1, excused # Date(clock'),
                        started >= Midnight(clock') + cond.value
                 PROVE  Answered'
    BY <1>1 DEF ToldToday, Date, Midnight
  <2>2. /\ Midnight(clock) \in Nat /\ Midnight(clock) <= clock
        /\ clock < Midnight(clock) + Day /\ Day \in Nat
        /\ Midnight(clock') \in Nat /\ cond.value \in Nat
    <3>1. cond \in Condition /\ Day \in Nat
      BY <2>1, ScheduleAssumption DEF IInv, Stamped
    <3>2. cond.value \in 0 .. Day - 1
      BY <2>1, <3>1, ConditionIs
    <3>3. Midnight(clock') \in Nat
      BY <1>1, DayOf
    <3>4. /\ Midnight(clock) \in Nat /\ Midnight(clock) <= clock
          /\ clock < Midnight(clock) + Day
      BY <1>1, DayOf
    <3>5. cond.value \in Nat
      BY <3>1, <3>2
    <3>6. QED BY <3>1, <3>3, <3>4, <3>5
  <2>3. CASE clock + 1 < Midnight(clock) + Day
    <3>1. Midnight(clock') = Midnight(clock) /\ Date(clock') = Date(clock)
      <4>1. Midnight(clock) <= clock + 1
        BY <2>2, <1>1
      <4>2. QED BY <1>1, <2>3, <4>1, SameDay
    <3>2. Answered
      BY <2>1, <3>1 DEF IInv, ToldToday
    <3>3. QED
      BY <1>1, <3>1, <3>2 DEF Answered, Midnight
\* A day that has just begun has had no start after its midnight.
  <2>4. CASE ~(clock + 1 < Midnight(clock) + Day)
    <3>1. Midnight(clock') = clock'
      <4>1. clock + 1 = Midnight(clock) + Day
        BY <1>1, <2>2, <2>4
      <4>2. Midnight(clock') <= clock' /\ clock' < Midnight(clock') + Day
        BY <1>1, DayOf
      <4>3. ~(Midnight(clock') <= clock)
        <5>1. SUFFICES ASSUME Midnight(clock') <= clock PROVE FALSE
          OBVIOUS
        <5>2. clock < Midnight(clock') + Day
          BY <1>1, <2>2, <4>2
        <5>3. Midnight(Midnight(clock')) = Midnight(clock') /\ Midnight(clock) = Midnight(Midnight(clock'))
          <6>1. /\ Midnight(Midnight(clock')) \in Nat
                /\ Midnight(Midnight(clock')) <= Midnight(clock')
                /\ Midnight(clock') < Midnight(Midnight(clock')) + Day
            BY <2>2, DayOf
          <6>2. Midnight(clock') = Day * Date(clock') /\ Date(clock') \in Nat
            BY <1>1, DayOf
          <6>3. Midnight(clock') % Day = 0
            <7>1. /\ Midnight(clock') = (Day * Date(clock')) + 0 /\ Date(clock') \in Int
                  /\ Day \in Nat \ {0} /\ 0 \in 0 .. Day - 1
              BY <6>2, ScheduleAssumption
            <7>2. QED BY <7>1, RemainderOf
          <6>4. Midnight(Midnight(clock')) = Midnight(clock')
            BY <2>2, <6>3 DEF Midnight
          <6>5. Midnight(clock) = Midnight(Midnight(clock'))
            BY <1>1, <2>2, <5>1, <5>2, <6>4, SameDay
          <6>6. QED BY <6>4, <6>5
        <5>4. QED BY <1>1, <2>2, <4>1, <4>2, <5>3
      <4>4. QED BY <1>1, <2>2, <4>2, <4>3
    <3>2. QED BY <1>1, <2>1, <2>2, <3>1
  <2>5. QED BY <2>3, <2>4
<1>6. QED BY <1>2, <1>3, <1>4, <1>5 DEF IInv

LEMMA InvNext == IInv /\ [Next]_vars => IInv'
<1> SUFFICES ASSUME IInv, [Next]_vars PROVE IInv'
  OBVIOUS
<1>1. CASE UNCHANGED vars
  BY <1>1 DEF vars, IInv, Stamped, Running, Written, Counted, StartsSeen, FromEditOrRun, ToldToday,
              Answered, Midnight, Date
<1>2. QED
  BY <1>1, EditInv, CheckInv, RetainInv, MissInv, TickInv DEF Next

\* The types, and the inductive invariant the theorems rest on.
THEOREM Invariance == Spec => []IInv
  BY InvInit, InvNext, PTL DEF Spec

\* Type correctness of the row, the run in progress and the histories.
THEOREM TypeCorrect == Spec => []TypeOK
<1>1. IInv => TypeOK
  BY DEF IInv, Stamped, Running, Written, Counted, TypeOK
<1>2. QED BY <1>1, Invariance, PTL
-----------------------------------------------------------------------------
(* Theorems                                                                *)

\* Next returns the zero time for an expression that no date matches, and IsCronDue
\* takes that for due (rateusersubscription.go:96): it is left out where it matters.
Matching == \A c \in Condition : c.type = "cron" => c.when # {}

\* A due condition has an occurrence after what the row answers for.
LEMMA DueOccurs ==
  ASSUME IInv, Matching, live, IsDue(cond, clock, updatedAt)
  PROVE  Occurrences(cond, since, clock) # {}
<1>1. /\ clock \in Nat /\ since \in Nat /\ updatedAt \in Nat /\ since <= updatedAt
      /\ cond \in Condition /\ Day \in Nat
  BY ScheduleAssumption DEF IInv, Stamped
<1>2. CASE cond.type = "interval"
  <2>1. cond.value \in Nat /\ clock - updatedAt >= cond.value
    BY <1>1, <1>2, ConditionIs DEF IsDue, IsIntervalDue
  <2>2. since + cond.value \in since + cond.value .. clock
    BY <1>1, <2>1
  <2>3. Occurrences(cond, since, clock) =
          {u \in since + cond.value .. clock : u = since + cond.value}
    BY <1>2 DEF Occurrences
  <2>4. QED BY <2>2, <2>3
<1>3. CASE cond.type = "daily"
  <2> DEFINE fire == Midnight(clock) + cond.value
  <2>1. cond.value \in 0 .. Day - 1 /\ clock >= fire /\ updatedAt < fire
    BY <1>1, <1>3, ConditionIs DEF IsDue, IsDailyDue
  <2>2. Midnight(clock) \in Nat /\ fire % Day = cond.value
    BY <1>1, <2>1, DayOf, TimeOfDay
  <2>3. fire \in since + 1 .. clock
    BY <1>1, <2>1, <2>2
  <2>4. Occurrences(cond, since, clock) = {u \in since + 1 .. clock : u % Day = cond.value}
    BY <1>3 DEF Occurrences
  <2>5. QED BY <2>2, <2>3, <2>4
<1>4. CASE cond.type = "cron"
  <2> DEFINE fire == NextFire(cond.when, updatedAt)
  <2>1. cond.when \in SUBSET (0 .. Day - 1) /\ cond.when # {} /\ fire <= clock
    BY <1>1, <1>4, ConditionIs DEF IsDue, IsCronDue, Matching
  <2>2. fire \in updatedAt + 1 .. updatedAt + Day /\ fire % Day \in cond.when
    BY <1>1, <2>1, NextFireIs
  <2>3. fire \in since + 1 .. clock
    BY <1>1, <2>1, <2>2
  <2>4. Occurrences(cond, since, clock) = {u \in since + 1 .. clock : u % Day \in cond.when}
    BY <1>4 DEF Occurrences
  <2>5. QED BY <2>2, <2>3, <2>4
<1>5. QED BY <1>1, <1>2, <1>3, <1>4, ConditionIs

\* No run notifies without an occurrence since the last notified run or edit (IsDue
\* against updated_at), when expressions match, unless that run's write failed: it
\* notified all the same, and the row answers for an earlier run or edit.
THEOREM NoneTwice ==
  ASSUME Matching
  PROVE  Spec => OncePerOccurrence
<1>1. ASSUME IInv, [Next]_vars, now = -1, now' # -1
      PROVE  /\ Occurrences(cond, since, now') # {}
             /\ unwritten \/ Occurrences(cond, told, now') # {}
  <2>1. Check
    BY <1>1 DEF Next, vars, Edit, Retain, Miss, Tick, run
  <2>2. live /\ IsDue(cond, clock, updatedAt) /\ now' = clock
    BY <1>1, <2>1 DEF Check
  <2>3. Occurrences(cond, since, now') # {}
    BY <1>1, <2>2, DueOccurs
  <2>4. unwritten \/ told = since
    BY <1>1 DEF IInv, Written
  <2>5. QED BY <2>3, <2>4
<1>2. IInv /\ [Next]_vars =>
        [now = -1 /\ now' # -1 =>
            /\ Occurrences(cond, since, now') # {}
            /\ unwritten \/ Occurrences(cond, told, now') # {}]_vars
  BY <1>1
<1>3. QED
  BY <1>2, Invariance, PTL DEF Spec, OncePerOccurrence

\* An occurrence out of reach of the last run's write makes the condition due.
LEMMA OccursDue ==
  ASSUME IInv, live, NEW u \in Occurrences(cond, since + MaxLag, clock),
         cond.type = "daily" => Date(u) = Date(clock)
  PROVE  IsDue(cond, clock, updatedAt)
<1>1. /\ clock \in Nat /\ since \in Nat /\ updatedAt \in Nat /\ updatedAt <= since + MaxLag
      /\ cond \in Condition /\ Day \in Nat /\ MaxLag \in Nat
  BY ScheduleAssumption DEF IInv, Stamped
<1>2. CASE cond.type = "interval"
  <2>1. cond.value \in Nat
    BY <1>1, <1>2, ConditionIs
  <2>2. since + MaxLag + cond.value <= clock
    BY <1>1, <1>2, <2>1 DEF Occurrences
  <2>3. QED BY <1>1, <1>2, <2>1, <2>2 DEF IsDue, IsIntervalDue
<1>3. CASE cond.type = "daily"
  <2>1. u \in since + MaxLag + 1 .. clock /\ u % Day = cond.value
    BY <1>3 DEF Occurrences
  <2>2. u \in Nat /\ u <= clock /\ u > updatedAt
    BY <1>1, <2>1
  <2>3. Midnight(u) = Midnight(clock)
    <3>1. Date(u) = Date(clock)
      BY <1>3
    <3>2. Midnight(u) = Day * Date(u) /\ Midnight(clock) = Day * Date(clock)
      BY <1>1, <2>2, DayOf
    <3>3. QED BY <3>1, <3>2
  <2>4. u = Midnight(clock) + cond.value
    <3>1. Midnight(u) + (u % Day) = u
      BY <1>1, <2>2, ScheduleAssumption, Remainder DEF Midnight
    <3>2. QED BY <2>1, <2>3, <3>1
  <2>5. QED BY <1>3, <2>2, <2>4 DEF IsDue, IsDailyDue
<1>4. CASE cond.type = "cron"
  <2>1. u \in since + MaxLag + 1 .. clock /\ u % Day \in cond.when
    BY <1>4 DEF Occurrences
  <2>2. u \in Nat /\ u <= clock /\ u > updatedAt /\ cond.when \in SUBSET (0 .. Day - 1)
    BY <1>1, <1>4, <2>1, ConditionIs
  <2>3. NextFire(cond.when, updatedAt) <= u
    BY <1>1, <2>1, <2>2, NextFireBy
  <2>4. NextFire(cond.when, updatedAt) \in Int
    <3>1. cond.when # {}
      BY <2>1
    <3>2. NextFire(cond.when, updatedAt) \in updatedAt + 1 .. updatedAt + Day
      BY <1>1, <2>2, <3>1, NextFireIs
    <3>3. QED BY <1>1, <3>2
  <2>5. QED BY <1>1, <1>4, <2>2, <2>3, <2>4 DEF IsDue, IsCronDue
<1>5. QED BY <1>1, <1>2, <1>3, <1>4, ConditionIs

\* A run that finds an occurrence notifies, except one between the start of the last
\* notified run and its write, and a daily time of an earlier date.
THEOREM NoneLost == Spec => NoneOverlooked
<1>1. ASSUME IInv, [Next]_vars, started' # started, live, faults' = faults,
             NEW u \in Occurrences(cond, since + MaxLag, clock),
             cond.type = "daily" => Date(u) = Date(clock)
      PROVE  now' # -1
  <2>1. faults \in Nat /\ clock \in Nat
    BY <1>1 DEF IInv, Counted, Stamped
  <2>2. Check
    <3>1. faults + 1 # faults
      BY <2>1
    <3>2. ~Miss
      BY <1>1, <3>1, Zenon DEF Miss
    <3>3. ~UNCHANGED started
      BY <1>1
    <3>4. (Retain \/ Tick \/ (\E c \in Condition : Edit(c)) \/ UNCHANGED vars)
             => UNCHANGED started
      BY DEF vars, Edit, Retain, Tick, run
    <3>5. QED BY <1>1, <3>2, <3>3, <3>4, Zenon DEF Next
  <2>3. IsDue(cond, clock, updatedAt)
    BY <1>1, OccursDue
  <2>4. now' = clock
    BY <1>1, <2>2, <2>3 DEF Check
  <2>5. QED BY <2>1, <2>4
<1>2. IInv /\ [Next]_vars =>
        [(/\ started' # started /\ live /\ faults' = faults
          /\ \E u \in Occurrences(cond, since + MaxLag, clock) :
                cond.type = "daily" => Date(u) = Date(clock))
            => now' # -1]_vars
  BY <1>1
<1>3. QED
  BY <1>2, Invariance, PTL DEF Spec, NoneOverlooked

\* Cron starts the notifier once more before the day of a daily time is over.
Reachable == \A c \in Condition : c.type = "daily" => c.value + Period <= Day

\* A day does not end with its daily notification still to come, faults aside, unless
\* the run that answered for the day before made its write after the time of day.
THEOREM EveryDayTold ==
  ASSUME Reachable
  PROVE  Spec => DailyEveryDay
<1>1. ASSUME IInv, [Next]_vars, Date(clock') > Date(clock), live, cond.type = "daily",
             now = -1, excused # Date(clock)
      PROVE  Answered
  <2>1. /\ clock \in Nat /\ Day \in Nat /\ Period \in Nat \ {0} /\ cond \in Condition
        /\ started \in Int
    BY <1>1, ScheduleAssumption DEF IInv, Stamped, Running
  <2>2. Date(clock) \in Int
    BY <2>1, DayOf
  <2>3. clock' = clock + 1 /\ ~(clock % Period = 0 /\ started # clock)
    <3>1. clock' # clock
      BY <1>1, <2>2
    <3>2. QED
      BY <1>1, <3>1 DEF Next, vars, Edit, Retain, Miss, Check, Tick, CronStarts
  <2>4. /\ Midnight(clock) \in Nat /\ Midnight(clock) <= clock
        /\ clock < Midnight(clock) + Day
    BY <2>1, DayOf
  <2>5. clock + 1 >= Midnight(clock) + Day
    <3>1. SUFFICES ASSUME clock + 1 < Midnight(clock) + Day PROVE FALSE
      BY <2>1, <2>4
    <3>2. clock + 1 \in Nat /\ Midnight(clock) <= clock + 1
      BY <2>1, <2>4
    <3>3. Date(clock') = Date(clock)
      BY <2>1, <2>3, <3>1, <3>2, SameDay
    <3>4. QED BY <1>1, <2>2, <3>3
  <2>6. cond.value \in Nat /\ cond.value + Period <= Day
    <3>1. cond.value \in 0 .. Day - 1
      BY <1>1, <2>1, ConditionIs
    <3>2. QED BY <1>1, <2>1, <3>1 DEF Reachable
  <2>7. PICK s \in 0 .. clock : s % Period = 0 /\ clock < s + Period
    BY <2>1, StartBefore
  <2>8. started >= s
    <3>1. CASE s = clock
      BY <2>1, <2>3, <2>7, <3>1
    <3>2. CASE s # clock
      <4>1. s \in 0 .. clock - 1
        BY <2>1, <2>7, <3>2
      <4>2. QED BY <1>1, <2>1, <2>7, <4>1 DEF IInv, StartsSeen
    <3>3. QED BY <3>1, <3>2
  <2>9. started >= Midnight(clock) + cond.value
    BY <2>1, <2>4, <2>5, <2>6, <2>7, <2>8
  <2>10. QED BY <1>1, <2>9 DEF IInv, ToldToday
<1>2. IInv /\ [Next]_vars =>
        [(/\ Date(clock') > Date(clock)
          /\ live /\ cond.type = "daily" /\ now = -1
          /\ excused # Date(clock))
            => LET todayFire == Midnight(clock) + cond.value
               IN  \/ since >= todayFire
                   \/ since < Midnight(clock) /\ since + MaxLag >= todayFire]_vars
  BY <1>1 DEF Answered
<1>3. QED
  BY <1>2, Invariance, PTL DEF Spec, DailyEveryDay
=============================================================================
