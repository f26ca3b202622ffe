----------------------------- MODULE MCSchedule -----------------------------
(* Conditions for TLC, with a day of eight ticks and a start every three,  *)
(* so that starts fall on different times from day to day.                 *)
EXTENDS Schedule

Daily(t) == [type |-> "daily", value |-> t, when |-> {}]
Interval(d) == [type |-> "interval", value |-> d, when |-> {}]
Cron(when) == [type |-> "cron", value |-> 0, when |-> when]

\* No day ends before a start has followed the latest of the daily times.
MCConditions == {Daily(0), Daily(5), Interval(2), Interval(4), Cron({2}), Cron({1, 6})}
=============================================================================
