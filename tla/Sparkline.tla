------------------------------ MODULE Sparkline ------------------------------
(***************************************************************************)
(* The chart ObtainMeChartForPeriod and ObtainPublicChartForPeriod draw    *)
(* from the stored rate values: one series for each pair and direction,    *)
(* downsampled into BucketCount points.                                    *)
(*                                                                         *)
(* Rows have whole seconds; the clock has Tick instants in a second.       *)
(***************************************************************************)
EXTENDS RateHistory, Integers

CONSTANTS
    BucketCount,    \* bucketCount
    Tick,           \* instants of the clock in a second
    RowsPerKey,     \* what one source adds to the LIMIT of the query
    HourTicks,      \* an hour, in instants
    DayTicks,       \* a day, in instants
    Nows,           \* instants at which the chart is asked for
    Lengths         \* lengths of its period, in instants

ASSUME SparklineAssumption ==
    /\ BucketCount \in Nat \ {0} /\ RowsPerKey \in Nat \ {0}
    /\ Tick \in Nat \ {0} /\ BucketCount <= Tick
    /\ HourTicks \in Nat /\ BucketCount <= HourTicks /\ DayTicks \in Nat \ {0}
    /\ Nows \subseteq Nat
    /\ Lengths \subseteq Nat /\ \A length \in Lengths : BucketCount <= length
    \* The code divides by zero when the first sample is under BucketCount instants old.
    /\ \A now \in Nows : now % Tick \notin 1..(BucketCount - 1)

NoSeries == [points |-> <<>>, latest |-> NoValue, first |-> NoValue, sparse |-> TRUE, days |-> 0]

Instant(r) == r.time * Tick
OldestFirst(rows) == InOrder(rows, LAMBDA q, r : Newer(r, q))

\* ObtainValuesForPairsSince: since is formatted to whole seconds, and the LIMIT
\* keeps the oldest rows of all the sources together.
ValuesSince(rows, keys, since) ==
    LET sorted == OldestFirst({r \in Matching(rows, keys) : r.time >= since \div Tick})
    IN SubSeq(sorted, 1, Min({Len(sorted), Cardinality(keys) * RowsPerKey}))

\* The sources that serve one direction of a pair.
Triple(keys, pair, kind) == {s \in keys : PairOf[s] = pair /\ Kind[s] = kind}
OfTriple(vals, keys, pair, kind) ==
    Picked(vals, {i \in DOMAIN vals : vals[i].source \in Triple(keys, pair, kind)})

\* mutant of Deduped: the first row of a second is kept
FirstOfSecond(vals) ==
    Picked(vals, {i \in DOMAIN vals : i = 1 \/ vals[i - 1].time # vals[i].time})

\* dedupeByTimestamp: the last row of each second.
Deduped(vals) ==
    Picked(vals, {i \in DOMAIN vals : i = Len(vals) \/ vals[i + 1].time # vals[i].time})

\* The window starts at the first sample when that is later.
EffectiveSince(vals, since) ==
    IF Instant(vals[1]) > since THEN Instant(vals[1]) ELSE since

Window(start, now) == IF now - start <= 0 THEN HourTicks ELSE now - start
Step(start, now) == Window(start, now) \div BucketCount

\* mutant of BucketOf: a sample on an edge belongs to the bucket before it
EdgeBefore(r, start, now) ==
    LET n == (Instant(r) - start - 1) \div Step(start, now) + 1
    IN IF n < 1 THEN 1 ELSE Min({n, BucketCount})

\* A sample's bucket, clamped at both ends.
BucketOf(r, start, now) ==
    LET n == (Instant(r) - start) \div Step(start, now) + 1
    IN IF n < 1 THEN 1 ELSE Min({n, BucketCount})

\* The last sample up to a bucket: its own, or the value carried forward.
PointAt(vals, start, now, i) ==
    LET upTo == {n \in DOMAIN vals : BucketOf(vals[n], start, now) <= i}
    IN IF upTo = {} THEN NoValue ELSE vals[Max(upTo)].id

Series(group, since, now) ==
    IF group = <<>> THEN NoSeries
    ELSE LET vals == Deduped(group)
             start == EffectiveSince(vals, since)
             points == [i \in 1..BucketCount |-> PointAt(vals, start, now, i)]
             sparse == Len(vals) < 2
         IN [points |-> points, latest |-> points[BucketCount], sparse |-> sparse,
             first |-> IF sparse THEN NoValue ELSE points[1],
             days |-> IF sparse THEN 0 ELSE Max({1, Window(start, now) \div DayTicks})]

\* One row for each pair, BID and ASK together; a direction without sources is left out.
Chart(rows, keys, period, now) ==
    LET since == now - period
        vals == ValuesSince(rows, keys, since)
        Kinds(pair) == {Kind[s] : s \in {k \in keys : PairOf[k] = pair}}
    IN [pair \in MePairs(keys) |->
            [kind \in Kinds(pair) |-> Series(OfTriple(vals, keys, pair, kind), since, now)]]
-----------------------------------------------------------------------------
(* What makes a chart right                                                *)

\* The newest of the rows, by second and then by id.
Newest(rows) == CHOOSE r \in rows : \A q \in rows \ {r} : Newer(r, q)

Within(rows, keys, pair, kind, since) ==
    {r \in rows : r.source \in Triple(keys, pair, kind) /\ r.time >= since \div Tick}

\* The window starts with its period, or with the oldest of its rows when that is later.
StartOf(here, since) ==
    LET oldest == CHOOSE r \in here : \A q \in here : q.time >= r.time
    IN IF Instant(oldest) > since THEN Instant(oldest) ELSE since

\* What was known at the right edge of a bucket, and at the end all there is.
KnownBy(here, start, now, i) ==
    {r \in here : i = BucketCount \/ Instant(r) < start + i * Step(start, now)}

\* Each point is the newest rate stored before the right edge of its bucket, and the
\* last one the newest of all.
PointsRight(rows, keys, period, now) ==
    LET since == now - period
        chart == Chart(rows, keys, period, now)
    IN \A pair \in DOMAIN chart : \A kind \in DOMAIN chart[pair] :
        LET here == Within(rows, keys, pair, kind, since)
            Known(i) == KnownBy(here, StartOf(here, since), now, i)
        IN here # {} => \A i \in 1..BucketCount :
              Known(i) # {} /\ chart[pair][kind].points[i] = Newest(Known(i)).id
=============================================================================
