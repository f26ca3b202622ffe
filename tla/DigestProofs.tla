---------------------------- MODULE DigestProofs ----------------------------
(***************************************************************************)
(* Theorems about Digest, for any subscriptions, sources, keys and prices: *)
(* what the rows of a message say does not depend on the order in which    *)
(* the sources are folded.                                                 *)
(***************************************************************************)
EXTENDS Digest, FiniteSetTheorems, TLAPS

\* The part of the types that folding keeps.
Folding ==
  /\ price \in [Source -> Price]
  /\ baseline \in [Snap -> Price \cup {0}]
  /\ folded \subseteq Snap
  /\ bucket \in [Key -> Alert \cup {NoAlert}]

\* A key without a row has had no snapshot folded into it.
EmptyIsUnfolded == \A k \in Key : bucket[k] = NoAlert => FoldedInto(k) = {}

Rows == Folding /\ EmptyIsUnfolded /\ Coherent /\ Extremal

LEMMA AlertIsRow == NoAlert \notin Alert
  BY DigestAssumption DEF NoAlert, Alert

LEMMA PriceIs == \A s \in Source : Folding => price[s] \in Nat
  BY DigestAssumption DEF Folding, Price

LEMMA InitRows == Init => Rows
<1> SUFFICES ASSUME Init PROVE Rows
  OBVIOUS
<1>1. Folding
  BY DEF Init, Folding
<1>2. Filled = {}
  BY DEF Init, Filled
<1>3. EmptyIsUnfolded
  BY DEF Init, EmptyIsUnfolded, FoldedInto
<1>4. QED
  BY <1>1, <1>2, <1>3 DEF Rows, Coherent, Extremal

\* What a snapshot that wins puts in the row: its own source, price and change.
LEMMA WinnerRow ==
  ASSUME Folding, NEW s \in Snap, NEW heard \in SUBSET Trigger,
         NEW r, r = [source |-> SourceOf[s], price |-> price[SourceOf[s]],
                     delta |-> price[SourceOf[s]] - baseline[s],
                     triggers |-> heard \cup {TriggerOf[s]}]
  PROVE  /\ r \in Alert
         /\ r.source = SourceOf[s]
         /\ r.price = price[SourceOf[s]]
         /\ r.delta = price[SourceOf[s]] - baseline[s]
<1>1. SourceOf[s] \in Source /\ price[SourceOf[s]] \in Price
  BY DigestAssumption DEF Folding
<1>2. price[SourceOf[s]] - baseline[s] \in Int
  <2>1. baseline[s] \in Int /\ price[SourceOf[s]] \in Int
    BY <1>1 DEF Folding, Price
  <2>2. QED BY <2>1
<1>3. heard \cup {TriggerOf[s]} \in SUBSET Trigger
  BY DigestAssumption
<1>4. QED
  BY <1>1, <1>2, <1>3 DEF Alert

\* A snapshot that loses leaves the row's source, price and change alone.
LEMMA LoserRow ==
  ASSUME NEW s \in Snap, NEW a \in Alert, NEW r, r = Heard(a, s, FALSE)
  PROVE  r \in Alert /\ r.source = a.source /\ r.price = a.price /\ r.delta = a.delta
  BY DigestAssumption DEF Heard, Alert

LEMMA FoldRows ==
  ASSUME Rows, NEW s \in Snap, Fold(s)
  PROVE  Rows'
<1> DEFINE x == KeyOfSnap(s)
           won == bucket[x] = NoAlert \/ Beats(x, price[SourceOf[s]], bucket[x].price)
<1>0. SourceOf[s] \in Source /\ x \in Key
  BY DigestAssumption DEF KeyOfSnap
<1>1. /\ Folding
      /\ UNCHANGED <<price, baseline>>
      /\ folded' = folded \cup {s}
      /\ s \notin folded
  BY DEF Fold, Rows, input
<1>2. PICK row : /\ bucket' = [bucket EXCEPT ![x] = row]
                 /\ row \in Alert
                 /\ \/ /\ row.source = SourceOf[s] /\ row.price = price[SourceOf[s]]
                       /\ row.delta = price[SourceOf[s]] - baseline[s]
                       /\ won
                    \/ /\ row.source = bucket[x].source /\ row.price = bucket[x].price
                       /\ row.delta = bucket[x].delta
                       /\ bucket[x] \in Alert
                       /\ ~won
  <2>1. CASE won
    <3>1. PICK r : /\ r = [source |-> SourceOf[s], price |-> price[SourceOf[s]],
                            delta |-> price[SourceOf[s]] - baseline[s],
                            triggers |-> bucket[x].triggers \cup {TriggerOf[s]}]
                   /\ bucket' = [bucket EXCEPT ![x] = r]
      BY <2>1 DEF Fold, Heard, Replaced
    <3>2. bucket[x].triggers \in SUBSET Trigger
      <4>1. CASE bucket[x] \in Alert
        BY <4>1 DEF Alert
      <4>2. CASE bucket[x] = NoAlert
        BY <4>2 DEF NoAlert
      <4>3. QED BY <1>0, <1>1, <4>1, <4>2 DEF Folding
    <3>3. /\ r \in Alert /\ r.source = SourceOf[s] /\ r.price = price[SourceOf[s]]
          /\ r.delta = price[SourceOf[s]] - baseline[s]
      BY <1>1, <3>1, <3>2, WinnerRow
    <3>4. QED
      BY <2>1, <3>1, <3>3
  <2>2. CASE ~won
    <3>1. PICK r : /\ r = Heard(bucket[x], s, FALSE)
                   /\ bucket' = [bucket EXCEPT ![x] = r]
      BY <2>2 DEF Fold, Heard
    <3>2. bucket[x] \in Alert
      BY <1>0, <1>1, <2>2 DEF Folding
    <3>3. /\ r \in Alert /\ r.source = bucket[x].source
          /\ r.price = bucket[x].price /\ r.delta = bucket[x].delta
      <4>1. PICK a \in Alert : a = bucket[x]
        BY <3>2
      <4>2. r = Heard(a, s, FALSE)
        BY <3>1, <4>1
      <4>3. r \in Alert /\ r.source = a.source /\ r.price = a.price /\ r.delta = a.delta
        BY <4>2, LoserRow
      <4>4. QED BY <4>1, <4>3
    <3>4. QED
      BY <2>2, <3>1, <3>2, <3>3
  <2>3. QED BY <2>1, <2>2
<1>3. /\ bucket'[x] = row /\ row # NoAlert
      /\ \A k \in Key : k # x => bucket'[k] = bucket[k]
  BY <1>0, <1>1, <1>2, AlertIsRow DEF Folding
<1>4. \A k \in Key : IF k = x THEN FoldedInto(k)' = FoldedInto(k) \cup {s}
                              ELSE FoldedInto(k)' = FoldedInto(k)
  BY <1>1 DEF FoldedInto, KeyOfSnap
<1>5. Folding'
  BY <1>0, <1>1, <1>2 DEF Folding
<1>6. EmptyIsUnfolded'
  BY <1>3, <1>4 DEF Rows, EmptyIsUnfolded
<1>7. ASSUME NEW k \in Filled', k # x
      PROVE  k \in Filled /\ bucket'[k] = bucket[k] /\ FoldedInto(k)' = FoldedInto(k)
  BY <1>3, <1>4, <1>7 DEF Filled
<1>8. Coherent'
  <2>1. ASSUME NEW k \in Filled'
        PROVE  \E t \in FoldedInto(k)' :
                 /\ bucket'[k].source = SourceOf[t]
                 /\ bucket'[k].price = price[SourceOf[t]]
                 /\ bucket'[k].delta = price[SourceOf[t]] - baseline[t]
    <3>1. CASE k # x
      BY <1>7, <3>1 DEF Rows, Coherent
    <3>2. CASE k = x /\ won
      <4>1. s \in FoldedInto(x)'
        BY <1>0, <1>4
      <4>2. QED BY <1>2, <1>3, <3>2, <4>1
    <3>3. CASE k = x /\ ~won
      <4>1. x \in Filled
        BY <1>0, <1>2, <3>3 DEF Filled
      <4>2. PICK t \in FoldedInto(x) :
              /\ bucket[x].source = SourceOf[t]
              /\ bucket[x].price = price[SourceOf[t]]
              /\ bucket[x].delta = price[SourceOf[t]] - baseline[t]
        BY <4>1 DEF Rows, Coherent
      <4>3. t \in FoldedInto(x)'
        BY <1>0, <1>4, <4>2
      <4>4. QED BY <1>2, <1>3, <3>3, <4>2, <4>3
    <3>4. QED BY <3>1, <3>2, <3>3
  <2>2. QED BY <1>1, <2>1 DEF Coherent
<1>9. Extremal'
  <2>1. ASSUME NEW k \in Filled', NEW t \in FoldedInto(k)'
        PROVE  IF k \in Bid THEN bucket'[k].price >= price[SourceOf[t]]
                            ELSE bucket'[k].price <= price[SourceOf[t]]
    <3>1. CASE k # x
      BY <1>7, <2>1, <3>1 DEF Rows, Extremal
    <3>2. CASE k = x
      <4>1. t = s \/ t \in FoldedInto(x)
        BY <1>0, <1>4, <3>2
      <4>2. t \in Snap /\ SourceOf[t] \in Source
        BY <1>1, <4>1, DigestAssumption DEF FoldedInto, Folding
      <4>3. price[SourceOf[t]] \in Nat /\ price[SourceOf[s]] \in Nat
        BY <1>0, <1>1, <4>2, PriceIs
      <4>4. t \in FoldedInto(x) =>
              /\ bucket[x] \in Alert
              /\ IF x \in Bid THEN bucket[x].price >= price[SourceOf[t]]
                              ELSE bucket[x].price <= price[SourceOf[t]]
        BY <1>0, <1>1 DEF Rows, EmptyIsUnfolded, Extremal, Filled, Folding
      <4>5. bucket[x] \in Alert => bucket[x].price \in Nat
        BY DigestAssumption DEF Alert, Price
      <4>6. bucket'[k].price = row.price
        BY <1>3, <3>2
      <4>7. CASE won
        <5>1. row.price = price[SourceOf[s]]
          BY <1>2, <4>7
        <5>2. t \in FoldedInto(x) =>
                IF x \in Bid THEN price[SourceOf[s]] > bucket[x].price
                             ELSE price[SourceOf[s]] < bucket[x].price
          BY <4>4, <4>7, AlertIsRow DEF Beats
        <5>3. QED BY <3>2, <4>1, <4>3, <4>4, <4>5, <4>6, <5>1, <5>2
      <4>8. CASE ~won
        <5>1. row.price = bucket[x].price /\ bucket[x] \in Alert
          BY <1>2, <4>8
        <5>2. IF x \in Bid THEN ~(price[SourceOf[s]] > bucket[x].price)
                           ELSE ~(price[SourceOf[s]] < bucket[x].price)
          BY <4>8 DEF Beats
        <5>3. QED BY <3>2, <4>1, <4>3, <4>4, <4>5, <4>6, <5>1, <5>2
      <4>9. QED BY <4>7, <4>8
    <3>3. QED BY <3>1, <3>2
  <2>2. QED BY <1>1, <2>1 DEF Extremal
<1>10. QED
  BY <1>5, <1>6, <1>8, <1>9 DEF Rows

LEMMA NextRows == Rows /\ [Next]_vars => Rows'
<1> SUFFICES ASSUME Rows, [Next]_vars PROVE Rows'
  OBVIOUS
<1>1. CASE Flatten \/ Pack \/ UNCHANGED vars
  <2>1. UNCHANGED <<price, baseline, folded, bucket>>
    BY <1>1 DEF Flatten, Pack, vars, input
  <2>2. QED
    BY <2>1 DEF Rows, Folding, EmptyIsUnfolded, Coherent, Extremal, Filled, FoldedInto
<1>2. QED
  BY <1>1, FoldRows DEF Next

\* Whatever the order in which sources are read and the number of
\* subscriptions folded into a row, the row's source, price and change belong
\* to one subscription, and the price is the best of all of them.
THEOREM RowsAreHonest == Spec => [](Coherent /\ Extremal)
<1>1. Rows => Coherent /\ Extremal
  BY DEF Rows
<1>2. QED
  BY <1>1, InitRows, NextRows, PTL DEF Spec

\* The price of a row is the highest BID or the lowest ASK folded into it, in whatever
\* order the sources are read (foldIntoBuckets).
THEOREM RowsAreExtreme == Spec => []Extremal
<1>1. Coherent /\ Extremal => Extremal
  OBVIOUS
<1>2. QED
  BY <1>1, RowsAreHonest, PTL
-----------------------------------------------------------------------------
(***************************************************************************)
(* Parts.  The rows are the keys that have one, each once; the parts tile  *)
(* the rows from the first one on; each part goes as far as it fits.       *)
(***************************************************************************)
\* A subscription that was folded has a row, and its condition is in it.
Voiced ==
  \A s \in folded : LET a == bucket[KeyOfSnap(s)]
                    IN a # NoAlert /\ TriggerOf[s] \in a.triggers

Laid ==
  /\ rows \in Seq(Filled)
  /\ \A k \in Filled : \E i \in DOMAIN rows : rows[i] = k
  /\ \A i, j \in DOMAIN rows : rows[i] = rows[j] => i = j

Covered == IF parts = <<>> THEN 0 ELSE Last(parts)[2]

Tiled ==
  /\ parts \in Seq(Nat \X Nat)
  /\ Covered <= Len(rows)
  /\ \A p \in DOMAIN parts :
        1 <= parts[p][1] /\ parts[p][1] <= parts[p][2] /\ parts[p][2] <= Covered
  /\ \A p, q \in DOMAIN parts : p < q => parts[p][2] < parts[q][1]
  /\ \A i \in 1 .. Covered : \E p \in DOMAIN parts : parts[p][1] <= i /\ i <= parts[p][2]

Greedy ==
  \A p \in DOMAIN parts :
    /\ \A e \in parts[p][1] + 1 .. parts[p][2] : Fits(parts[p][1], e)
    /\ parts[p][2] < Len(rows) => ~Fits(parts[p][1], parts[p][2] + 1)

Packed ==
  /\ stage \in {"fold", "pack", "done"}
  /\ stage = "fold" => (parts = <<>> /\ rows = <<>>)
  /\ stage # "fold" => Laid
  /\ stage = "done" => Covered = Len(rows)
  /\ Voiced /\ Tiled /\ Greedy

LEMMA GreatestExists ==
  ASSUME NEW S \in SUBSET Int, IsFiniteSet(S), S # {}
  PROVE  \E x \in S : \A y \in S : x >= y
<1> DEFINE Lacks(U) == U # {} /\ ~ \E x \in U : \A y \in U : x >= y
           Bad == {U \in FiniteSubsetsOf(S) : Lacks(U)}
<1>1. SUFFICES ASSUME Lacks(S) PROVE FALSE
  OBVIOUS
<1>2. S \in Bad
  BY <1>1 DEF FiniteSubsetsOf
\* A smallest set without a greatest element has one when an element is taken away.
<1>3. PICK U \in Bad : \A V \in Bad : <<V, U>> \notin StrictSubsetOrdering(S)
  <2>1. IsWellFoundedOn(StrictSubsetOrdering(S), FiniteSubsetsOf(S))
    BY FS_StrictSubsetOrderingWellFounded
  <2>2. Bad \subseteq FiniteSubsetsOf(S) /\ Bad # {}
    BY <1>2
  <2>3. QED BY <2>1, <2>2, WFMin
<1>4. PICK u \in U : TRUE
  OBVIOUS
<1> DEFINE V == U \ {u}
<1>5. U \in SUBSET S /\ IsFiniteSet(U) /\ Lacks(U)
  BY DEF FiniteSubsetsOf
<1>6. V \in FiniteSubsetsOf(S)
  BY <1>5, FS_Subset DEF FiniteSubsetsOf
<1>7. <<V, U>> \in StrictSubsetOrdering(S)
  BY <1>4, <1>5, <1>6 DEF StrictSubsetOrdering
<1>8. ~Lacks(V)
  BY <1>3, <1>6, <1>7
<1>9. CASE V = {}
  BY <1>4, <1>5, <1>9
<1>10. CASE V # {}
  <2>1. PICK x \in V : \A y \in V : x >= y
    BY <1>8, <1>10
  <2>2. x \in Int /\ u \in Int /\ x \in U /\ \A y \in U : y \in Int
    BY <1>4, <1>5
  <2>3. \A y \in U : y \in V \/ y = u
    OBVIOUS
  <2> HIDE DEF V
  <2>4. CASE x >= u
    BY <1>5, <2>1, <2>2, <2>3, <2>4
  <2>5. CASE u > x
    <3>1. \A y \in U : u >= y
      BY <2>1, <2>2, <2>3, <2>5
    <3>2. QED BY <1>4, <1>5, <3>1
  <2>6. QED BY <2>2, <2>4, <2>5
<1>11. QED BY <1>9, <1>10

LEMMA MaxIs ==
  ASSUME NEW S \in SUBSET Int, IsFiniteSet(S), S # {}
  PROVE  Max(S) \in S /\ \A y \in S : Max(S) >= y
<1>1. \E x \in S : \A y \in S : x >= y
  BY GreatestExists
<1>2. QED BY <1>1 DEF Max

\* A column is at least as wide with more rows.
LEMMA WidestGrows ==
  ASSUME NEW width \in [Key -> Nat], NEW more \in SUBSET Key, NEW fewer \in SUBSET more
  PROVE  /\ Widest(width, more) \in Nat /\ Widest(width, fewer) \in Nat
         /\ Widest(width, fewer) <= Widest(width, more)
<1> DEFINE Of(keys) == {width[k] : k \in keys} \cup {0}
<1>1. ASSUME NEW keys \in SUBSET Key
      PROVE  /\ Of(keys) \in SUBSET Nat
             /\ Widest(width, keys) \in Of(keys)
             /\ \A y \in Of(keys) : Widest(width, keys) >= y
  <2>1. IsFiniteSet(keys)
    BY <1>1, DigestAssumption, FS_Subset
  <2>2. IsFiniteSet({width[k] : k \in keys})
    <3> DEFINE f == [k \in keys |-> width[k]]
    <3>1. f \in Surjection(keys, {width[k] : k \in keys})
      BY DEF Surjection
    <3>2. QED BY <2>1, <3>1, FS_Surjection
  <2>3. IsFiniteSet(Of(keys))
    BY <2>2, FS_AddElement
  <2>4. Of(keys) \in SUBSET Nat /\ Of(keys) \in SUBSET Int /\ Of(keys) # {}
    BY <1>1
  <2>5. QED
    BY <2>3, <2>4, MaxIs DEF Widest
<1>2. Of(fewer) \subseteq Of(more)
  OBVIOUS
<1>3. fewer \in SUBSET Key
  OBVIOUS
<1> HIDE DEF Of
<1>4. QED
  BY <1>1, <1>2, <1>3

LEMMA ProductGrows ==
  ASSUME NEW a \in Nat, NEW b \in Nat, NEW c \in Nat, NEW d \in Nat, a <= b, c <= d
  PROVE  a * c \in Nat /\ b * d \in Nat /\ a * c <= b * d
<1>1. a * c <= b * c
  OBVIOUS
<1>2. b * c <= b * d
  OBVIOUS
<1>3. a * c \in Nat /\ b * c \in Nat /\ b * d \in Nat
  OBVIOUS
<1>4. QED BY <1>1, <1>2, <1>3

LEMMA CountGrows ==
  ASSUME NEW more, IsFiniteSet(more), NEW fewer \in SUBSET more
  PROVE  /\ Cardinality(fewer) \in Nat /\ Cardinality(more) \in Nat
         /\ Cardinality(fewer) <= Cardinality(more)
  BY FS_Subset, FS_CardinalityType

\* A part is at least as long with more rows (buildPart's columns and hashtags).
LEMMA PartLenGrows ==
  ASSUME Folding, Laid, NEW a \in Nat, NEW b \in Nat, NEW c \in Nat, NEW d \in Nat,
         1 <= a, a <= b, c <= d, d <= Len(rows)
  PROVE  /\ PartLen(b, c) \in Nat /\ PartLen(a, d) \in Nat
         /\ PartLen(b, c) <= PartLen(a, d)
<1> DEFINE more == Span(a, d)
           fewer == Span(b, c)
           moreChanged == {k \in more : ShowsDelta(k)}
           fewerChanged == {k \in fewer : ShowsDelta(k)}
<1>1. more \in SUBSET Filled /\ fewer \in SUBSET more
  BY DEF Laid, Span
<1>2. more \in SUBSET Key /\ fewer \in SUBSET Key /\ IsFiniteSet(more)
  BY <1>1, DigestAssumption, FS_Subset DEF Filled
<1>3. TagsOf(b, c) \in SUBSET TagsOf(a, d) /\ IsFiniteSet(TagsOf(a, d))
  <2>1. \A k \in Filled : bucket[k].triggers \in SUBSET Trigger
    BY DEF Filled, Folding, Alert
  <2>2. TagsOf(a, d) \in SUBSET Trigger
    BY <1>1, <2>1 DEF TagsOf
  <2>3. QED BY <1>1, <2>2, DigestAssumption, FS_Subset DEF TagsOf
<1> DEFINE T1 == Cardinality(TagsOf(b, c))
           T2 == Cardinality(TagsOf(a, d))
           C1 == Cardinality(fewer)
           C2 == Cardinality(more)
           D1 == Cardinality(fewerChanged)
           D2 == Cardinality(moreChanged)
           W1 == Widest(PairWidth, fewer) + Widest(ValueWidth, fewer)
           W2 == Widest(PairWidth, more) + Widest(ValueWidth, more)
           X1 == Widest(DeltaWidth, fewerChanged)
           X2 == Widest(DeltaWidth, moreChanged)
<1>4. /\ T1 \in Nat /\ T2 \in Nat /\ T1 <= T2
      /\ C1 \in Nat /\ C2 \in Nat /\ C1 <= C2
  BY <1>1, <1>2, <1>3, CountGrows
<1>5. moreChanged \in SUBSET Key /\ fewerChanged \in SUBSET moreChanged /\ IsFiniteSet(moreChanged)
  BY <1>1, <1>2, FS_Subset
<1>6. D1 \in Nat /\ D2 \in Nat /\ D1 <= D2
  BY <1>5, CountGrows
<1>7. /\ PairWidth \in [Key -> Nat] /\ ValueWidth \in [Key -> Nat] /\ DeltaWidth \in [Key -> Nat]
      /\ Header \in Nat /\ Tag \in Nat
  BY DigestAssumption
<1>8. W1 \in Nat /\ W2 \in Nat /\ W1 <= W2
  <2>1. /\ Widest(PairWidth, fewer) \in Nat /\ Widest(PairWidth, more) \in Nat
        /\ Widest(PairWidth, fewer) <= Widest(PairWidth, more)
    BY <1>1, <1>2, <1>7, WidestGrows
  <2>2. /\ Widest(ValueWidth, fewer) \in Nat /\ Widest(ValueWidth, more) \in Nat
        /\ Widest(ValueWidth, fewer) <= Widest(ValueWidth, more)
    BY <1>1, <1>2, <1>7, WidestGrows
  <2>3. QED BY <2>1, <2>2
<1>9. X1 \in Nat /\ X2 \in Nat /\ X1 <= X2
  BY <1>5, <1>7, WidestGrows
<1>10. /\ PartLen(b, c) = Header + Tag * T1 + W1 * C1 + X1 * D1
       /\ PartLen(a, d) = Header + Tag * T2 + W2 * C2 + X2 * D2
  BY DEF PartLen
<1> HIDE DEF T1, T2, C1, C2, D1, D2, W1, W2, X1, X2
<1>11. Tag * T1 \in Nat /\ Tag * T2 \in Nat /\ Tag * T1 <= Tag * T2
  BY <1>4, <1>7, ProductGrows
<1>12. W1 * C1 \in Nat /\ W2 * C2 \in Nat /\ W1 * C1 <= W2 * C2
  BY <1>4, <1>8, ProductGrows
<1>13. X1 * D1 \in Nat /\ X2 * D2 \in Nat /\ X1 * D1 <= X2 * D2
  BY <1>6, <1>9, ProductGrows
<1> DEFINE A1 == Tag * T1
           A2 == Tag * T2
           B1 == W1 * C1
           B2 == W2 * C2
           E1 == X1 * D1
           E2 == X2 * D2
<1>14. /\ A1 \in Nat /\ A2 \in Nat /\ A1 <= A2 /\ B1 \in Nat /\ B2 \in Nat /\ B1 <= B2
       /\ E1 \in Nat /\ E2 \in Nat /\ E1 <= E2
       /\ PartLen(b, c) = Header + A1 + B1 + E1 /\ PartLen(a, d) = Header + A2 + B2 + E2
  BY <1>10, <1>11, <1>12, <1>13
<1> HIDE DEF A1, A2, B1, B2, E1, E2
<1>15. QED
  BY <1>7, <1>14

LEMMA PackedInit == Init => Packed
<1> SUFFICES ASSUME Init PROVE Packed
  OBVIOUS
<1>1. /\ stage = "fold" /\ parts = <<>> /\ rows = <<>> /\ folded = {}
      /\ Len(rows) = 0 /\ DOMAIN parts = {}
  BY DEF Init
<1>2. Tiled
  BY <1>1 DEF Tiled, Covered
<1>3. Greedy
  BY <1>1 DEF Greedy
<1>4. Voiced
  BY <1>1 DEF Voiced
<1>5. QED BY <1>1, <1>2, <1>3, <1>4 DEF Packed

\* sort.Slice loses no row and repeats none.
LEMMA OrderIsLaid ==
  ASSUME IsFiniteSet(Key), NEW order \in SetToSeqs(Filled)
  PROVE  /\ order \in Seq(Filled)
         /\ \A k \in Filled : \E i \in DOMAIN order : order[i] = k
         /\ \A i, j \in DOMAIN order : order[i] = order[j] => i = j
<1> DEFINE n == Cardinality(Filled)
<1>1. IsFiniteSet(Filled) /\ n \in Nat
  BY FS_Subset, FS_CardinalityType DEF Filled
<1>2. order \in [1 .. n -> Filled] /\ \A i, j \in 1 .. n : i # j => order[i] # order[j]
  BY DEF SetToSeqs
<1> HIDE DEF n
<1>3. order \in Injection(1 .. n, Filled)
  <2>1. \A i, j \in 1 .. n : order[i] = order[j] => i = j
    BY <1>2
  <2>2. QED BY <1>2, <2>1 DEF Injection, IsInjective
<1>4. IsFiniteSet(1 .. n) /\ Cardinality(1 .. n) = n
  <2>1. /\ IsFiniteSet(1 .. n)
        /\ Cardinality(1 .. n) = IF 1 > n THEN 0 ELSE n - 1 + 1
    BY <1>1, FS_Interval
  <2>2. QED BY <1>1, <2>1
<1>5. order \in Surjection(1 .. n, Filled)
  BY <1>1, <1>3, <1>4, FS_Injection DEF n
<1>6. QED
  BY <1>1, <1>2, <1>5 DEF Surjection

LEMMA CoveredIs ==
  ASSUME Tiled
  PROVE  /\ Covered \in Nat
         /\ Covered + 1 = IF parts = <<>> THEN 1 ELSE Last(parts)[2] + 1
<1>1. CASE parts = <<>>
  BY <1>1 DEF Covered
<1>2. CASE parts # <<>>
  <2>1. parts[Len(parts)] \in Nat \X Nat
    BY <1>2 DEF Tiled
  <2>2. QED BY <1>2, <2>1 DEF Covered, Last
<1>3. QED BY <1>1, <1>2

\* splitIntoParts goes on where the last part ended and as far as rows fit.
LEMMA PackTiles ==
  ASSUME Tiled, Greedy, Len(rows) \in Nat, UNCHANGED <<input, bucket, rows>>,
         NEW start, start = Covered + 1,
         NEW end \in start .. Len(rows), parts' = Append(parts, <<start, end>>),
         \A e \in start + 1 .. end : Fits(start, e),
         end < Len(rows) => ~Fits(start, end + 1)
  PROVE  Tiled' /\ Greedy'
<1>1. Covered \in Nat /\ start \in Nat /\ end \in Nat
  BY CoveredIs
<1> DEFINE n == Len(parts)
<1>2. /\ n \in Nat /\ DOMAIN parts = 1 .. n
      /\ parts' \in Seq(Nat \X Nat) /\ DOMAIN parts' = 1 .. n + 1 /\ Len(parts') = n + 1
      /\ parts'[n + 1] = <<start, end>> /\ parts'[n + 1][1] = start /\ parts'[n + 1][2] = end
      /\ \A p \in 1 .. n : parts'[p] = parts[p]
  <2> DEFINE row == <<start, end>>
  <2>1. parts \in Seq(Nat \X Nat) /\ row \in Nat \X Nat
    BY <1>1 DEF Tiled
  <2>2. row[1] = start /\ row[2] = end
    OBVIOUS
  <2> HIDE DEF row
  <2>3. /\ n \in Nat /\ DOMAIN parts = 1 .. n
        /\ parts' \in Seq(Nat \X Nat) /\ Len(parts') = n + 1 /\ parts'[n + 1] = row
        /\ \A p \in 1 .. n : parts'[p] = parts[p]
    BY <2>1 DEF row
  <2>4. DOMAIN parts' = 1 .. n + 1
    BY <2>3
  <2>5. QED BY <2>2, <2>3, <2>4 DEF row
<1>3. Covered' = end
  BY <1>2 DEF Covered, Last
<1> HIDE DEF n
<1>4. \A p \in 1 .. n : /\ parts[p][1] \in Nat /\ parts[p][2] \in Nat
                        /\ 1 <= parts[p][1] /\ parts[p][1] <= parts[p][2]
                        /\ parts[p][2] <= Covered
  <2>1. \A p \in 1 .. n : parts[p] \in Nat \X Nat
    BY <1>2 DEF Tiled
  <2>2. QED BY <1>2, <2>1 DEF Tiled
<1>5. \A p \in DOMAIN parts' : p \in 1 .. n \/ p = n + 1
  BY <1>2
<1>6. Tiled'
  <2>1. \A p \in DOMAIN parts' : /\ 1 <= parts'[p][1] /\ parts'[p][1] <= parts'[p][2]
                                 /\ parts'[p][2] <= Covered'
    <3> TAKE p \in DOMAIN parts'
    <3>1. CASE p \in 1 .. n
      <4>1. parts'[p] = parts[p]
        BY <1>2, <3>1
      <4>2. QED BY <1>1, <1>3, <1>4, <3>1, <4>1
    <3>2. CASE p = n + 1
      BY <1>1, <1>2, <1>3, <3>2
    <3>3. QED BY <1>5, <3>1, <3>2
  <2>2. \A p, q \in DOMAIN parts' : p < q => parts'[p][2] < parts'[q][1]
    <3> SUFFICES ASSUME NEW p \in DOMAIN parts', NEW q \in DOMAIN parts', p < q
                 PROVE  parts'[p][2] < parts'[q][1]
      OBVIOUS
    <3>1. p \in 1 .. n
      BY <1>2
    <3>2. parts'[p] = parts[p]
      BY <1>2, <3>1
    <3>3. CASE q \in 1 .. n
      BY <1>2, <3>1, <3>2, <3>3 DEF Tiled
    <3>4. CASE q = n + 1
      <4>1. parts'[q][1] = start
        BY <1>2, <3>4
      <4>2. QED BY <1>1, <1>4, <3>1, <3>2, <4>1
    <3>5. QED BY <1>5, <3>3, <3>4
  <2>3. \A i \in 1 .. Covered' : \E p \in DOMAIN parts' : parts'[p][1] <= i /\ i <= parts'[p][2]
    <3> TAKE i \in 1 .. Covered'
    <3>1. CASE i <= Covered
      <4>1. PICK p \in 1 .. n : parts[p][1] <= i /\ i <= parts[p][2]
        <5>1. i \in 1 .. Covered
          BY <1>1, <3>1
        <5>2. QED BY <1>2, <5>1 DEF Tiled
      <4>2. p \in DOMAIN parts' /\ parts'[p] = parts[p]
        BY <1>2, <4>1
      <4>3. QED BY <4>1, <4>2
    <3>2. CASE i > Covered
      <4>1. n + 1 \in DOMAIN parts'
        BY <1>2
      <4>2. start <= i /\ i <= end
        BY <1>1, <1>3, <3>2
      <4>3. QED BY <1>2, <4>1, <4>2
    <3>3. QED BY <1>1, <1>3, <3>1, <3>2
  <2>4. Covered' <= Len(rows')
    BY <1>1, <1>3
  <2>5. parts' \in Seq(Nat \X Nat)
    BY <1>2
  <2>6. QED BY <2>1, <2>2, <2>3, <2>4, <2>5, Zenon DEF Tiled
<1>7. Greedy'
  <2>1. \A a, b : Fits(a, b)' <=> Fits(a, b)
    BY DEF Fits, PartLen, Span, TagsOf, ShowsDelta
  <2>2. ASSUME NEW p \in DOMAIN parts'
        PROVE  /\ \A e \in parts'[p][1] + 1 .. parts'[p][2] : Fits(parts'[p][1], e)
               /\ parts'[p][2] < Len(rows) => ~Fits(parts'[p][1], parts'[p][2] + 1)
    <3>1. CASE p \in 1 .. n
      BY <1>2, <3>1 DEF Greedy
    <3>2. CASE p = n + 1
      <4>1. parts'[p][1] = start /\ parts'[p][2] = end
        BY <1>2, <3>2
      <4>2. QED BY <4>1
    <3>3. QED BY <1>5, <3>1, <3>2
  <2>3. QED BY <2>1, <2>2 DEF Greedy
<1>8. QED BY <1>6, <1>7

LEMMA FoldVoices ==
  ASSUME Rows, Rows', Voiced, NEW s \in Snap, Fold(s)
  PROVE  Voiced'
<1> DEFINE x == KeyOfSnap(s)
           old == bucket[x].triggers
<1>1. /\ folded' = folded \cup {s} /\ folded \subseteq Snap
      /\ bucket \in [Key -> Alert \cup {NoAlert}]
      /\ x \in Key
  BY DigestAssumption DEF Fold, Rows, Folding, KeyOfSnap
<1>2. /\ bucket'[x].triggers = old \cup {TriggerOf[s]}
      /\ \A k \in Key : k # x => bucket'[k] = bucket[k]
  <2>1. PICK r, a, won :
          /\ bucket' = [bucket EXCEPT ![x] = r]
          /\ r = Heard(a, s, won)
          /\ a.triggers = old
    <3> DEFINE victor == bucket[x] = NoAlert \/ Beats(x, price[SourceOf[s]], bucket[x].price)
               base == IF victor THEN Replaced(bucket[x], s) ELSE bucket[x]
    <3>1. bucket' = [bucket EXCEPT ![x] = Heard(base, s, victor)]
      BY DEF Fold
    <3>2. base.triggers = old
      <4>1. Replaced(bucket[x], s).triggers = old
        BY DEF Replaced
      <4>2. QED BY <4>1, Zenon
    <3> HIDE DEF base, victor
    <3>3. QED BY <3>1, <3>2, Zenon
  <2>2. r.triggers = old \cup {TriggerOf[s]}
    BY <2>1 DEF Heard
  <2> HIDE DEF x
  <2>3. bucket'[x] = r /\ \A k \in Key : k # x => bucket'[k] = bucket[k]
    BY <1>1, <2>1
  <2>4. QED BY <2>2, <2>3
<1>3. bucket'[x] # NoAlert
  <2>1. s \in FoldedInto(x)'
    BY <1>1 DEF FoldedInto, KeyOfSnap
  <2>2. QED BY <1>1, <2>1 DEF Rows, EmptyIsUnfolded
<1>4. ASSUME NEW t \in folded'
      PROVE  bucket'[KeyOfSnap(t)] # NoAlert /\ TriggerOf[t] \in bucket'[KeyOfSnap(t)].triggers
  <2> DEFINE y == KeyOfSnap(t)
  <2>1. t = s \/ t \in folded
    BY <1>1
  <2>2. y \in Key
    BY <1>1, <2>1, DigestAssumption DEF KeyOfSnap
  <2>3. t \in folded => bucket[y] # NoAlert /\ TriggerOf[t] \in bucket[y].triggers
    BY DEF Voiced
  <2>4. CASE t = s
    BY <1>2, <1>3, <2>4
  <2>5. CASE t \in folded /\ y = x
    <3>1. TriggerOf[t] \in old
      BY <2>3, <2>5
    <3>2. QED BY <1>2, <1>3, <2>5, <3>1
  <2>6. CASE t \in folded /\ y # x
    BY <1>2, <2>2, <2>3, <2>6
  <2>7. QED BY <2>1, <2>4, <2>5, <2>6
<1>5. QED
  BY <1>4 DEF Voiced, KeyOfSnap

LEMMA PackedStep ==
  ASSUME Rows, Packed, [Next]_vars
  PROVE  Packed'
<1>1. Rows'
  BY NextRows
<1>2. ASSUME NEW s \in Snap, Fold(s) PROVE Packed'
  <2>1. /\ stage = "fold" /\ stage' = "fold" /\ parts = <<>> /\ rows = <<>>
        /\ parts' = <<>> /\ rows' = <<>> /\ DOMAIN parts' = {} /\ Len(rows') = 0
    BY <1>2 DEF Fold, Packed
  <2>2. Voiced'
    BY <1>1, <1>2, FoldVoices DEF Packed
  <2>3. Tiled'
    BY <2>1 DEF Tiled, Covered
  <2>4. Greedy'
    BY <2>1 DEF Greedy
  <2>5. QED BY <2>1, <2>2, <2>3, <2>4 DEF Packed
<1>3. CASE Flatten
  <2>1. /\ stage = "fold" /\ stage' = "pack" /\ parts = <<>> /\ parts' = <<>>
        /\ DOMAIN parts' = {} /\ UNCHANGED <<folded, bucket>>
    BY <1>3 DEF Flatten, Packed
  <2>2. PICK order \in SetToSeqs(Filled) : rows' = order
    BY <1>3 DEF Flatten
  <2>3. Filled' = Filled
    BY <2>1 DEF Filled
  <2>4. IsFiniteSet(Key)
    BY DigestAssumption
  <2>5. Laid'
    BY <2>2, <2>3, <2>4, OrderIsLaid DEF Laid
  <2>6. Len(rows') \in Nat
    BY <2>5 DEF Laid
  <2>7. Tiled'
    BY <2>1, <2>6 DEF Tiled, Covered
  <2>8. Greedy'
    BY <2>1 DEF Greedy
  <2>9. Voiced'
    BY <2>1 DEF Packed, Voiced, KeyOfSnap
  <2>10. QED BY <2>1, <2>5, <2>7, <2>8, <2>9 DEF Packed
<1>4. CASE Pack
  <2>1. /\ stage = "pack" /\ UNCHANGED <<input, folded, bucket, rows>>
        /\ Laid /\ Tiled /\ Greedy /\ Voiced
    BY <1>4 DEF Pack, Packed
  <2>2. Laid' /\ Voiced'
    BY <2>1 DEF Laid, Filled, Voiced, KeyOfSnap
  <2>3. Len(rows) \in Nat /\ Covered \in Nat /\ Covered <= Len(rows)
    BY <2>1, CoveredIs DEF Laid, Tiled
  <2> DEFINE start == IF parts = <<>> THEN 1 ELSE Last(parts)[2] + 1
  <2>4. start = Covered + 1
    BY <2>1, CoveredIs
  <2>5. CASE start > Len(rows)
    <3>1. stage' = "done" /\ UNCHANGED parts
      BY <1>4, <2>5 DEF Pack
    <3>2. Covered = Len(rows) /\ Covered' = Covered
      BY <2>3, <2>4, <2>5, <3>1 DEF Covered
    <3>3. Tiled' /\ Greedy'
      <4>1. UNCHANGED <<rows, parts, bucket>>
        BY <2>1, <3>1
      <4>2. Tiled' = Tiled /\ Greedy' = Greedy
        BY <4>1 DEF Tiled, Covered, Greedy, Fits, PartLen, Span, TagsOf, ShowsDelta
      <4>3. QED BY <2>1, <4>2
    <3>4. QED BY <2>1, <2>2, <3>1, <3>2, <3>3 DEF Packed
  <2>6. CASE ~(start > Len(rows))
    <3>1. /\ stage' = "pack"
          /\ \E end \in start .. Len(rows) :
               /\ \A e \in start + 1 .. end : Fits(start, e)
               /\ end < Len(rows) => ~Fits(start, end + 1)
               /\ parts' = Append(parts, <<start, end>>)
      BY <1>4, <2>1, <2>6 DEF Pack
    <3> HIDE DEF start
    <3>2. Tiled' /\ Greedy'
      <4>1. PICK end \in start .. Len(rows) :
               /\ \A e \in start + 1 .. end : Fits(start, e)
               /\ end < Len(rows) => ~Fits(start, end + 1)
               /\ parts' = Append(parts, <<start, end>>)
        BY <3>1
      <4>2. UNCHANGED <<input, bucket, rows>>
        BY <2>1
      <4>3. Tiled /\ Greedy /\ Len(rows) \in Nat /\ start = Covered + 1
        BY <2>1, <2>3, <2>4
      <4>4. QED BY <4>1, <4>2, <4>3, PackTiles, Zenon
    <3>3. QED BY <2>2, <3>1, <3>2 DEF Packed
  <2>7. QED BY <2>5, <2>6
<1>5. CASE UNCHANGED vars
  <2>1. UNCHANGED <<price, baseline, folded, bucket, stage, rows, parts>>
    BY <1>5 DEF vars
  <2>2. Voiced' = Voiced /\ Tiled' = Tiled /\ Greedy' = Greedy /\ Laid' = Laid /\ Covered' = Covered
    BY <2>1 DEF Voiced, KeyOfSnap, Tiled, Covered, Greedy, Laid, Filled, Fits, PartLen, Span, TagsOf, ShowsDelta
  <2>3. QED BY <2>1, <2>2 DEF Packed
<1>6. QED
  BY <1>2, <1>3, <1>4, <1>5 DEF Next

LEMMA PackedAlways == Spec => [](Rows /\ Packed)
<1>1. Init => Rows /\ Packed
  BY InitRows, PackedInit
<1>2. Rows /\ Packed /\ [Next]_vars => (Rows /\ Packed)'
  BY NextRows, PackedStep
<1>3. QED
  BY <1>1, <1>2, PTL DEF Spec
-----------------------------------------------------------------------------
\* Every row is in one part, and only in one.
LEMMA OnePart ==
  ASSUME Tiled, Covered = Len(rows), rows \in Seq(Key), NEW i \in DOMAIN rows,
         \A j \in DOMAIN rows : rows[j] = rows[i] => j = i
  PROVE  \E p \in DOMAIN parts :
           {q \in DOMAIN parts : rows[i] \in Span(parts[q][1], parts[q][2])} = {p}
<1>1. DOMAIN rows = 1 .. Len(rows) /\ Len(rows) \in Nat
  OBVIOUS
<1>2. PICK p \in DOMAIN parts : parts[p][1] <= i /\ i <= parts[p][2]
  BY <1>1 DEF Tiled
<1>3. \A q \in DOMAIN parts : parts[q] \in Nat \X Nat /\ parts[q][1] >= 1 /\ parts[q][2] <= Len(rows)
  BY DEF Tiled
<1>4. rows[i] \in Span(parts[p][1], parts[p][2])
  BY <1>1, <1>2, <1>3 DEF Span
<1>5. ASSUME NEW q \in DOMAIN parts, rows[i] \in Span(parts[q][1], parts[q][2])
      PROVE  q = p
  <2>1. PICK j \in parts[q][1] .. parts[q][2] : rows[j] = rows[i]
    BY <1>5 DEF Span
  <2>2. j \in DOMAIN rows
    BY <1>1, <1>3, <2>1
  <2>3. j = i
    BY <2>1, <2>2
  <2>4. parts[q][1] <= i /\ i <= parts[q][2]
    BY <1>1, <1>3, <2>1, <2>3
  <2>5. p \in Nat /\ q \in Nat
    <3>1. DOMAIN parts = 1 .. Len(parts)
      BY DEF Tiled
    <3>2. QED BY <3>1
  <2>6. ~(p < q) /\ ~(q < p)
    <3>1. p < q => parts[p][2] < parts[q][1]
      BY DEF Tiled
    <3>2. q < p => parts[q][2] < parts[p][1]
      BY DEF Tiled
    <3>3. QED BY <1>1, <1>2, <1>3, <2>4, <3>1, <3>2
  <2>7. QED BY <2>5, <2>6
<1>6. QED BY <1>4, <1>5

LEMMA HeardWhenDone == Rows /\ Packed => EveryTriggerHeard
<1> SUFFICES ASSUME Rows, Packed, stage = "done", NEW s \in folded
             PROVE  LET with == {p \in DOMAIN parts :
                                   KeyOfSnap(s) \in Span(parts[p][1], parts[p][2])}
                    IN  /\ Cardinality(with) = 1
                        /\ \A p \in with : TriggerOf[s] \in TagsOf(parts[p][1], parts[p][2])
  BY DEF EveryTriggerHeard
<1> DEFINE x == KeyOfSnap(s)
           with == {p \in DOMAIN parts : x \in Span(parts[p][1], parts[p][2])}
<1>1. x \in Filled /\ TriggerOf[s] \in bucket[x].triggers
  <2>1. x \in Key
    BY DigestAssumption DEF Rows, Folding, KeyOfSnap
  <2>2. QED BY <2>1 DEF Packed, Voiced, Filled
<1>2. Laid /\ Tiled /\ Covered = Len(rows)
  BY DEF Packed
<1>3. PICK i \in DOMAIN rows : rows[i] = x
  BY <1>1, <1>2 DEF Laid
<1>4. PICK p \in DOMAIN parts : with = {p}
  <2>1. rows \in Seq(Key)
    BY <1>2 DEF Laid, Filled
  <2>2. \A j \in DOMAIN rows : rows[j] = rows[i] => j = i
    BY <1>2 DEF Laid
  <2> HIDE DEF x
  <2>3. QED BY <1>2, <1>3, <2>1, <2>2, OnePart
<1>5. Cardinality(with) = 1
  BY <1>4, FS_Singleton
<1>6. \A q \in with : TriggerOf[s] \in TagsOf(parts[q][1], parts[q][2])
  BY <1>1 DEF TagsOf
<1>7. QED BY <1>5, <1>6

\* When a message is done, every subscription that fired has its row in exactly one
\* part, and that part carries the hashtag of its condition, whoever won the row
\* (foldIntoBuckets, splitIntoParts, buildPart).
THEOREM NobodyIsDropped == Spec => []EveryTriggerHeard
  BY PackedAlways, HeardWhenDone, PTL
-----------------------------------------------------------------------------
\* Whatever way of cutting the rows fits, it has a cut inside each part: a part stops
\* only where one more row is too long, and a longer part is never shorter in text.
LEMMA CutInEachPart ==
  ASSUME Folding, Laid, Tiled, Greedy, Covered = Len(rows),
         NEW c \in Cuts(Len(rows)),
         \A q \in PartsOf(c) : q[1] < q[2] => PartLen(q[1], q[2]) <= MaxLen,
         NEW p \in DOMAIN parts
  PROVE  \E i \in c : parts[p][1] <= i /\ i <= parts[p][2]
<1> DEFINE n == Len(rows)
           first == parts[p][1]
           last == parts[p][2]
<1>1. /\ n \in Nat /\ first \in Nat /\ last \in Nat
      /\ 1 <= first /\ first <= last /\ last <= n
  <2>1. parts[p] \in Nat \X Nat
    BY DEF Tiled
  <2>2. QED BY <2>1 DEF Tiled, Laid
<1>2. c \in SUBSET (1 .. n) /\ n \in c
  BY DEF Cuts
<1>3. last < n => ~Fits(first, last + 1)
  BY DEF Greedy
<1> HIDE DEF n, first, last
<1>inside. \A j \in c : j \in Nat /\ 1 <= j /\ j <= n
  BY <1>1, <1>2
<1>4. SUFFICES ASSUME \A i \in c : ~(first <= i /\ i <= last)
               PROVE  FALSE
  BY DEF first, last
<1>5. last < n
  BY <1>1, <1>2, <1>4
\* The part of the cut that holds the row after this part.
<1>6. PICK i \in c : i > last /\ \A j \in c : j > last => i <= j
  <2> DEFINE clear == {m \in 0 .. n : \A j \in c : ~(first <= j /\ j <= m)}
  <2>1. last \in clear /\ clear \in SUBSET (0 .. n)
    BY <1>1, <1>4
  <2>2. IsFiniteSet(0 .. n)
    BY <1>1, FS_Interval
  <2>3. IsFiniteSet(clear) /\ clear \in SUBSET Int
    BY <1>1, <2>1, <2>2, FS_Subset
  <2>4. PICK m \in clear : \A y \in clear : m >= y
    <3> HIDE DEF clear
    <3>1. QED BY <2>1, <2>3, GreatestExists
  <2>5. m \in 0 .. n /\ m >= last /\ \A j \in c : ~(first <= j /\ j <= m)
    BY <2>1, <2>4
  <2>6. m # n
    BY <1>1, <1>2, <2>5
  <2>7. m + 1 \in 0 .. n /\ m + 1 \notin clear
    BY <1>1, <2>4, <2>5, <2>6
  <2>8. PICK j \in c : first <= j /\ j <= m + 1
    BY <2>7
  <2>9. j = m + 1
    BY <1>1, <1>inside, <2>5, <2>8
  <2>10. j > last
    BY <1>1, <2>5, <2>9
  <2>11. ASSUME NEW k \in c, k > last PROVE j <= k
    BY <1>1, <1>inside, <2>5, <2>9, <2>11
  <2>12. QED BY <2>8, <2>10, <2>11
<1> DEFINE before == {j \in c : j < i} \cup {0}
           prev == Max(before)
<1>7. prev \in before
  <2>1. IsFiniteSet(c)
    <3>1. IsFiniteSet(1 .. n)
      BY <1>1, FS_Interval
    <3>2. QED BY <1>2, <3>1, FS_Subset
  <2>2. IsFiniteSet({j \in c : j < i})
    BY <2>1, FS_Subset
  <2>3. IsFiniteSet(before)
    BY <2>2, FS_AddElement
  <2>4. before \in SUBSET Int /\ before # {}
    BY <1>inside
  <2> HIDE DEF before
  <2>5. QED BY <2>3, <2>4, MaxIs
<1>8. <<prev + 1, i>> \in PartsOf(c)
  BY <1>6 DEF PartsOf
<1> HIDE DEF prev
<1>9. prev \in Nat /\ i \in Nat /\ i <= n /\ prev < first
  BY <1>1, <1>2, <1>4, <1>6, <1>7
<1>10. PartLen(prev + 1, i) <= MaxLen
  <2> DEFINE q == <<prev + 1, i>>
  <2>1. q[1] = prev + 1 /\ q[2] = i
    OBVIOUS
  <2>2. q[1] < q[2]
    BY <1>1, <1>6, <1>9
  <2>3. QED BY <1>8, <2>1, <2>2
<1>11. /\ PartLen(first, last + 1) \in Nat /\ PartLen(prev + 1, i) \in Nat
       /\ PartLen(first, last + 1) <= PartLen(prev + 1, i)
  <2>1. /\ prev + 1 \in Nat /\ last + 1 \in Nat
        /\ 1 <= prev + 1 /\ prev + 1 <= first /\ last + 1 <= i /\ i <= Len(rows)
    BY <1>1, <1>6, <1>9 DEF n
  <2>2. QED BY <1>1, <1>9, <2>1, PartLenGrows
<1>12. QED
  BY <1>3, <1>5, <1>10, <1>11, DigestAssumption DEF Fits

LEMMA FewestWhenDone == Rows /\ Packed => FewestParts
<1> SUFFICES ASSUME Rows, Packed, stage = "done" PROVE
      /\ \A p \in DOMAIN parts :
            parts[p][1] < parts[p][2] => Fits(parts[p][1], parts[p][2])
      /\ \A c \in Cuts(Len(rows)) :
            (\A q \in PartsOf(c) : q[1] < q[2] => PartLen(q[1], q[2]) <= MaxLen)
                => Len(parts) <= Cardinality(c)
  BY DEF FewestParts
<1>1. Folding /\ Laid /\ Tiled /\ Greedy /\ Covered = Len(rows)
  BY DEF Rows, Packed
<1>2. /\ \A p \in DOMAIN parts : parts[p] \in Nat \X Nat
      /\ DOMAIN parts = 1 .. Len(parts) /\ Len(parts) \in Nat /\ Len(rows) \in Nat
  BY <1>1 DEF Tiled, Laid
<1>3. ASSUME NEW p \in DOMAIN parts, parts[p][1] < parts[p][2]
      PROVE  Fits(parts[p][1], parts[p][2])
  <2>1. parts[p][1] \in Nat /\ parts[p][2] \in Nat
    BY <1>2
  <2>2. parts[p][2] \in parts[p][1] + 1 .. parts[p][2]
    BY <1>3, <2>1
  <2>3. QED BY <1>1, <2>2 DEF Greedy
<1>4. ASSUME NEW c \in Cuts(Len(rows)),
             \A q \in PartsOf(c) : q[1] < q[2] => PartLen(q[1], q[2]) <= MaxLen
      PROVE  Len(parts) <= Cardinality(c)
  <2> DEFINE f == [p \in DOMAIN parts |-> CHOOSE i \in c : parts[p][1] <= i /\ i <= parts[p][2]]
  <2>1. \A p \in DOMAIN parts : f[p] \in c /\ parts[p][1] <= f[p] /\ f[p] <= parts[p][2]
    <3> TAKE p \in DOMAIN parts
    <3>1. \E i \in c : parts[p][1] <= i /\ i <= parts[p][2]
      BY <1>1, <1>4, CutInEachPart
    <3>2. QED BY <3>1
  <2>2. f \in [DOMAIN parts -> c]
    BY <2>1
  <2>3. c \in SUBSET (1 .. Len(rows))
    BY DEF Cuts
  <2> HIDE DEF f
  <2>4. ASSUME NEW p \in DOMAIN parts, NEW q \in DOMAIN parts, f[p] = f[q]
        PROVE  p = q
    <3>1. /\ p \in Nat /\ q \in Nat /\ f[p] \in Nat
          /\ parts[p][1] \in Nat /\ parts[p][2] \in Nat
          /\ parts[q][1] \in Nat /\ parts[q][2] \in Nat
      BY <1>2, <2>1, <2>3
    <3>2. p < q => parts[p][2] < parts[q][1]
      BY <1>1 DEF Tiled
    <3>3. q < p => parts[q][2] < parts[p][1]
      BY <1>1 DEF Tiled
    <3>4. /\ parts[p][1] <= f[p] /\ f[p] <= parts[p][2]
          /\ parts[q][1] <= f[p] /\ f[p] <= parts[q][2]
      BY <2>1, <2>4
    <3>5. ~(p < q) /\ ~(q < p)
      BY <3>1, <3>2, <3>3, <3>4
    <3>6. QED BY <3>1, <3>5
  <2>5. f \in Injection(1 .. Len(parts), c)
    BY <1>2, <2>2, <2>4 DEF Injection, IsInjective
  <2>6. IsFiniteSet(c)
    <3>1. IsFiniteSet(1 .. Len(rows))
      BY <1>2, FS_Interval
    <3>2. QED BY <2>3, <3>1, FS_Subset
  <2>7. Cardinality(1 .. Len(parts)) <= Cardinality(c)
    BY <2>5, <2>6, FS_Injection
  <2>8. Cardinality(1 .. Len(parts)) = Len(parts)
    <3> DEFINE m == Len(parts)
    <3>0. m \in Nat
      BY <1>2
    <3> HIDE DEF m
    <3>1. Cardinality(1 .. m) = IF 1 > m THEN 0 ELSE m - 1 + 1
      BY <3>0, FS_Interval
    <3>2. Cardinality(1 .. m) = m
      BY <3>0, <3>1
    <3>3. QED BY <3>2 DEF m
  <2>9. QED BY <2>7, <2>8
<1>5. QED BY <1>3, <1>4

\* When a message is done, a part that is too long for Telegram is a single row, and no
\* other way of cutting the ordered rows into parts that fit takes fewer parts
\* (splitIntoParts packs greedily).
THEOREM GreedyIsBest == Spec => []FewestParts
  BY PackedAlways, FewestWhenDone, PTL
=============================================================================
