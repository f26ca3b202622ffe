------------------------------- MODULE Digest -------------------------------
(***************************************************************************)
(* The message one run of the notifier, or one request for a digest, makes *)
(* for one user: foldIntoBuckets collapses the user's snapshots to one row *)
(* per pair and kind, buildAlertMessage orders the rows, splitIntoParts    *)
(* packs them into parts that Telegram accepts, and singleSourceName names *)
(* the source the queued events are bound to.  Text is kept as its length. *)
(***************************************************************************)
EXTENDS Integers, FiniteSets, SequencesExt

CONSTANTS
    Snap,           \* the user's subscriptions that fired
    Source,         \* rate sources
    NoSource,       \* the empty source name
    Key,            \* base|quote|kind
    SourceOf,       \* the source of a subscription
    KeyOf,          \* the key of a source
    Bid,            \* keys of kind BID; the others are ASK
    Label,          \* alphabetic rank of the pair label of a key
    Trigger,        \* condition types
    TriggerOf,      \* the condition type of a subscription
    PairWidth, ValueWidth, DeltaWidth,  \* widths of the columns of a row
    Header, Tag,    \* lengths of a part's frame and of one hashtag
    MaxLen,         \* telegramMaxMessageLen
    MaxPrice        \* bound: prices and baselines

ASSUME DigestAssumption ==
    /\ NoSource \notin Source
    /\ IsFiniteSet(Key) /\ IsFiniteSet(Trigger)
    /\ SourceOf \in [Snap -> Source] /\ KeyOf \in [Source -> Key]
    /\ Bid \subseteq Key /\ Label \in [Key -> Nat]
    /\ TriggerOf \in [Snap -> Trigger]
    /\ PairWidth \in [Key -> Nat] /\ ValueWidth \in [Key -> Nat]
    /\ DeltaWidth \in [Key -> Nat]
    /\ Header \in Nat /\ Tag \in Nat /\ MaxLen \in Nat /\ MaxPrice \in Nat

VARIABLES
    price,          \* current price of each source
    baseline,       \* LatestNotifiedRate of each subscription, 0 for none
    folded,         \* snapshots folded so far
    bucket,         \* userBuckets[user]: key -> alert and its triggers
    stage,          \* "fold", "pack" or "done"
    rows,           \* keys in row order
    parts,          \* message parts: <<first row, last row>>
    bound           \* the source the events are bound to

vars == <<price, baseline, folded, bucket, stage, rows, parts, bound>>
input == <<price, baseline>>

Price == 1 .. MaxPrice
NoAlert == [source |-> NoSource, price |-> 0, delta |-> 0, triggers |-> {}]
Alert == [source : Source, price : Price, delta : Int, triggers : SUBSET Trigger]
KeyOfSnap(s) == KeyOf[SourceOf[s]]

TypeOK ==
    /\ price \in [Source -> Price]
    /\ baseline \in [Snap -> Price \cup {0}]
    /\ folded \subseteq Snap
    /\ bucket \in [Key -> Alert \cup {NoAlert}]
    /\ stage \in {"fold", "pack", "done"}
    /\ rows \in Seq(Key)
    /\ parts \in Seq(Nat \X Nat)
    /\ bound \in Source \cup {NoSource}

Init ==
    /\ price \in [Source -> Price]
    /\ baseline \in [Snap -> Price \cup {0}]
    /\ folded = {}
    /\ bucket = [k \in Key |-> NoAlert]
    /\ stage = "fold"
    /\ rows = <<>> /\ parts = <<>> /\ bound = NoSource
-----------------------------------------------------------------------------
\* mutant of Beats: ASK keeps the maximum too
BeatsMax(k, new, old) == new > old

\* BID keeps the maximum, ASK the minimum; the first seen wins a tie.
Beats(k, new, old) == IF k \in Bid THEN new > old ELSE new < old

\* mutant of Replaced: the delta of the former winner stays
ReplacedPrice(a, s) == [a EXCEPT !.source = SourceOf[s], !.price = price[SourceOf[s]]]

\* Source, price and delta are replaced together.
Replaced(a, s) ==
    [source |-> SourceOf[s], price |-> price[SourceOf[s]],
     delta |-> price[SourceOf[s]] - baseline[s], triggers |-> a.triggers]

\* mutant of Heard: only the winner adds its trigger
HeardIfWon(a, s, won) ==
    [a EXCEPT !.triggers = IF won THEN @ \cup {TriggerOf[s]} ELSE @]

\* b.triggers[sub.ConditionType] is set; its collapsed value is never shown.
Heard(a, s, won) ==
    [source |-> a.source, price |-> a.price, delta |-> a.delta,
     triggers |-> a.triggers \cup {TriggerOf[s]}]

\* foldIntoBuckets for one snapshot, and the trigger that RateCheckAgent adds
\* whether or not the snapshot won.
Fold(s) ==
    /\ stage = "fold" /\ s \notin folded
    /\ folded' = folded \cup {s}
    /\ LET k == KeyOfSnap(s)
           won == bucket[k] = NoAlert \/ Beats(k, price[SourceOf[s]], bucket[k].price)
           a == IF won THEN Replaced(bucket[k], s) ELSE bucket[k]
       IN  bucket' = [bucket EXCEPT ![k] = Heard(a, s, won)]
    /\ UNCHANGED <<input, stage, rows, parts, bound>>

Filled == {k \in Key : bucket[k] # NoAlert}

\* singleSourceName
SingleSource ==
    LET names == {bucket[k].source : k \in Filled}
    IN  IF \E x \in names : names = {x} THEN CHOOSE x \in names : TRUE ELSE NoSource

\* sort.Slice by pair label; equal labels come in any order.
Flatten ==
    /\ stage = "fold" /\ folded # {}
    /\ \E order \in SetToSeqs(Filled) :
        /\ \A i, j \in DOMAIN order : i < j => Label[order[i]] <= Label[order[j]]
        /\ rows' = order
    /\ bound' = SingleSource
    /\ stage' = "pack"
    /\ UNCHANGED <<input, folded, bucket, parts>>

Span(first, last) == {rows[i] : i \in first .. last}
Widest(width, keys) == Max({width[k] : k \in keys} \cup {0})

\* A row shows its delta unless it is zero or there was no baseline.
ShowsDelta(k) == bucket[k].delta # 0 /\ bucket[k].delta # bucket[k].price

TagsOf(first, last) == UNION {bucket[k].triggers : k \in Span(first, last)}

\* buildPart: hashtags, then aligned rows; rows without a delta end early.
PartLen(first, last) ==
    LET keys == Span(first, last)
        changed == {k \in keys : ShowsDelta(k)}
    IN  Header + Tag * Cardinality(TagsOf(first, last))
        + (Widest(PairWidth, keys) + Widest(ValueWidth, keys)) * Cardinality(keys)
        + Widest(DeltaWidth, changed) * Cardinality(changed)

\* mutant of Fits: a full part is too long
FitsBelow(first, last) == PartLen(first, last) < MaxLen

Fits(first, last) == PartLen(first, last) <= MaxLen

\* splitIntoParts: one more part, with rows added while they fit.
Pack ==
    /\ stage = "pack"
    /\ LET start == IF parts = <<>> THEN 1 ELSE Last(parts)[2] + 1
       IN  IF start > Len(rows)
           THEN stage' = "done" /\ UNCHANGED parts
           ELSE /\ \E end \in start .. Len(rows) :
                    /\ \A e \in start + 1 .. end : Fits(start, e)
                    /\ end < Len(rows) => ~Fits(start, end + 1)
                    /\ parts' = Append(parts, <<start, end>>)
                /\ UNCHANGED stage
    /\ UNCHANGED <<input, folded, bucket, rows, bound>>

Next == (\E s \in Snap : Fold(s)) \/ Flatten \/ Pack

Spec == Init /\ [][Next]_vars
-----------------------------------------------------------------------------
(* Properties.                                                             *)

FoldedInto(k) == {s \in folded : KeyOfSnap(s) = k}

\* "Price and delta are always replaced together (coherent, from the same
\* source)": a row's source, price and change belong to one subscription.
Coherent ==
    \A k \in Filled : \E s \in FoldedInto(k) :
        /\ bucket[k].source = SourceOf[s]
        /\ bucket[k].price = price[SourceOf[s]]
        /\ bucket[k].delta = price[SourceOf[s]] - baseline[s]

\* "BID keeps MAX price, ASK keeps MIN", in whatever order sources come.
Extremal ==
    \A k \in Filled : \A s \in FoldedInto(k) :
        IF k \in Bid THEN bucket[k].price >= price[SourceOf[s]]
                     ELSE bucket[k].price <= price[SourceOf[s]]

\* Every subscription that fired is heard: its row is in exactly one part, and
\* that part carries the hashtag of its condition, whoever won the row.
EveryTriggerHeard ==
    stage = "done" =>
        \A s \in folded :
            LET with == {p \in DOMAIN parts : KeyOfSnap(s) \in Span(parts[p][1], parts[p][2])}
            IN  /\ Cardinality(with) = 1
                /\ \A p \in with : TriggerOf[s] \in TagsOf(parts[p][1], parts[p][2])

\* Ways to cut n rows into consecutive parts, as the set of their last rows.
Cuts(n) == {c \in SUBSET (1 .. n) : n \in c}
PartsOf(c) == {<<Max({j \in c : j < i} \cup {0}) + 1, i>> : i \in c}

\* A part that does not fit is a single row, and no other way of cutting the
\* rows into parts that fit takes fewer parts.
FewestParts ==
    stage = "done" =>
        /\ \A p \in DOMAIN parts :
              parts[p][1] < parts[p][2] => Fits(parts[p][1], parts[p][2])
        /\ \A c \in Cuts(Len(rows)) :
              (\A q \in PartsOf(c) : q[1] < q[2] => PartLen(q[1], q[2]) <= MaxLen)
                  => Len(parts) <= Cardinality(c)
=============================================================================
