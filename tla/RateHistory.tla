----------------------------- MODULE RateHistory -----------------------------
(***************************************************************************)
(* What the server answers about stored rate values: a page of one pair's  *)
(* history (ObtainMeHistory over ObtainHistoryForPairsPaged) and the rows  *)
(* of the chart on one page of the public list.                            *)
(*                                                                         *)
(* A stored row has an id, which stands for its price too, its source and  *)
(* its second.  Ids are unique; within a second their order is arbitrary.  *)
(***************************************************************************)
EXTENDS Naturals, Sequences, FiniteSets, SequencesExt, Sorting

CONSTANTS
    Source,         \* rate sources
    Title,          \* provider title of each source
    Kind,           \* "BID" or "ASK", of each source
    PairOf,         \* currency pair of each source
    PairOrder,      \* the pairs, in the order of ratepair.Less
    AllTitles,      \* no title filter
    HistoryLimit,   \* rows a history page reads
    PublicLimit,    \* rows a page of the public chart has
    AllRows         \* rows the collector may store

ASSUME RateHistoryAssumption ==
    /\ DOMAIN Title = Source /\ DOMAIN Kind = Source /\ DOMAIN PairOf = Source
    /\ \A s \in Source : Kind[s] \in {"BID", "ASK"} /\ Title[s] # AllTitles
    /\ \A s \in Source : PairOf[s] \in Range(PairOrder)
    /\ HistoryLimit \in Nat \ {0} /\ PublicLimit \in Nat \ {0}
    /\ \A r \in AllRows : r.source \in Source /\ r.time \in Nat /\ r.id \in Nat \ {0}
    /\ \A q, r \in AllRows : q.id = r.id => q = r
    /\ IsFiniteSet(AllRows) /\ IsFiniteSet(Source)

NoValue == 0            \* a price or delta that is not there

Newer(q, r) == q.time > r.time \/ (q.time = r.time /\ q.id > r.id)
NewestFirst(rows) == InOrder(rows, Newer)

\* The subscribed sources of a pair, and of a title when there is a filter.
MatchingKeys(subscribed, pair, title) ==
    {s \in subscribed : PairOf[s] = pair /\ title \in {AllTitles, Title[s]}}
Matching(rows, keys) == {r \in rows : r.source \in keys}

\* mutant of Offset: a page starts one row late
OffByOne(page) == (page - 1) * HistoryLimit + (page - 1)

Offset(page) == (page - 1) * HistoryLimit

\* Query 2: LIMIT and OFFSET count stored rows, newest first.
RawPage(rows, keys, page) ==
    LET sorted == NewestFirst(Matching(rows, keys))
    IN SubSeq(sorted, Offset(page) + 1, Min({Offset(page) + HistoryLimit, Len(sorted)}))

\* A history row stands for the observations of one provider in one second.
GroupOf(r) == <<Title[r.source], r.time>>

\* Query 3: the total shown to the user counts groups.
GroupedTotal(rows, keys) == Cardinality({GroupOf(r) : r \in Matching(rows, keys)})

\* The price of one direction in a group: the last of the page wins.
PriceIn(raw, group, kind) ==
    LET hits == {i \in DOMAIN raw : GroupOf(raw[i]) = group /\ Kind[raw[i].source] = kind}
    IN IF hits = {} THEN NoValue ELSE raw[Max(hits)].id

\* mutant of FirstOfGroup: every row starts a group of its own
EveryRow(raw) == DOMAIN raw

FirstOfGroup(raw) == {i \in DOMAIN raw : \A j \in 1..(i - 1) : GroupOf(raw[j]) # GroupOf(raw[i])}

\* Groups in the order their first rows have on the page.
Grouped(raw) ==
    LET starts == Picked(raw, FirstOfGroup(raw))
        Item(group) == [title |-> group[1], time |-> group[2],
                        bid |-> PriceIn(raw, group, "BID"),
                        ask |-> PriceIn(raw, group, "ASK")]
    IN [n \in DOMAIN starts |-> Item(GroupOf(starts[n]))]

\* mutant of PreviousIn: the delta is taken against any provider's price
AnyProvider(items, n, side) ==
    LET older == {m \in (n + 1)..Len(items) : items[m][side] # NoValue}
    IN IF older = {} THEN NoValue ELSE items[Min(older)][side]

\* What a delta is taken against: the next older price of the provider on the page.
PreviousIn(items, n, side) ==
    LET older == {m \in (n + 1)..Len(items) :
                     items[m].title = items[n].title /\ items[m][side] # NoValue}
    IN IF older = {} THEN NoValue ELSE items[Min(older)][side]

WithDeltas(items) ==
    LET From(n, side) == IF items[n][side] = NoValue THEN NoValue ELSE PreviousIn(items, n, side)
    IN [n \in DOMAIN items |->
           [title |-> items[n].title, time |-> items[n].time,
            bid |-> items[n].bid, bidFrom |-> From(n, "bid"),
            ask |-> items[n].ask, askFrom |-> From(n, "ask")]]

History(rows, subscribed, pair, title, page) ==
    LET keys == MatchingKeys(subscribed, pair, title)
    IN [total |-> GroupedTotal(rows, keys),
        items |-> WithDeltas(Grouped(RawPage(rows, keys, page)))]

\* What the client offers: Next while HistoryPage * HistoryLimit < HistoryTotal.
HasNext(page, total) == page * HistoryLimit < total
PagesOffered(total) == {p \in 1..(total + 1) : p = 1 \/ HasNext(p - 1, total)}
-----------------------------------------------------------------------------
\* ObtainMeChartForPeriod: one row for each pair of the subscribed sources.
MePairs(subscribed) == {PairOf[s] : s \in subscribed}

\* ObtainPublicChartForPeriod: the pairs of the active sources, cut into pages.
PublicPage(active, page) ==
    LET rows == SelectSeq(PairOrder, LAMBDA p : p \in MePairs(active))
    IN {rows[i] : i \in {n \in DOMAIN rows : (page - 1) * PublicLimit < n
                                             /\ n <= page * PublicLimit}}
-----------------------------------------------------------------------------
(* What makes an answer right                                              *)

\* The row an item's price came from.
Behind(raw, item, side, kind) ==
    \E n \in DOMAIN raw : /\ raw[n].id = item[side]
                          /\ Kind[raw[n].source] = kind
                          /\ GroupOf(raw[n]) = <<item.title, item.time>>

\* Items tell what the rows of their page do: newest first, one entry for a provider
\* and a second, every price under its own provider, second and direction, no stored
\* second missing, and a delta against the price of the same provider and direction
\* right before it on the page.
EntriesRight(raw, items) ==
    /\ \A m, n \in DOMAIN items : m < n =>
        /\ items[m].time >= items[n].time
        /\ items[m].title = items[n].title => items[m].time # items[n].time
    /\ \A n \in DOMAIN raw : \E m \in DOMAIN items :
        <<items[m].title, items[m].time>> = GroupOf(raw[n])
    /\ \A n \in DOMAIN items : \A side \in {"bid", "ask"} :
        LET kind == IF side = "bid" THEN "BID" ELSE "ASK"
            from == IF side = "bid" THEN items[n].bidFrom ELSE items[n].askFrom
            before == {m \in (n + 1)..Len(items) :
                          items[m].title = items[n].title /\ items[m][side] # NoValue}
        IN items[n][side] # NoValue =>
            /\ Behind(raw, items[n], side, kind)
            /\ from = NoValue <=> before = {}
            /\ from # NoValue => \E m \in before :
                from = items[m][side] /\ \A k \in before : items[k].time <= items[m].time

\* The pages up to p were read from the rows before, page p + 1 from the rows after:
\* what was there from the start and is newer than the end of the last page has been
\* on one of them.
NoGap(before, after, keys, p) ==
    LET read == UNION {Range(RawPage(before, keys, q)) : q \in 1..p}
        now == Range(RawPage(after, keys, p + 1))
    IN \A r \in Matching(before, keys) \ (read \cup now) : \A q \in now : Newer(q, r)
=============================================================================
