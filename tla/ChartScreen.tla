----------------------------- MODULE ChartScreen -----------------------------
(***************************************************************************)
(* The Mini App's chart screen with its pair modal and history             *)
(* (runRenderMeSubscriptions, MeSubscriptionsPage), and the guest's page   *)
(* with the public chart (runRenderPublicSubscriptions), over a server     *)
(* whose rate values grow and whose subscriptions may shrink meanwhile.    *)
(*                                                                         *)
(* WASM runs one goroutine at a time: a click handler is atomic up to its  *)
(* request, and what follows the answer is atomic too.  Job are the        *)
(* goroutines with a request in flight; the screen stays usable meanwhile. *)
(*                                                                         *)
(* The chart slot is redrawn with every change of Chart and ChartError, so *)
(* what it offers follows from the state.  The modal is redrawn only after *)
(* its own clicks and answers: modal is what the user sees and can click.  *)
(***************************************************************************)
EXTENDS Sparkline

CONSTANTS
    Job,            \* goroutines that fetch
    Period,         \* AllowedChartPeriods
    DefaultPeriod,  \* PublicChartDefaultPeriod
    NoPair, NoList,
    Stocks,         \* bound: sets of rows stored when a screen is opened
    MaxAsks,        \* bound: requests sent
    MaxCollects     \* bound: rows stored after that

ASSUME ChartScreenAssumption ==
    /\ DefaultPeriod \in Period
    /\ NoPair \notin Range(PairOrder)
    /\ Stocks \subseteq SUBSET AllRows
    /\ MaxAsks \in Nat /\ MaxCollects \in Nat

VARIABLES
    guest,          \* which of the two screens it is
    served,         \* the sources the chart is made of: subscribed, or active
    stored,         \* rate values on the server
    screen,         \* away, mounting (LoadInitial), ready, left
    job,            \* requests in flight
    period,         \* Period
    chart,          \* Chart, and Page of the guest
    chartLoading, chartError,
    open,           \* OpenPair
    historyOpen,    \* HistoryOpen
    list,           \* HistoryItems, with what they were asked for
    page, total,    \* HistoryPage, HistoryTotal
    loading,        \* HistoryLoading
    historyError,   \* HistoryError: "no", "error" or "denied"
    filter,         \* SelectedSourceTitle
    known,          \* KnownSources
    denied,         \* AuthFailure, as a history request sets it; nothing reads it later
    modal,          \* the modal as drawn
    locked,         \* the page behind the modal does not scroll
    asks, collects, \* requests and rows so far
    over            \* history: a row was opened over an open history

chartVars == <<period, chart, chartLoading, chartError>>
historyVars == <<historyOpen, list, page, total, loading, historyError, filter, known>>
server == <<served, stored, collects>>
vars == <<guest, served, stored, screen, job, period, chart, chartLoading, chartError, open,
          historyOpen, list, page, total, loading, historyError, filter, known, denied,
          modal, locked, asks, collects, over>>

Pair == Range(PairOrder)
Titles == Range(Title)
Idle == [op |-> "idle"]
NoChart == [pairs |-> {}]
NoModal == [view |-> "none"]
InFlight(op) == {j \in Job : job[j].op = op}

Init ==
    /\ guest = FALSE
    /\ served = Source /\ stored = {}
    /\ screen = "away"
    /\ job = [j \in Job |-> Idle]
    /\ period = DefaultPeriod /\ chart = NoChart
    /\ chartLoading = FALSE /\ chartError = FALSE
    /\ open = NoPair
    /\ historyOpen = FALSE /\ list = NoList /\ page = 0 /\ total = 0
    /\ loading = FALSE /\ historyError = "no"
    /\ filter = AllTitles /\ known = {} /\ denied = FALSE
    /\ modal = NoModal /\ locked = FALSE
    /\ asks = 0 /\ collects = 0 /\ over = FALSE
-----------------------------------------------------------------------------
(* The server                                                              *)

Collect(r) ==
    /\ r \in AllRows \ stored
    /\ stored' = stored \cup {r}
    /\ \/ screen = "away" /\ UNCHANGED collects
       \/ screen # "away" /\ collects < MaxCollects /\ collects' = collects + 1
    /\ UNCHANGED <<guest, served, screen, job, chartVars, open, historyVars, denied, modal,
                   locked, asks, over>>

\* A subscription deleted in another tab, or a source switched off.
Withdraw(s) ==
    /\ served = Source
    /\ served' = served \ {s}
    /\ UNCHANGED <<guest, stored, screen, job, chartVars, open, historyVars, denied, modal,
                   locked, asks, collects, over>>
-----------------------------------------------------------------------------
(* What is drawn                                                           *)

ChartHas(c, p) == c # NoChart /\ p \in c.pairs
\* The rows of the chart list; the period chips are drawn with them.
DrawnRows == IF chart = NoChart \/ chartError THEN {} ELSE chart.pairs

\* RenderPairHistory: the chips, the body and the two buttons.
HistoryView(p) ==
    [pair |-> p, view |-> "history", filter |-> filter',
     chips |-> IF Cardinality(known') >= 2 THEN known' \cup {AllTitles} ELSE {},
     shows |-> IF loading' THEN NoList ELSE IF historyError' # "no" THEN NoList ELSE list',
     page |-> page', prev |-> page' > 1, next |-> HasNext(page', total')]

\* redrawModal, over the state the step leaves; the guest's has no history.
RedrawModal ==
    modal' = IF open' = NoPair \/ ~ChartHas(chart', open') THEN NoModal
             ELSE IF historyOpen' THEN HistoryView(open')
             ELSE [pair |-> open', view |-> "detail"]
-----------------------------------------------------------------------------
(* The chart                                                               *)

Ask(j, request) ==
    /\ job[j] = Idle /\ asks < MaxAsks
    /\ job' = [job EXCEPT ![j] = request]
    /\ asks' = asks + 1

\* The user's screen starts with LoadInitial, the guest's with the first page.
Enter(j) ==
    /\ screen = "away" /\ stored \in Stocks
    /\ \/ /\ screen' = "mounting"
          /\ UNCHANGED <<guest, job, chartLoading>>
       \/ /\ screen' = "ready" /\ guest' = TRUE /\ chartLoading' = TRUE
          /\ job' = [job EXCEPT ![j] = [op |-> "chart", period |-> period, page |-> 1]]
    /\ UNCHANGED <<server, period, chart, chartError, open, historyVars, denied, modal,
                   locked, asks, over>>

\* Whatever LoadInitial ends with, the chart is fetched next.
Mounted(j) ==
    /\ screen = "mounting" /\ screen' = "ready"
    /\ job[j] = Idle
    /\ job' = [job EXCEPT ![j] = [op |-> "chart", period |-> period, page |-> 1]]
    /\ chartLoading' = TRUE
    /\ UNCHANGED <<guest, server, period, chart, chartError, open, historyVars, denied, modal,
                   locked, asks, over>>

\* SetPeriod, on a period chip: the guest starts again at page 1.
SetPeriod(j, p) ==
    /\ screen = "ready" /\ DrawnRows # {}
    /\ Ask(j, [op |-> "chart", period |-> p, page |-> 1])
    /\ period' = p /\ chartLoading' = TRUE
    /\ UNCHANGED <<guest, server, screen, chart, chartError, open, historyVars, denied, modal,
                   locked, over>>

\* The guest's Prev, and Next when the page is full, stay drawn below an error.
LoadPage(j, p) ==
    /\ screen = "ready" /\ guest /\ chart # NoChart
    /\ \/ p = chart.page - 1 /\ p >= 1
       \/ p = chart.page + 1 /\ Cardinality(chart.pairs) >= PublicLimit
    /\ Ask(j, [op |-> "turn", period |-> period, page |-> p])
    /\ chartLoading' = TRUE
    /\ UNCHANGED <<guest, server, screen, period, chart, chartError, open, historyVars, denied,
                   modal, locked, over>>

\* What the server answers a request with.
Answer(r) ==
    IF r.op = "history" THEN History(stored, served, r.pair, r.title, r.page)
    ELSE [period |-> r.period, page |-> r.page,
          pairs |-> IF guest THEN PublicPage(served, r.page) ELSE MePairs(served)]

\* The server reads its tables; the answer is on its way.
Replied(r, answer) ==
    [f \in DOMAIN r \cup {"answer"} |-> IF f = "answer" THEN answer ELSE r[f]]
Waiting(j) == job[j] # Idle /\ "answer" \notin DOMAIN job[j]
Serve(j) ==
    /\ Waiting(j)
    /\ job' = [job EXCEPT ![j] = Replied(@, Answer(@))]
    /\ UNCHANGED <<guest, server, screen, chartVars, open, historyVars, denied, modal, locked,
                   asks, over>>
Answered(j, ops) == job[j].op \in ops /\ "answer" \in DOMAIN job[j]

\* ClosePairModal; HistoryLoading is left to the request in flight.
CloseState ==
    /\ open' = NoPair
    /\ historyOpen' = FALSE /\ list' = NoList /\ page' = 0 /\ total' = 0
    /\ historyError' = "no" /\ filter' = AllTitles /\ known' = {}

\* mutant of Stale: every answer is taken
NeverStale(request) == FALSE

\* An answer for a period left meanwhile is dropped.
Stale(request) == period # request.period

\* A fetched chart: dropped, or stored; a modal whose pair has gone is closed.
ChartArrives(j) ==
    /\ Answered(j, {"chart", "turn"})
    /\ chartLoading' = FALSE
    /\ LET answer == job[j].answer IN
        IF Stale(job[j])
        THEN UNCHANGED <<chart, chartError, open, historyVars>>
        ELSE /\ chart' = answer /\ chartError' = FALSE
             /\ IF open # NoPair /\ ~ChartHas(answer, open)
                THEN CloseState /\ UNCHANGED loading
                ELSE UNCHANGED <<open, historyVars>>
    /\ IF job[j].op = "turn" THEN RedrawModal ELSE UNCHANGED modal
    /\ job' = [job EXCEPT ![j] = Idle]
    /\ UNCHANGED <<guest, server, screen, period, denied, locked, asks, over>>

\* mutant of ChartFails: the loading mark is left
StillLoading(j) ==
    /\ job[j].op \in {"chart", "turn"}
    /\ chartError' = TRUE
    /\ job' = [job EXCEPT ![j] = Idle]
    /\ UNCHANGED <<guest, server, screen, period, chart, chartLoading, open, historyVars, denied,
                   modal, locked, asks, over>>

\* An error answer, a 401 or 15 seconds: no check whether it is still wanted.
ChartFails(j) ==
    /\ job[j].op \in {"chart", "turn"}
    /\ chartLoading' = FALSE /\ chartError' = TRUE
    /\ UNCHANGED <<period, chart, open, historyVars>>
    /\ IF job[j].op = "turn" THEN RedrawModal ELSE UNCHANGED modal
    /\ job' = [job EXCEPT ![j] = Idle]
    /\ UNCHANGED <<guest, server, screen, denied, locked, asks, over>>
-----------------------------------------------------------------------------
(* The modal                                                               *)

ModalOnly == UNCHANGED <<guest, server, screen, job, chartVars, denied, asks>>

\* A row of the list, by click or by Enter; the rows behind an open modal can still
\* be reached with the keyboard.
OpenPair(p) ==
    /\ screen = "ready" /\ p \in DrawnRows
    /\ open' = p /\ filter' = AllTitles /\ known' = {}
    /\ locked' = TRUE
    /\ over' = (over \/ historyOpen)
    /\ UNCHANGED <<historyOpen, list, page, total, loading, historyError>>
    /\ ModalOnly
    /\ RedrawModal

\* Close and Escape leave the history first.
CloseHistory ==
    /\ screen = "ready" /\ historyOpen
    /\ modal # NoModal \/ open # NoPair
    /\ historyOpen' = FALSE
    /\ UNCHANGED <<open, list, page, total, loading, historyError, filter, known, locked, over>>
    /\ ModalOnly
    /\ RedrawModal

\* mutant of ClosePair: the page stays locked
KeepLock ==
    /\ screen = "ready" /\ modal # NoModal
    /\ CloseState
    /\ UNCHANGED <<loading, locked, over>>
    /\ ModalOnly
    /\ RedrawModal

\* Close without a history and the backdrop, where there is a modal to click;
\* Escape, where a pair is open.
ClosePair ==
    /\ screen = "ready"
    /\ modal # NoModal \/ (open # NoPair /\ ~historyOpen)
    /\ CloseState /\ UNCHANGED loading
    /\ locked' = FALSE /\ over' = FALSE
    /\ ModalOnly
    /\ RedrawModal

\* LoadHistory up to its request.
Request(j, t, p) ==
    /\ Ask(j, [op |-> "history", pair |-> open, title |-> t, page |-> p])
    /\ loading' = TRUE

HistoryOnly == UNCHANGED <<guest, server, screen, chartVars, open, denied, modal, locked, over>>

\* The History button of the detail view; without a pair it does nothing.
OpenHistory(j) ==
    /\ screen = "ready" /\ ~guest /\ modal # NoModal /\ modal.view = "detail" /\ open # NoPair
    /\ Request(j, AllTitles, 1)
    /\ historyOpen' = TRUE /\ filter' = AllTitles /\ known' = {}
    /\ UNCHANGED <<list, page, total, historyError>>
    /\ HistoryOnly

\* Prev and Next as drawn; the page they lead to is counted from the state.
TurnHistory(j, p) ==
    /\ screen = "ready" /\ modal # NoModal /\ modal.view = "history" /\ open # NoPair
    /\ \/ modal.next /\ HasNext(page, total) /\ p = page + 1
       \/ modal.prev /\ page > 1 /\ p = page - 1
    /\ Request(j, filter, p)
    /\ UNCHANGED <<historyOpen, list, page, total, historyError, filter, known>>
    /\ HistoryOnly

\* SetHistorySourceTitle, on a chip.
FilterHistory(j, t) ==
    /\ screen = "ready" /\ modal # NoModal /\ modal.view = "history" /\ open # NoPair
    /\ t \in modal.chips
    /\ Request(j, t, 1)
    /\ filter' = t /\ page' = 1
    /\ UNCHANGED <<historyOpen, list, total, historyError, known>>
    /\ HistoryOnly

\* A history button drawn for what the state no longer offers only redraws the modal.
FruitlessClick ==
    /\ screen = "ready" /\ ~guest /\ modal # NoModal
    /\ \/ open = NoPair
       \/ modal.view = "history" /\ modal.next /\ ~HasNext(page, total)
       \/ modal.view = "history" /\ modal.prev /\ page <= 1
    /\ UNCHANGED <<open, historyVars, locked, over>>
    /\ ModalOnly
    /\ RedrawModal

\* mutant of Abandoned: only the pair is compared
OtherPair(request) == open # request.pair

\* The pair or the filter changed while the request was in flight.
Abandoned(request) == open # request.pair \/ filter # request.title

\* A page arrives: it is dropped, or shown.
HistoryArrives(j) ==
    /\ Answered(j, {"history"})
    /\ loading' = FALSE
    /\ LET r == job[j]
           titles == {r.answer.items[n].title : n \in DOMAIN r.answer.items}
       IN IF Abandoned(r)
          THEN UNCHANGED <<list, page, total, historyError, known, over>>
          ELSE /\ list' = [pair |-> r.pair, title |-> r.title, page |-> r.page]
               /\ page' = r.page /\ total' = r.answer.total
               /\ historyError' = "no" /\ known' = known \cup titles
               /\ over' = FALSE
    /\ UNCHANGED <<open, historyOpen, filter>>
    /\ job' = [job EXCEPT ![j] = Idle]
    /\ UNCHANGED <<guest, server, screen, chartVars, denied, locked, asks>>
    /\ RedrawModal

\* An error is kept whatever is open by now; a 401 closes the modal as well.
HistoryFails(j) ==
    /\ job[j].op = "history"
    /\ loading' = FALSE
    /\ \/ /\ historyError' = "error"
          /\ UNCHANGED <<open, historyOpen, list, page, total, filter, known, denied, over>>
       \/ /\ open' = NoPair
          /\ historyOpen' = FALSE /\ list' = NoList /\ page' = 0 /\ total' = 0
          /\ filter' = AllTitles /\ known' = {}
          /\ historyError' = "denied" /\ denied' = TRUE
          /\ over' = FALSE
    /\ job' = [job EXCEPT ![j] = Idle]
    /\ UNCHANGED <<guest, server, screen, chartVars, locked, asks>>
    /\ RedrawModal

\* The gear: the editor mounts, this screen's context is cancelled, its body unlocked.
Leave ==
    /\ screen = "ready" /\ ~guest
    /\ screen' = "left" /\ locked' = FALSE /\ modal' = NoModal
    /\ job' = [j \in Job |-> Idle]
    /\ UNCHANGED <<guest, server, chartVars, open, historyVars, denied, asks, over>>
-----------------------------------------------------------------------------
RequestStep(j) ==
    \/ Serve(j) \/ ChartArrives(j) \/ ChartFails(j) \/ HistoryArrives(j) \/ HistoryFails(j)

Next ==
    \/ \E r \in AllRows : Collect(r)
    \/ \E s \in Source : Withdraw(s)
    \/ \E p \in Pair : OpenPair(p)
    \/ CloseHistory \/ ClosePair \/ FruitlessClick \/ Leave
    \/ \E j \in Job :
        \/ Enter(j) \/ Mounted(j) \/ OpenHistory(j) \/ RequestStep(j)
        \/ \E p \in Period : SetPeriod(j, p)
        \/ \E p \in 1..(Cardinality(AllRows) + 1) : LoadPage(j, p) \/ TurnHistory(j, p)
        \/ \E t \in Titles \cup {AllTitles} : FilterHistory(j, t)

Spec == Init /\ [][Next]_vars
-----------------------------------------------------------------------------
(* Properties                                                              *)

\* The three properties about what the server answers are stated of the states before
\* a screen is opened: every set of rows is stored in one of them, and the answers
\* depend on nothing else.

\* A history page tells what was stored, for every pair, title filter and page: no entry
\* has a price of another provider, second or direction, none is missing, and every
\* delta is against the price right before it (ObtainMeHistory's grouping loops).
EntriesTrue == screen = "away" =>
    \A pair \in Pair, title \in Titles \cup {AllTitles}, p \in 1..Cardinality(stored) :
        EntriesRight(RawPage(stored, MatchingKeys(served, pair, title), p),
                     History(stored, served, pair, title, p).items)

\* Walking forward through a history, one page after the other, misses no stored row
\* although the collector stores rows between the pages, whatever seconds and ids
\* they get (ObtainHistoryForPairsPaged's ORDER BY, LIMIT and OFFSET).
WalkLeavesNoGap == screen = "away" =>
    \A pair \in Pair, before \in SUBSET stored, p \in 1..2 :
        NoGap(before, stored, MatchingKeys(served, pair, AllTitles), p)

\* A chart tells what was known when: no point shows a rate before it was stored, no
\* bucket is empty and no sample lost at an edge, also when samples share a second,
\* fall on an edge, or lie in the second that the period starts in; as long as the
\* query's LIMIT does not bite (buildSeriesRow, dedupeByTimestamp).
PointsTrue == screen = "away" =>
    \A now \in Nows, length \in Lengths :
        LET rows == {r \in stored : Instant(r) <= now}
        IN Cardinality(rows) <= RowsPerKey => PointsRight(rows, served, length, now)

ChartRequests == InFlight("chart") \cup InFlight("turn")

\* Every stored rate of a pair is on one of the pages Next leads to (history.go:71-72:
\* "Total reflects the filtered grouped count and pagination stays correct").
NothingOutOfReach == \A pair \in Pair :
    LET keys == MatchingKeys(served, pair, AllTitles)
        pages == PagesOffered(GroupedTotal(stored, keys))
    IN Matching(stored, keys) = UNION {Range(RawPage(stored, keys, p)) : p \in pages}

\* With no chart request in flight the chart is that of the chip that is lit, whatever
\* chips were clicked and in whatever order the answers came, or an error is shown.
ChartSettled == screen = "ready" /\ ChartRequests = {} /\ ~chartError =>
    chart # NoChart /\ chart.period = period

\* With no history request in flight the history on the screen is of the pair in the
\* title, the chip that is lit and the page number below it, unless a row was opened
\* over an open history (OpenPairModal leaves the old pair's items).
HistorySettled ==
    (modal # NoModal /\ InFlight("history") = {} /\ ~over) =>
        (modal.view = "history" /\ modal.shows # NoList =>
            modal.shows = [pair |-> modal.pair, title |-> modal.filter, page |-> modal.page])

\* A loading mark has a request behind it: nothing stays "Loading" for good.
LoadingEnds == screen = "ready" =>
    /\ chartLoading => ChartRequests # {}
    /\ loading => InFlight("history") # {}

\* The page behind scrolls again once the modal is gone, and not before; except where
\* the modal goes without a click: after a 401, when its pair has left the chart, or
\* when the guest turned the page below it.
LockedShowsModal ==
    /\ modal # NoModal => locked
    /\ locked /\ modal = NoModal => denied \/ guest \/ served # Source
=============================================================================
