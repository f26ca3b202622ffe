-------------------------- MODULE ChartScreenProofs --------------------------
(***************************************************************************)
(* Proofs about ChartScreen for any pairs, periods and sources, any number *)
(* of goroutines and requests, and whatever the server stores: the chart   *)
(* is that of the lit chip, the history that of the title, chip and page   *)
(* around it, no loading mark stays, and the page scrolls when it should.  *)
(* Then the laws of histories and charts: pages skip no row, entries and   *)
(* points tell what the rows do.                                           *)
(***************************************************************************)
EXTENDS ChartScreen, FiniteSetTheorems, FunctionTheorems, SequenceTheorems,
        WellFoundedInduction, NaturalsInduction, TLAPS

\* A request in flight, with or without its answer; the answer to a chart request is
\* for the period that was asked for.
Shaped(r) ==
    \/ r = Idle
    \/ /\ r.op \in {"chart", "turn"}
       /\ {"op", "period", "page"} \subseteq DOMAIN r
       /\ "answer" \in DOMAIN r => r.answer # NoChart /\ r.answer.period = r.period
    \/ /\ r.op = "history"
       /\ {"op", "pair", "title", "page"} \subseteq DOMAIN r

TypeOK ==
    /\ screen \in {"away", "mounting", "ready", "left"}
    /\ guest \in BOOLEAN /\ chartLoading \in BOOLEAN /\ chartError \in BOOLEAN
    /\ historyOpen \in BOOLEAN /\ loading \in BOOLEAN /\ denied \in BOOLEAN
    /\ locked \in BOOLEAN /\ over \in BOOLEAN
    /\ job = [j \in Job |-> job[j]]
    /\ \A j \in Job : Shaped(job[j])

\* Before a screen is ready and after it was left nothing is in flight or drawn.
Quiet ==
    /\ screen # "ready" => /\ \A j \in Job : job[j] = Idle
                           /\ modal = NoModal /\ ~locked
    /\ screen \in {"away", "mounting"} => /\ ~guest /\ ~loading /\ ~historyOpen
                                          /\ open = NoPair /\ chart = NoChart

\* The chart is that of the lit chip, or the answer that will be is on its way.
ChartOnItsWay == screen = "ready" /\ ~chartError =>
    \/ chart # NoChart /\ chart.period = period
    \/ \E j \in ChartRequests : job[j].period = period

\* As long as no subscription goes, every chart of the user's screen has all the pairs.
SamePairs == ~guest /\ served = Source =>
    /\ chart # NoChart => chart.pairs = MePairs(Source)
    /\ \A j \in Job : job[j].op # "turn"
    /\ \A j \in Job : Answered(j, {"chart"}) => job[j].answer.pairs = MePairs(Source)

\* A pair that is open is drawn, or was closed by something else than a click.
DrawnWhenOpen ==
    /\ open # NoPair /\ screen = "ready" => locked
    /\ modal # NoModal => locked
    /\ locked /\ ~guest /\ served = Source /\ ~denied =>
        open # NoPair /\ ChartHas(chart, open) /\ modal # NoModal

\* The items are those of the pair, chip and page of the state, or a request for this
\* pair and chip is in flight.
ItemsOnTheirWay ==
    screen = "ready" /\ ~over /\ historyOpen /\ open # NoPair
        /\ list # NoList /\ historyError = "no" =>
    \/ list = [pair |-> open, title |-> filter, page |-> page]
    \/ \E j \in InFlight("history") : job[j].pair = open /\ job[j].title = filter

IInv == /\ TypeOK /\ Quiet /\ ChartOnItsWay /\ LoadingEnds /\ SamePairs
        /\ DrawnWhenOpen /\ ItemsOnTheirWay /\ HistorySettled
-----------------------------------------------------------------------------
(* Requests and what a step does to them                                   *)

LEMMA IdleIs == Idle.op = "idle" /\ DOMAIN Idle = {"op"}
  BY DEF Idle

LEMMA IdleHasNoOther == ASSUME NEW r, r.op \in {"chart", "turn", "history"} PROVE r # Idle
  BY IdleIs

LEMMA Flags == ASSUME TypeOK
    PROVE  /\ screen \in {"away", "mounting", "ready", "left"}
           /\ guest \in BOOLEAN /\ chartLoading \in BOOLEAN /\ chartError \in BOOLEAN
           /\ historyOpen \in BOOLEAN /\ loading \in BOOLEAN /\ denied \in BOOLEAN
           /\ locked \in BOOLEAN /\ over \in BOOLEAN
  BY DEF TypeOK

\* One goroutine gets another request, the others keep theirs.
LEMMA PutAt ==
    ASSUME TypeOK, NEW j \in Job, NEW r, job' = [job EXCEPT ![j] = r]
    PROVE  /\ job'[j] = r
           /\ \A k \in Job \ {j} : job'[k] = job[k]
           /\ job' = [k \in Job |-> job'[k]]
<1>1. job = [k \in Job |-> job[k]]
  BY DEF TypeOK
<1> QED
  BY <1>1

LEMMA ChartRequest ==
    ASSUME NEW op \in {"chart", "turn"}, NEW p, NEW n
    PROVE  LET r == [op |-> op, period |-> p, page |-> n]
           IN Shaped(r) /\ r.op = op /\ r.period = p /\ "answer" \notin DOMAIN r
  BY DEF Shaped

LEMMA HistoryRequest ==
    ASSUME NEW p, NEW t, NEW n
    PROVE  LET r == [op |-> "history", pair |-> p, title |-> t, page |-> n]
           IN Shaped(r) /\ r.op = "history" /\ r.pair = p /\ r.title = t
  BY DEF Shaped

\* The answer to a chart request.
LEMMA ChartAnswer ==
    ASSUME NEW r, r.op \in {"chart", "turn"}
    PROVE  /\ Answer(r) # NoChart /\ Answer(r).period = r.period
           /\ ~guest => Answer(r).pairs = MePairs(served)
<1>1. Answer(r) = [period |-> r.period, page |-> r.page,
                   pairs |-> IF guest THEN PublicPage(served, r.page) ELSE MePairs(served)]
  BY DEF Answer
<1>2. DOMAIN NoChart = {"pairs"} /\ DOMAIN Answer(r) = {"period", "page", "pairs"}
  BY <1>1 DEF NoChart
<1> QED
  BY <1>1, <1>2

LEMMA RepliedIs ==
    ASSUME NEW r, NEW a
    PROVE  /\ DOMAIN Replied(r, a) = DOMAIN r \cup {"answer"}
           /\ Replied(r, a).answer = a
           /\ "op" \in DOMAIN r => Replied(r, a).op = r.op
           /\ "period" \in DOMAIN r => Replied(r, a).period = r.period
           /\ "pair" \in DOMAIN r => Replied(r, a).pair = r.pair
           /\ "title" \in DOMAIN r => Replied(r, a).title = r.title
  BY DEF Replied

LEMMA ServeIs ==
    ASSUME TypeOK, NEW j \in Job, Serve(j)
    PROVE  /\ job[j] # Idle /\ job'[j] = Replied(job[j], Answer(job[j]))
           /\ job'[j].op = job[j].op
           /\ job[j].op \in {"chart", "turn", "history"}
           /\ job[j].op \in {"chart", "turn"} => /\ job'[j].period = job[j].period
                                                 /\ job'[j].answer = Answer(job[j])
           /\ job[j].op = "history" => /\ job'[j].pair = job[j].pair
                                       /\ job'[j].title = job[j].title
           /\ Shaped(job'[j])
           /\ \A k \in Job \ {j} : job'[k] = job[k]
           /\ job' = [k \in Job |-> job'[k]]
<1> DEFINE r == job[j]
           a == Answer(r)
           s == Replied(r, a)
<1>1. Shaped(r) /\ r # Idle
  BY DEF TypeOK, Serve, Waiting
<1>2. job' = [job EXCEPT ![j] = s]
  BY DEF Serve
<1>3. job'[j] = s /\ (\A k \in Job \ {j} : job'[k] = job[k]) /\ job' = [k \in Job |-> job'[k]]
  BY <1>2, PutAt
<1> HIDE DEF s, a
<1>4. CASE r.op \in {"chart", "turn"}
  <2>1. {"op", "period", "page"} \subseteq DOMAIN r
    BY <1>1, <1>4, IdleHasNoOther DEF Shaped
  <2>2. s.op = r.op /\ s.period = r.period /\ s.answer = a /\ DOMAIN s = DOMAIN r \cup {"answer"}
    BY <2>1, RepliedIs DEF s
  <2>3. a # NoChart /\ a.period = r.period
    BY <1>4, ChartAnswer DEF a
  <2>4. Shaped(s)
    BY <1>4, <2>1, <2>2, <2>3 DEF Shaped
  <2> QED
    BY <1>1, <1>3, <1>4, <2>2, <2>4 DEF s, a
<1>5. CASE r.op = "history"
  <2>1. {"op", "pair", "title", "page"} \subseteq DOMAIN r
    BY <1>1, <1>5, IdleHasNoOther DEF Shaped
  <2>2. s.op = r.op /\ s.pair = r.pair /\ s.title = r.title /\ DOMAIN s = DOMAIN r \cup {"answer"}
    BY <2>1, RepliedIs DEF s
  <2>3. Shaped(s)
    BY <1>5, <2>1, <2>2 DEF Shaped
  <2> QED
    BY <1>1, <1>3, <1>5, <2>2, <2>3 DEF s, a
<1> QED
  BY <1>1, <1>4, <1>5 DEF Shaped

\* A goroutine without a request sends one, for the lit chip or for what is open.
Sends(j) ==
    /\ job[j] = Idle /\ Shaped(job'[j]) /\ job'[j] # Idle
    /\ \A k \in Job \ {j} : job'[k] = job[k]
    /\ job' = [k \in Job |-> job'[k]]
SendsChart(j) ==
    /\ Sends(j)
    /\ job'[j].op \in {"chart", "turn"} /\ job'[j].period = period'
    /\ "answer" \notin DOMAIN job'[j]
    /\ job'[j].op = "turn" => guest
SendsHistory(j) ==
    /\ Sends(j)
    /\ job'[j].op = "history" /\ job'[j].pair = open' /\ job'[j].title = filter'

\* A goroutine ends with its request.
Ends(j) ==
    /\ job'[j] = Idle
    /\ \A k \in Job \ {j} : job'[k] = job[k]
    /\ job' = [k \in Job |-> job'[k]]

LEMMA SendsIs ==
    ASSUME TypeOK, NEW j \in Job, job[j] = Idle, NEW op \in {"chart", "turn"}, NEW p, NEW n,
           job' = [job EXCEPT ![j] = [op |-> op, period |-> p, page |-> n]],
           p = period', op = "turn" => guest
    PROVE  SendsChart(j)
<1> DEFINE r == [op |-> op, period |-> p, page |-> n]
<1>1. job'[j] = r /\ (\A k \in Job \ {j} : job'[k] = job[k]) /\ job' = [k \in Job |-> job'[k]]
  BY PutAt
<1>2. Shaped(r) /\ r.op = op /\ r.period = p /\ "answer" \notin DOMAIN r
  BY ChartRequest
<1>3. r # Idle
  BY <1>2, IdleHasNoOther
<1> HIDE DEF r
<1> QED
  BY <1>1, <1>2, <1>3 DEF SendsChart, Sends

LEMMA EnterSends ==
    ASSUME TypeOK, Quiet, NEW j \in Job, Enter(j), screen' = "ready"
    PROVE  SendsChart(j)
<1>1. job[j] = Idle
  BY DEF Quiet, Enter
<1>2. job' = [job EXCEPT ![j] = [op |-> "chart", period |-> period, page |-> 1]] /\ period' = period
  BY DEF Enter
<1> QED
  BY <1>1, <1>2, SendsIs

LEMMA MountedSends ==
    ASSUME TypeOK, NEW j \in Job, Mounted(j)
    PROVE  SendsChart(j)
<1>1. /\ job' = [job EXCEPT ![j] = [op |-> "chart", period |-> period, page |-> 1]]
      /\ period' = period /\ job[j] = Idle
  BY DEF Mounted
<1> QED
  BY <1>1, SendsIs

LEMMA SetPeriodSends ==
    ASSUME TypeOK, NEW j \in Job, NEW p, SetPeriod(j, p)
    PROVE  SendsChart(j)
<1>1. /\ job' = [job EXCEPT ![j] = [op |-> "chart", period |-> p, page |-> 1]]
      /\ period' = p /\ job[j] = Idle
  BY DEF SetPeriod, Ask
<1> QED
  BY <1>1, SendsIs

LEMMA LoadPageSends ==
    ASSUME TypeOK, NEW j \in Job, NEW p, LoadPage(j, p)
    PROVE  SendsChart(j)
<1>1. /\ job' = [job EXCEPT ![j] = [op |-> "turn", period |-> period, page |-> p]]
      /\ period' = period /\ job[j] = Idle /\ guest
  BY DEF LoadPage, Ask
<1> QED
  BY <1>1, SendsIs

LEMMA RequestSends ==
    ASSUME TypeOK, NEW j \in Job, NEW t, NEW n, Request(j, t, n), t = filter', open' = open
    PROVE  SendsHistory(j)
<1> DEFINE r == [op |-> "history", pair |-> open, title |-> t, page |-> n]
<1>1. job' = [job EXCEPT ![j] = r] /\ job[j] = Idle
  BY DEF Request, Ask
<1>2. job'[j] = r /\ (\A k \in Job \ {j} : job'[k] = job[k]) /\ job' = [k \in Job |-> job'[k]]
  BY <1>1, PutAt
<1>3. Shaped(r) /\ r.op = "history" /\ r.pair = open /\ r.title = t
  BY HistoryRequest
<1>4. r # Idle
  BY <1>3, IdleHasNoOther
<1> HIDE DEF r
<1> QED
  BY <1>1, <1>2, <1>3, <1>4 DEF SendsHistory, Sends

\* A click in the modal that asks for a page of the history.
AsksHistory(j) ==
    \/ OpenHistory(j)
    \/ \E p \in 1..(Cardinality(AllRows) + 1) : TurnHistory(j, p)
    \/ \E t \in Titles \cup {AllTitles} : FilterHistory(j, t)

LEMMA AsksHistoryIs ==
    ASSUME TypeOK, NEW j \in Job, AsksHistory(j)
    PROVE  /\ SendsHistory(j) /\ screen = "ready" /\ loading' = TRUE
           /\ historyOpen' \in {historyOpen, TRUE}
           /\ UNCHANGED <<guest, server, screen, chartVars, open, denied, modal, locked, over>>
<1>1. ASSUME OpenHistory(j)
      PROVE  SendsHistory(j) /\ historyOpen' = TRUE
  BY <1>1, RequestSends DEF OpenHistory, HistoryOnly
<1>2. ASSUME NEW p, TurnHistory(j, p)
      PROVE  SendsHistory(j) /\ historyOpen' = historyOpen
  BY <1>2, RequestSends DEF TurnHistory, HistoryOnly
<1>3. ASSUME NEW t, FilterHistory(j, t)
      PROVE  SendsHistory(j) /\ historyOpen' = historyOpen
  BY <1>3, RequestSends DEF FilterHistory, HistoryOnly
<1>4. /\ screen = "ready" /\ loading' = TRUE
      /\ UNCHANGED <<guest, server, screen, chartVars, open, denied, modal, locked, over>>
  BY DEF AsksHistory, OpenHistory, TurnHistory, FilterHistory, HistoryOnly, Request
<1> QED
  BY <1>1, <1>2, <1>3, <1>4 DEF AsksHistory

LEMMA EndsIs ==
    ASSUME TypeOK, NEW j \in Job, ChartArrives(j) \/ ChartFails(j) \/ HistoryArrives(j) \/ HistoryFails(j)
    PROVE  Ends(j) /\ job[j] # Idle
<1>1. job' = [job EXCEPT ![j] = Idle]
  BY DEF ChartArrives, ChartFails, HistoryArrives, HistoryFails
<1>2. job[j].op \in {"chart", "turn", "history"}
  BY DEF ChartArrives, ChartFails, HistoryArrives, HistoryFails, Answered
<1>3. Ends(j)
  BY <1>1, PutAt DEF Ends
<1> QED
  BY <1>2, <1>3, IdleHasNoOther

\* A click in the modal without a request: the screen behind stays what it is.
Clicks == (\E p \in Pair : OpenPair(p)) \/ CloseHistory \/ ClosePair \/ FruitlessClick

LEMMA ClicksIs ==
    ASSUME Clicks
    PROVE  /\ screen = "ready" /\ RedrawModal /\ loading' = loading
           /\ UNCHANGED <<guest, served, stored, screen, job, period, chart, chartLoading,
                          chartError, denied, asks, collects>>
  BY DEF Clicks, OpenPair, CloseHistory, ClosePair, FruitlessClick, ModalOnly, CloseState,
         chartVars, historyVars, server

\* The steps of the program, by what they do to the requests in flight.
LEMMA Steps ==
    ASSUME Next
    PROVE  \/ \E r \in AllRows : Collect(r)
           \/ \E s \in Source : Withdraw(s)
           \/ Clicks \/ Leave
           \/ \E j \in Job : \/ Enter(j) \/ Mounted(j) \/ AsksHistory(j) \/ Serve(j)
                             \/ \E p \in Period : SetPeriod(j, p)
                             \/ \E p \in 1..(Cardinality(AllRows) + 1) : LoadPage(j, p)
                             \/ ChartArrives(j) \/ ChartFails(j)
                             \/ HistoryArrives(j) \/ HistoryFails(j)
  BY Zenon DEF Next, Clicks, AsksHistory, RequestStep
-----------------------------------------------------------------------------
(* Types, and the quiet screens                                            *)

LEMMA TypeStep ==
    ASSUME TypeOK, Quiet, [Next]_vars
    PROVE  TypeOK'
<1> DEFINE FlagsNext == /\ screen' \in {"away", "mounting", "ready", "left"}
                        /\ guest' \in BOOLEAN /\ chartLoading' \in BOOLEAN
                        /\ chartError' \in BOOLEAN /\ historyOpen' \in BOOLEAN
                        /\ loading' \in BOOLEAN /\ denied' \in BOOLEAN
                        /\ locked' \in BOOLEAN /\ over' \in BOOLEAN
           JobNext == job' = [j \in Job |-> job'[j]] /\ \A j \in Job : Shaped(job'[j])
<1>1. SUFFICES FlagsNext /\ JobNext
  BY DEF TypeOK
<1>2. job = [j \in Job |-> job[j]] /\ \A j \in Job : Shaped(job[j])
  BY DEF TypeOK
<1>3. Shaped(Idle)
  BY DEF Shaped
<1>4. job' = job => JobNext
  BY <1>2
<1>5. \A j \in Job : Sends(j) \/ Ends(j) => JobNext
  BY <1>2, <1>3 DEF Sends, Ends
<1> USE Flags DEF server, chartVars, historyVars
<1> HIDE DEF JobNext
<1>6. CASE UNCHANGED vars
  BY <1>4, <1>6 DEF vars
<1>7. CASE (\E r \in AllRows : Collect(r)) \/ (\E s \in Source : Withdraw(s))
  <2>1. UNCHANGED job
    BY <1>7 DEF Collect, Withdraw
  <2>2. FlagsNext
    BY <1>7 DEF Collect, Withdraw
  <2> QED
    BY <1>4, <2>1, <2>2
<1>8. CASE Clicks
  <2>1. FlagsNext
    BY <1>8 DEF Clicks, OpenPair, CloseHistory, ClosePair, FruitlessClick, ModalOnly, CloseState
  <2> QED
    BY <1>4, <1>8, <2>1, ClicksIs
<1>9. CASE Leave
  <2>1. JobNext
    BY <1>3, <1>9 DEF Leave, JobNext
  <2> QED
    BY <1>9, <2>1 DEF Leave
<1>10. ASSUME NEW j \in Job, Enter(j) PROVE FlagsNext /\ JobNext
  <2>1. screen' = "ready" => JobNext
    BY <1>5, <1>10, EnterSends DEF SendsChart
  <2>2. screen' # "ready" => JobNext
    BY <1>4, <1>10 DEF Enter
  <2> QED
    BY <1>10, <2>1, <2>2 DEF Enter
<1>11. ASSUME NEW j \in Job, Mounted(j) PROVE FlagsNext /\ JobNext
  BY <1>5, <1>11, MountedSends DEF SendsChart, Mounted
<1>12. ASSUME NEW j \in Job, NEW p, SetPeriod(j, p) \/ LoadPage(j, p)
       PROVE  FlagsNext /\ JobNext
  BY <1>5, <1>12, SetPeriodSends, LoadPageSends DEF SendsChart, SetPeriod, LoadPage
<1>13. ASSUME NEW j \in Job, AsksHistory(j) PROVE FlagsNext /\ JobNext
  BY <1>5, <1>13, AsksHistoryIs DEF SendsHistory
<1>14. ASSUME NEW j \in Job, Serve(j) PROVE FlagsNext /\ JobNext
  <2>1. JobNext
    BY <1>2, <1>14, ServeIs DEF JobNext
  <2> QED
    BY <1>14, <2>1 DEF Serve
<1>15. ASSUME NEW j \in Job, ChartArrives(j) \/ ChartFails(j) \/ HistoryArrives(j) \/ HistoryFails(j)
       PROVE  FlagsNext /\ JobNext
  <2>1. JobNext
    BY <1>5, <1>15, EndsIs
  <2>2. FlagsNext
    <3>1. CASE ChartArrives(j)
      <4>1. historyOpen' \in BOOLEAN
        BY <3>1 DEF ChartArrives, CloseState
      <4>2. loading' \in BOOLEAN
        BY <3>1 DEF ChartArrives
      <4>3. chartError' \in BOOLEAN /\ chartLoading' \in BOOLEAN
        BY <3>1 DEF ChartArrives
      <4> QED
        BY <3>1, <4>1, <4>2, <4>3 DEF ChartArrives
    <3>2. CASE ChartFails(j)
      BY <3>2 DEF ChartFails
    <3>3. CASE HistoryArrives(j)
      BY <3>3 DEF HistoryArrives
    <3>4. CASE HistoryFails(j)
      BY <3>4 DEF HistoryFails, CloseState
    <3> QED
      BY <1>15, <3>1, <3>2, <3>3, <3>4
  <2> QED
    BY <2>1, <2>2
<1> QED
  BY <1>6, <1>7, <1>8, <1>9, <1>10, <1>11, <1>12, <1>13, <1>14, <1>15, Steps

LEMMA QuietStep ==
    ASSUME TypeOK, Quiet, [Next]_vars
    PROVE  Quiet'
<1> USE DEF Quiet, server, chartVars, historyVars
<1>1. CASE UNCHANGED vars
  BY <1>1 DEF vars
<1>2. CASE (\E r \in AllRows : Collect(r)) \/ (\E s \in Source : Withdraw(s))
  BY <1>2 DEF Collect, Withdraw
<1>3. CASE Clicks
  BY <1>3, ClicksIs
<1>4. CASE Leave
  BY <1>4 DEF Leave
<1>5. ASSUME NEW j \in Job, Enter(j) PROVE Quiet'
  BY <1>5 DEF Enter
<1>6. ASSUME NEW j \in Job, Mounted(j) PROVE Quiet'
  BY <1>6 DEF Mounted
<1>7. ASSUME NEW j \in Job, NEW p, SetPeriod(j, p) \/ LoadPage(j, p) PROVE Quiet'
  BY <1>7 DEF SetPeriod, LoadPage
<1>8. ASSUME NEW j \in Job, AsksHistory(j) PROVE Quiet'
  BY <1>8, AsksHistoryIs
<1>9. ASSUME NEW j \in Job, Serve(j) PROVE Quiet'
  <2>1. screen = "ready" /\ screen' = screen
    BY <1>9, ServeIs DEF Serve
  <2> QED
    BY <2>1
<1>10. ASSUME NEW j \in Job, ChartArrives(j) \/ ChartFails(j) \/ HistoryArrives(j) \/ HistoryFails(j)
       PROVE  Quiet'
  <2>1. screen = "ready" /\ screen' = screen
    BY <1>10, EndsIs DEF ChartArrives, ChartFails, HistoryArrives, HistoryFails
  <2> QED
    BY <2>1
<1> QED
  BY <1>1, <1>2, <1>3, <1>4, <1>5, <1>6, <1>7, <1>8, <1>9, <1>10, Steps
-----------------------------------------------------------------------------
(* The chart                                                               *)

LEMMA ChartRequestsAre ==
    /\ ChartRequests = {j \in Job : job[j].op \in {"chart", "turn"}}
    /\ ChartRequests' = {j \in Job : job'[j].op \in {"chart", "turn"}}
  BY DEF ChartRequests, InFlight

\* Requests for the lit chip are still there after a step that leaves them alone.
LEMMA StillOnItsWay ==
    ASSUME ChartOnItsWay, UNCHANGED <<screen, period, chart, chartError>>,
           \A k \in ChartRequests : job[k].period = period =>
               k \in ChartRequests' /\ job'[k].period = job[k].period
    PROVE  ChartOnItsWay'
  BY DEF ChartOnItsWay

LEMMA ChartStep ==
    ASSUME TypeOK, Quiet, ChartOnItsWay, [Next]_vars
    PROVE  ChartOnItsWay'
<1> USE ChartRequestsAre DEF server, chartVars, historyVars
<1>1. ASSUME UNCHANGED <<screen, period, chart, chartError, job>> PROVE ChartOnItsWay'
  BY <1>1 DEF ChartOnItsWay
<1>2. ASSUME NEW j \in Job, SendsChart(j) PROVE ChartOnItsWay'
  BY <1>2 DEF SendsChart, ChartOnItsWay
<1>3. ASSUME screen' # "ready" PROVE ChartOnItsWay'
  BY <1>3 DEF ChartOnItsWay
<1>4. CASE UNCHANGED vars
  BY <1>1, <1>4 DEF vars
<1>5. CASE (\E r \in AllRows : Collect(r)) \/ (\E s \in Source : Withdraw(s))
  BY <1>1, <1>5 DEF Collect, Withdraw
<1>6. CASE Clicks
  BY <1>1, <1>6, ClicksIs
<1>7. CASE Leave
  BY <1>3, <1>7 DEF Leave
<1>8. ASSUME NEW j \in Job, Enter(j) PROVE ChartOnItsWay'
  BY <1>2, <1>3, <1>8, EnterSends
<1>9. ASSUME NEW j \in Job, Mounted(j) PROVE ChartOnItsWay'
  BY <1>2, <1>9, MountedSends
<1>10. ASSUME NEW j \in Job, NEW p, SetPeriod(j, p) \/ LoadPage(j, p) PROVE ChartOnItsWay'
  BY <1>2, <1>10, SetPeriodSends, LoadPageSends
<1>11. ASSUME NEW j \in Job, AsksHistory(j) PROVE ChartOnItsWay'
  <2>1. \A k \in ChartRequests : k # j
    BY <1>11, AsksHistoryIs, IdleIs DEF SendsHistory, Sends
  <2> QED
    BY <1>11, <2>1, AsksHistoryIs, StillOnItsWay DEF SendsHistory, Sends
<1>12. ASSUME NEW j \in Job, Serve(j) PROVE ChartOnItsWay'
  <2>1. UNCHANGED <<screen, period, chart, chartError>>
    BY <1>12 DEF Serve
  <2> QED
    BY <1>12, <2>1, ServeIs, StillOnItsWay
<1>13. ASSUME NEW j \in Job, ChartArrives(j) PROVE ChartOnItsWay'
  <2>1. UNCHANGED <<screen, period>> /\ job[j].op \in {"chart", "turn"} /\ "answer" \in DOMAIN job[j]
    BY <1>13 DEF ChartArrives, Answered
  <2>2. CASE Stale(job[j])
    <3>1. UNCHANGED <<chart, chartError>> /\ job[j].period # period
      BY <1>13, <2>2 DEF ChartArrives, Stale
    <3> QED
      BY <1>13, <2>1, <3>1, EndsIs, StillOnItsWay DEF Ends
  <2>3. CASE ~Stale(job[j])
    <3>1. chart' = job[j].answer /\ job[j].period = period
      BY <1>13, <2>3 DEF ChartArrives, Stale
    <3>2. Shaped(job[j]) /\ job[j] # Idle
      BY <1>13, EndsIs DEF TypeOK
    <3>3. chart' # NoChart /\ chart'.period = job[j].period
      BY <2>1, <3>1, <3>2 DEF Shaped
    <3> QED
      BY <2>1, <3>1, <3>3 DEF ChartOnItsWay
  <2> QED
    BY <2>2, <2>3
<1>14. ASSUME NEW j \in Job, ChartFails(j) PROVE ChartOnItsWay'
  BY <1>14 DEF ChartFails, ChartOnItsWay
<1>15. ASSUME NEW j \in Job, HistoryArrives(j) \/ HistoryFails(j) PROVE ChartOnItsWay'
  <2>1. UNCHANGED <<screen, period, chart, chartError>> /\ job[j].op = "history"
    BY <1>15 DEF HistoryArrives, HistoryFails, Answered
  <2> QED
    BY <1>15, <2>1, EndsIs, StillOnItsWay DEF Ends
<1> QED
  BY <1>4, <1>5, <1>6, <1>7, <1>8, <1>9, <1>10, <1>11, <1>12, <1>13, <1>14, <1>15, Steps

LEMMA ChartSettles == ASSUME ChartOnItsWay PROVE ChartSettled
  BY DEF ChartOnItsWay, ChartSettled

\* A loading mark goes with the first request that ends, or has one behind it.
LEMMA LoadingStep ==
    ASSUME TypeOK, Quiet, LoadingEnds, [Next]_vars
    PROVE  LoadingEnds'
<1> DEFINE Histories == {j \in Job : job[j].op = "history"}
<1>1. /\ LoadingEnds <=> (screen = "ready" => /\ chartLoading => ChartRequests # {}
                                              /\ loading => Histories # {})
      /\ LoadingEnds' <=> (screen' = "ready" => /\ chartLoading' => ChartRequests' # {}
                                                /\ loading' => Histories' # {})
  BY DEF LoadingEnds, InFlight
<1> USE ChartRequestsAre DEF server, chartVars, historyVars
<1>2. ASSUME UNCHANGED <<screen, chartLoading, loading>>, \A k \in Job : job'[k].op = job[k].op
      PROVE  LoadingEnds'
  BY <1>1, <1>2
<1>3. ASSUME screen' # "ready" PROVE LoadingEnds'
  BY <1>1, <1>3
<1>4. ASSUME NEW j \in Job, SendsChart(j), loading' => Histories # {}
      PROVE  LoadingEnds'
  <2>1. j \in ChartRequests'
    BY <1>4 DEF SendsChart
  <2>2. Histories \subseteq Histories'
    BY <1>4, IdleIs DEF SendsChart, Sends
  <2> QED
    BY <1>1, <1>4, <2>1, <2>2
<1>5. CASE UNCHANGED vars
  BY <1>2, <1>5 DEF vars
<1>6. CASE (\E r \in AllRows : Collect(r)) \/ (\E s \in Source : Withdraw(s))
  BY <1>2, <1>6 DEF Collect, Withdraw
<1>7. CASE Clicks
  BY <1>2, <1>7, ClicksIs
<1>8. CASE Leave
  BY <1>3, <1>8 DEF Leave
<1>9. ASSUME NEW j \in Job, Enter(j) PROVE LoadingEnds'
  <2>1. ~loading'
    BY <1>9 DEF Enter, Quiet
  <2> QED
    BY <1>3, <1>4, <1>9, <2>1, EnterSends
<1>10. ASSUME NEW j \in Job, Mounted(j) PROVE LoadingEnds'
  <2>1. ~loading'
    BY <1>10 DEF Mounted, Quiet
  <2> QED
    BY <1>4, <1>10, <2>1, MountedSends
<1>11. ASSUME NEW j \in Job, NEW p, SetPeriod(j, p) \/ LoadPage(j, p) PROVE LoadingEnds'
  <2>1. loading' = loading /\ screen = "ready"
    BY <1>11 DEF SetPeriod, LoadPage
  <2> QED
    BY <1>1, <1>4, <1>11, <2>1, SetPeriodSends, LoadPageSends
<1>12. ASSUME NEW j \in Job, AsksHistory(j) PROVE LoadingEnds'
  <2>1. j \in Histories'
    BY <1>12, AsksHistoryIs DEF SendsHistory
  <2>2. \A k \in ChartRequests : k \in ChartRequests'
    BY <1>12, AsksHistoryIs, IdleIs DEF SendsHistory, Sends
  <2>3. chartLoading' = chartLoading /\ screen = "ready"
    BY <1>12, AsksHistoryIs
  <2> QED
    BY <1>1, <2>1, <2>2, <2>3
<1>13. ASSUME NEW j \in Job, Serve(j) PROVE LoadingEnds'
  <2>1. UNCHANGED <<screen, chartLoading, loading>>
    BY <1>13 DEF Serve
  <2> QED
    BY <1>2, <1>13, <2>1, ServeIs
<1>14. ASSUME NEW j \in Job, ChartArrives(j) \/ ChartFails(j) PROVE LoadingEnds'
  <2>1. chartLoading' = FALSE /\ UNCHANGED <<screen, loading>> /\ job[j].op \in {"chart", "turn"}
    BY <1>14 DEF ChartArrives, ChartFails, Answered
  <2>2. Histories \subseteq Histories'
    BY <1>14, <2>1, EndsIs DEF Ends
  <2> QED
    BY <1>1, <2>1, <2>2
<1>15. ASSUME NEW j \in Job, HistoryArrives(j) \/ HistoryFails(j) PROVE LoadingEnds'
  <2>1. loading' = FALSE /\ UNCHANGED <<screen, chartLoading>> /\ job[j].op = "history"
    BY <1>15 DEF HistoryArrives, HistoryFails, Answered
  <2>2. \A k \in ChartRequests : k \in ChartRequests'
    BY <1>15, <2>1, EndsIs DEF Ends
  <2> QED
    BY <1>1, <2>1, <2>2
<1> QED
  BY <1>5, <1>6, <1>7, <1>8, <1>9, <1>10, <1>11, <1>12, <1>13, <1>14, <1>15, Steps
-----------------------------------------------------------------------------
(* The modal                                                               *)

\* What redrawModal leaves: a modal exactly for an open pair that the chart has, and a
\* history with the items of the state.
LEMMA RedrawIs ==
    ASSUME RedrawModal
    PROVE  /\ modal' # NoModal <=> open' # NoPair /\ ChartHas(chart', open')
           /\ modal' # NoModal /\ modal'.view = "history" =>
                /\ historyOpen' /\ modal'.pair = open' /\ modal'.filter = filter'
                /\ modal'.page = page'
                /\ modal'.shows # NoList => historyError' = "no" /\ modal'.shows = list'
<1> DEFINE drawn == open' # NoPair /\ ChartHas(chart', open')
<1>1. NoModal.view = "none"
  BY DEF NoModal
<1>2. CASE ~drawn
  BY <1>2 DEF RedrawModal
<1>3. CASE drawn /\ ~historyOpen'
  <2>1. modal' = [pair |-> open', view |-> "detail"]
    BY <1>3 DEF RedrawModal
  <2>2. modal'.view = "detail"
    BY <2>1
  <2> QED
    BY <1>1, <1>3, <2>2
<1>4. CASE drawn /\ historyOpen'
  <2> DEFINE v == HistoryView(open')
  <2>1. modal' = v
    BY <1>4 DEF RedrawModal
  <2>2. /\ v.view = "history" /\ v.pair = open' /\ v.filter = filter' /\ v.page = page'
        /\ v.shows = IF loading' THEN NoList ELSE IF historyError' # "no" THEN NoList ELSE list'
    BY DEF HistoryView
  <2> HIDE DEF v
  <2> QED
    BY <1>1, <1>4, <2>1, <2>2
<1> QED
  BY <1>2, <1>3, <1>4

LEMMA PairsStep ==
    ASSUME TypeOK, Quiet, SamePairs, [Next]_vars
    PROVE  SamePairs'
<1> DEFINE AllPairs(c) == c # NoChart => c.pairs = MePairs(Source)
           Right(r) == /\ r.op # "turn"
                       /\ r.op = "chart" /\ "answer" \in DOMAIN r =>
                            r.answer.pairs = MePairs(Source)
           User == ~guest /\ served = Source
<1>1. /\ SamePairs <=> (User => AllPairs(chart) /\ \A j \in Job : Right(job[j]))
      /\ SamePairs' <=> (User' => AllPairs(chart') /\ \A j \in Job : Right(job'[j]))
  BY DEF SamePairs, Answered
<1>2. Right(Idle)
  BY IdleIs
<1> USE DEF server, chartVars, historyVars
<1> HIDE DEF Right, AllPairs
<1>3. ASSUME UNCHANGED <<guest, served, chart>>, \A j \in Job : Right(job[j]) => Right(job'[j])
      PROVE  SamePairs'
  BY <1>1, <1>3
<1>4. ASSUME NEW j \in Job, SendsChart(j), UNCHANGED <<guest, served, chart>> PROVE SamePairs'
  <2>1. ~guest => Right(job'[j])
    BY <1>4 DEF SendsChart, Right
  <2> QED
    BY <1>1, <1>4, <2>1 DEF SendsChart, Sends
<1>5. ASSUME UNCHANGED <<guest, served, chart, job>> PROVE SamePairs'
  BY <1>3, <1>5
<1>6. ASSUME NEW j \in Job, Ends(j), UNCHANGED <<guest, served, chart>> PROVE SamePairs'
  BY <1>2, <1>3, <1>6 DEF Ends
<1>7. CASE UNCHANGED vars
  BY <1>5, <1>7 DEF vars
<1>8. CASE \E r \in AllRows : Collect(r)
  BY <1>5, <1>8 DEF Collect
<1>9. CASE \E s \in Source : Withdraw(s)
  <2>1. served' # Source
    BY <1>9 DEF Withdraw
  <2> QED
    BY <1>1, <2>1
<1>10. CASE Clicks
  BY <1>5, <1>10, ClicksIs
<1>11. CASE Leave
  BY <1>2, <1>3, <1>11 DEF Leave
<1>12. ASSUME NEW j \in Job, Enter(j) PROVE SamePairs'
  <2>1. CASE guest'
    BY <1>1, <2>1
  <2>2. CASE ~guest'
    BY <1>5, <1>12, <2>2 DEF Enter
  <2> QED
    BY <2>1, <2>2
<1>13. ASSUME NEW j \in Job, Mounted(j) PROVE SamePairs'
  BY <1>4, <1>13, MountedSends DEF Mounted
<1>14. ASSUME NEW j \in Job, NEW p, SetPeriod(j, p) \/ LoadPage(j, p) PROVE SamePairs'
  BY <1>4, <1>14, SetPeriodSends, LoadPageSends DEF SetPeriod, LoadPage
<1>15. ASSUME NEW j \in Job, AsksHistory(j) PROVE SamePairs'
  <2>1. Right(job'[j])
    BY <1>15, AsksHistoryIs DEF SendsHistory, Right
  <2> QED
    BY <1>3, <1>15, <2>1, AsksHistoryIs DEF SendsHistory, Sends
<1>16. ASSUME NEW j \in Job, Serve(j) PROVE SamePairs'
  <2>1. UNCHANGED <<guest, served, chart>>
    BY <1>16 DEF Serve
  <2>2. User /\ Right(job[j]) => Right(job'[j])
    BY <1>16, ServeIs, ChartAnswer DEF Right
  <2> QED
    BY <1>1, <1>16, <2>1, <2>2, ServeIs
<1>17. ASSUME NEW j \in Job, ChartArrives(j) PROVE SamePairs'
  <2>1. /\ UNCHANGED <<guest, served>> /\ job[j].op \in {"chart", "turn"}
        /\ "answer" \in DOMAIN job[j] /\ chart' \in {chart, job[j].answer}
    BY <1>17 DEF ChartArrives, Answered
  <2>2. User => AllPairs(chart')
    BY <1>1, <2>1 DEF AllPairs, Right
  <2> QED
    BY <1>1, <1>2, <1>17, <2>1, <2>2, EndsIs DEF Ends
<1>18. ASSUME NEW j \in Job, ChartFails(j) \/ HistoryArrives(j) \/ HistoryFails(j) PROVE SamePairs'
  BY <1>6, <1>18, EndsIs DEF ChartFails, HistoryArrives, HistoryFails
<1> QED
  BY <1>7, <1>8, <1>9, <1>10, <1>11, <1>12, <1>13, <1>14, <1>15, <1>16, <1>17, <1>18, Steps

LEMMA OpenIsAPair == NoPair \notin Pair
  BY ChartScreenAssumption DEF Pair

LEMMA DrawnStep ==
    ASSUME TypeOK, Quiet, SamePairs, DrawnWhenOpen, [Next]_vars
    PROVE  DrawnWhenOpen'
<1> DEFINE Bound == locked /\ ~guest /\ served = Source /\ ~denied
<1> USE DEF server, chartVars, historyVars
<1>1. /\ open # NoPair /\ screen = "ready" => locked
      /\ modal # NoModal => locked
      /\ Bound => open # NoPair /\ ChartHas(chart, open) /\ modal # NoModal
  BY DEF DrawnWhenOpen
<1>2. ASSUME UNCHANGED <<screen, guest, served, denied, locked, open, chart, modal>>
      PROVE  DrawnWhenOpen'
  BY <1>2 DEF DrawnWhenOpen
<1>3. ASSUME RedrawModal, screen = "ready", screen' = screen, UNCHANGED <<guest, served, denied>>,
             open' # NoPair => locked',
             Bound' => open' # NoPair /\ ChartHas(chart', open')
      PROVE  DrawnWhenOpen'
  BY <1>3, RedrawIs DEF DrawnWhenOpen
<1>4. ASSUME screen \in {"away", "mounting"}, UNCHANGED <<open, modal, locked>>
      PROVE  DrawnWhenOpen'
  BY <1>4, Flags DEF Quiet, DrawnWhenOpen
<1>5. CASE UNCHANGED vars
  BY <1>2, <1>5 DEF vars
<1>6. CASE \E r \in AllRows : Collect(r)
  BY <1>2, <1>6 DEF Collect
<1>7. CASE \E s \in Source : Withdraw(s)
  <2>1. served' # Source /\ UNCHANGED <<screen, locked, open, modal>>
    BY <1>7 DEF Withdraw
  <2> QED
    BY <1>1, <2>1 DEF DrawnWhenOpen
<1>8. CASE \E p \in Pair : OpenPair(p)
  <2>1. PICK p \in Pair : OpenPair(p)
    BY <1>8
  <2>2. ChartHas(chart, p) /\ p # NoPair
    BY <2>1, OpenIsAPair DEF OpenPair, DrawnRows, ChartHas
  <2> QED
    BY <1>3, <2>1, <2>2 DEF OpenPair, ModalOnly
<1>9. CASE CloseHistory \/ FruitlessClick
  <2>1. /\ screen = "ready" /\ RedrawModal
        /\ UNCHANGED <<screen, guest, served, denied, open, chart, locked>>
    BY <1>9 DEF CloseHistory, FruitlessClick, ModalOnly
  <2> QED
    BY <1>1, <1>3, <2>1
<1>10. CASE ClosePair
  BY <1>3, <1>10 DEF ClosePair, CloseState, ModalOnly
<1>11. CASE Leave
  BY <1>11 DEF Leave, DrawnWhenOpen
<1>12. ASSUME NEW j \in Job, Enter(j) \/ Mounted(j) PROVE DrawnWhenOpen'
  BY <1>4, <1>12 DEF Enter, Mounted
<1>13. ASSUME NEW j \in Job, NEW p, SetPeriod(j, p) \/ LoadPage(j, p) PROVE DrawnWhenOpen'
  BY <1>2, <1>13 DEF SetPeriod, LoadPage
<1>14. ASSUME NEW j \in Job, AsksHistory(j) PROVE DrawnWhenOpen'
  BY <1>2, <1>14, AsksHistoryIs
<1>15. ASSUME NEW j \in Job, Serve(j) PROVE DrawnWhenOpen'
  BY <1>2, <1>15 DEF Serve
<1>16. ASSUME NEW j \in Job, ChartArrives(j) PROVE DrawnWhenOpen'
  <2>1. /\ screen = "ready" /\ UNCHANGED <<screen, guest, served, denied, locked>>
        /\ job[j].op \in {"chart", "turn"} /\ "answer" \in DOMAIN job[j]
        /\ open' \in {open, NoPair} /\ chart' \in {chart, job[j].answer}
    BY <1>16, EndsIs DEF ChartArrives, CloseState, Answered, Quiet
  <2>2. ASSUME Bound PROVE open' = open /\ ChartHas(chart', open') /\ job[j].op = "chart"
    <3>1. job[j].op = "chart" /\ job[j].answer.pairs = MePairs(Source)
      BY <2>1, <2>2 DEF SamePairs, Answered
    <3>2. job[j] # Idle /\ Shaped(job[j])
      BY <1>16, EndsIs DEF TypeOK
    <3>3. job[j].answer # NoChart
      BY <2>1, <3>2 DEF Shaped
    <3>4. chart.pairs = MePairs(Source) /\ chart # NoChart /\ open \in chart.pairs
      BY <1>1, <2>2 DEF SamePairs, ChartHas
    <3>5. ChartHas(job[j].answer, open) /\ ChartHas(chart, open)
      BY <3>1, <3>3, <3>4 DEF ChartHas
    <3> QED
      BY <1>16, <2>1, <3>1, <3>5 DEF ChartArrives
  <2>3. CASE job[j].op = "turn"
    BY <1>1, <1>3, <1>16, <2>1, <2>2, <2>3 DEF ChartArrives
  <2>4. CASE job[j].op = "chart"
    <3>1. modal' = modal
      BY <1>16, <2>4 DEF ChartArrives
    <3> QED
      BY <1>1, <2>1, <2>2, <3>1 DEF DrawnWhenOpen
  <2> QED
    BY <2>1, <2>3, <2>4
<1>17. ASSUME NEW j \in Job, ChartFails(j) PROVE DrawnWhenOpen'
  <2>1. /\ screen = "ready" /\ UNCHANGED <<screen, guest, served, denied, locked, open, chart>>
        /\ RedrawModal \/ modal' = modal
    BY <1>17, EndsIs DEF ChartFails, Quiet
  <2> QED
    BY <1>1, <1>2, <1>3, <2>1
<1>18. ASSUME NEW j \in Job, HistoryArrives(j) PROVE DrawnWhenOpen'
  <2>1. /\ screen = "ready" /\ RedrawModal
        /\ UNCHANGED <<screen, guest, served, denied, locked, open, chart>>
    BY <1>18, EndsIs DEF HistoryArrives, Quiet
  <2> QED
    BY <1>1, <1>3, <2>1
<1>19. ASSUME NEW j \in Job, HistoryFails(j) PROVE DrawnWhenOpen'
  <2>1. /\ screen = "ready" /\ RedrawModal
        /\ UNCHANGED <<screen, guest, served, locked, chart>>
        /\ (open' = open /\ denied' = denied) \/ (open' = NoPair /\ denied' = TRUE)
    BY <1>19, EndsIs DEF HistoryFails, Quiet
  <2>2. modal' # NoModal <=> open' # NoPair /\ ChartHas(chart', open')
    BY <2>1, RedrawIs
  <2> QED
    BY <1>1, <2>1, <2>2 DEF DrawnWhenOpen
<1> QED
  BY <1>5, <1>6, <1>7, <1>8, <1>9, <1>10, <1>11, <1>12, <1>13, <1>14, <1>15, <1>16, <1>17,
     <1>18, <1>19, Steps DEF Clicks

LEMMA DrawnLocks == ASSUME TypeOK, DrawnWhenOpen PROVE LockedShowsModal
  BY Flags DEF DrawnWhenOpen, LockedShowsModal
-----------------------------------------------------------------------------
(* The history                                                             *)

\* Nothing that ItemsOnTheirWay is about changes, but requests of another goroutine.
LEMMA ItemsKept ==
    ASSUME ItemsOnTheirWay, screen' = "ready" => screen = "ready",
           UNCHANGED <<over, historyOpen, open, list, historyError, filter, page>>,
           \A k \in InFlight("history") : job[k].pair = open /\ job[k].title = filter =>
               /\ k \in InFlight("history")'
               /\ job'[k].pair = job[k].pair /\ job'[k].title = job[k].title
    PROVE  ItemsOnTheirWay'
  BY DEF ItemsOnTheirWay

LEMMA InFlightIs ==
    /\ InFlight("history") = {j \in Job : job[j].op = "history"}
    /\ InFlight("history")' = {j \in Job : job'[j].op = "history"}
  BY DEF InFlight

LEMMA ItemsStep ==
    ASSUME TypeOK, Quiet, ItemsOnTheirWay, [Next]_vars
    PROVE  ItemsOnTheirWay'
<1> USE InFlightIs DEF server, chartVars, historyVars
<1>1. ASSUME UNCHANGED <<screen, job, over, historyOpen, open, list, historyError, filter, page>>
      PROVE  ItemsOnTheirWay'
  BY <1>1, ItemsKept
<1>2. ASSUME NEW j \in Job, Sends(j), screen' = "ready" => screen = "ready",
             UNCHANGED <<over, historyOpen, open, list, historyError, filter, page>>
      PROVE  ItemsOnTheirWay'
  <2>1. \A k \in InFlight("history") : k # j
    BY <1>2, IdleIs DEF Sends
  <2> QED
    BY <1>2, <2>1, ItemsKept DEF Sends
<1>3. CASE UNCHANGED vars
  BY <1>1, <1>3 DEF vars
<1>4. CASE (\E r \in AllRows : Collect(r)) \/ (\E s \in Source : Withdraw(s))
  BY <1>1, <1>4 DEF Collect, Withdraw
<1>5. CASE \E p \in Pair : OpenPair(p)
  <2>1. ~over' => ~historyOpen'
    BY <1>5, Flags DEF OpenPair
  <2> QED
    BY <2>1 DEF ItemsOnTheirWay
<1>6. CASE CloseHistory \/ ClosePair
  BY <1>6 DEF CloseHistory, ClosePair, CloseState, ItemsOnTheirWay
<1>7. CASE FruitlessClick
  BY <1>1, <1>7 DEF FruitlessClick, ModalOnly
<1>8. CASE Leave
  BY <1>8 DEF Leave, ItemsOnTheirWay
<1>9. ASSUME NEW j \in Job, Enter(j) \/ Mounted(j) PROVE ItemsOnTheirWay'
  <2>1. ~historyOpen'
    BY <1>9 DEF Enter, Mounted, Quiet
  <2> QED
    BY <2>1 DEF ItemsOnTheirWay
<1>10. ASSUME NEW j \in Job, NEW p, SetPeriod(j, p) \/ LoadPage(j, p) PROVE ItemsOnTheirWay'
  BY <1>2, <1>10, SetPeriodSends, LoadPageSends DEF SendsChart, SetPeriod, LoadPage
<1>11. ASSUME NEW j \in Job, AsksHistory(j) PROVE ItemsOnTheirWay'
  BY <1>11, AsksHistoryIs DEF SendsHistory, ItemsOnTheirWay
<1>12. ASSUME NEW j \in Job, Serve(j) PROVE ItemsOnTheirWay'
  <2>1. UNCHANGED <<screen, over, historyOpen, open, list, historyError, filter, page>>
    BY <1>12 DEF Serve
  <2> QED
    BY <1>12, <2>1, ServeIs, ItemsKept
<1>13. ASSUME NEW j \in Job, ChartArrives(j) \/ ChartFails(j) PROVE ItemsOnTheirWay'
  <2>1. job[j].op # "history" /\ screen' = screen
    BY <1>13 DEF ChartArrives, ChartFails, Answered
  <2>2. \/ UNCHANGED <<over, historyOpen, open, list, historyError, filter, page>>
        \/ open' = NoPair
    BY <1>13 DEF ChartArrives, ChartFails, CloseState
  <2>3. CASE open' = NoPair
    BY <2>3 DEF ItemsOnTheirWay
  <2>4. CASE UNCHANGED <<over, historyOpen, open, list, historyError, filter, page>>
    BY <1>13, <2>1, <2>4, EndsIs, ItemsKept DEF Ends
  <2> QED
    BY <2>2, <2>3, <2>4
<1>14. ASSUME NEW j \in Job, HistoryArrives(j) PROVE ItemsOnTheirWay'
  <2>1. UNCHANGED <<screen, open, historyOpen, filter>>
    BY <1>14 DEF HistoryArrives
  <2>2. CASE Abandoned(job[j])
    <3>1. /\ UNCHANGED <<over, list, historyError, page>>
          /\ job[j].pair # open \/ job[j].title # filter
      BY <1>14, <2>2 DEF HistoryArrives, Abandoned
    <3> QED
      BY <1>14, <2>1, <3>1, EndsIs, ItemsKept DEF Ends
  <2>3. CASE ~Abandoned(job[j])
    <3>1. /\ list' = [pair |-> job[j].pair, title |-> job[j].title, page |-> job[j].page]
          /\ page' = job[j].page /\ job[j].pair = open /\ job[j].title = filter
      BY <1>14, <2>3 DEF HistoryArrives, Abandoned
    <3> QED
      BY <2>1, <3>1 DEF ItemsOnTheirWay
  <2> QED
    BY <2>2, <2>3
<1>15. ASSUME NEW j \in Job, HistoryFails(j) PROVE ItemsOnTheirWay'
  <2>1. historyError' # "no"
    BY <1>15 DEF HistoryFails
  <2> QED
    BY <2>1 DEF ItemsOnTheirWay
<1> QED
  BY <1>3, <1>4, <1>5, <1>6, <1>7, <1>8, <1>9, <1>10, <1>11, <1>12, <1>13, <1>14, <1>15, Steps
     DEF Clicks

\* A modal that is redrawn shows the items of its title, chip and page, unless a request
\* for them is in flight.
LEMMA RedrawnRight ==
    ASSUME RedrawModal, ItemsOnTheirWay', screen' = "ready"
    PROVE  HistorySettled'
<1>1. SUFFICES ASSUME modal' # NoModal, InFlight("history")' = {}, ~over',
                      modal'.view = "history", modal'.shows # NoList
               PROVE  modal'.shows = [pair |-> modal'.pair, title |-> modal'.filter,
                                      page |-> modal'.page]
  BY DEF HistorySettled
<1>2. /\ open' # NoPair /\ historyOpen' /\ modal'.pair = open' /\ modal'.filter = filter'
      /\ modal'.page = page' /\ historyError' = "no" /\ modal'.shows = list'
  BY <1>1, RedrawIs
<1>3. list' = [pair |-> open', title |-> filter', page |-> page']
  BY <1>1, <1>2 DEF ItemsOnTheirWay
<1> QED
  BY <1>2, <1>3

LEMMA HistoryStep ==
    ASSUME TypeOK, Quiet, ItemsOnTheirWay', HistorySettled, [Next]_vars
    PROVE  HistorySettled'
<1> USE InFlightIs DEF server, chartVars, historyVars
<1>1. ASSUME UNCHANGED <<modal, over>>, InFlight("history")' = {} => InFlight("history") = {}
      PROVE  HistorySettled'
  BY <1>1 DEF HistorySettled
<1>2. ASSUME modal' = NoModal PROVE HistorySettled'
  BY <1>2 DEF HistorySettled
<1>3. ASSUME NEW j \in Job, Sends(j), UNCHANGED <<modal, over>> PROVE HistorySettled'
  BY <1>1, <1>3, IdleIs DEF Sends
<1>4. CASE UNCHANGED vars
  BY <1>1, <1>4 DEF vars
<1>5. CASE (\E r \in AllRows : Collect(r)) \/ (\E s \in Source : Withdraw(s))
  BY <1>1, <1>5 DEF Collect, Withdraw
<1>6. CASE Clicks
  BY <1>6, ClicksIs, RedrawnRight
<1>7. CASE Leave
  BY <1>2, <1>7 DEF Leave
<1>8. ASSUME NEW j \in Job, Enter(j) \/ Mounted(j) PROVE HistorySettled'
  BY <1>2, <1>8 DEF Enter, Mounted, Quiet
<1>9. ASSUME NEW j \in Job, NEW p, SetPeriod(j, p) \/ LoadPage(j, p) PROVE HistorySettled'
  BY <1>3, <1>9, SetPeriodSends, LoadPageSends DEF SendsChart, SetPeriod, LoadPage
<1>10. ASSUME NEW j \in Job, AsksHistory(j) PROVE HistorySettled'
  BY <1>3, <1>10, AsksHistoryIs DEF SendsHistory
<1>11. ASSUME NEW j \in Job, Serve(j) PROVE HistorySettled'
  <2>1. UNCHANGED <<modal, over>>
    BY <1>11 DEF Serve
  <2> QED
    BY <1>1, <1>11, <2>1, ServeIs
<1>12. ASSUME NEW j \in Job, ChartArrives(j) \/ ChartFails(j) PROVE HistorySettled'
  <2>1. /\ screen' = screen /\ screen = "ready" /\ over' = over /\ job[j].op # "history"
        /\ RedrawModal \/ modal' = modal
    BY <1>12, EndsIs DEF ChartArrives, ChartFails, Answered, Quiet
  <2>2. InFlight("history") \subseteq InFlight("history")'
    BY <1>12, <2>1, EndsIs DEF Ends
  <2> QED
    BY <1>1, <2>1, <2>2, RedrawnRight
<1>13. ASSUME NEW j \in Job, HistoryArrives(j) \/ HistoryFails(j) PROVE HistorySettled'
  <2>1. screen' = "ready" /\ RedrawModal
    BY <1>13, EndsIs DEF HistoryArrives, HistoryFails, Quiet
  <2> QED
    BY <2>1, RedrawnRight
<1> QED
  BY <1>4, <1>5, <1>6, <1>7, <1>8, <1>9, <1>10, <1>11, <1>12, <1>13, Steps
-----------------------------------------------------------------------------
(* Orders: a set in its order, and a sequence at some of its positions    *)

\* In a finite set with a strict total order R, an element's rank is the number of those
\* before it; every number below the cardinality is the rank of one element.
LEMMA Ranks ==
  ASSUME NEW S, IsFiniteSet(S), NEW R,
         \A x \in S : <<x, x>> \notin R,
         \A x, y, z \in S : <<x, y>> \in R /\ <<y, z>> \in R => <<x, z>> \in R,
         \A x, y \in S : x # y => <<x, y>> \in R \/ <<y, x>> \in R
  PROVE  LET rank == [x \in S |-> Cardinality({y \in S : <<y, x>> \in R})]
         IN  /\ Cardinality(S) \in Nat
             /\ \A x \in S : rank[x] \in Nat /\ rank[x] < Cardinality(S)
             /\ \A x, y \in S : <<x, y>> \in R <=> rank[x] < rank[y]
             /\ \A x, y \in S : rank[x] = rank[y] => x = y
             /\ \A n \in Nat : n < Cardinality(S) => \E x \in S : rank[x] = n
<1> DEFINE before(x) == {y \in S : <<y, x>> \in R}
           rank == [x \in S |-> Cardinality(before(x))]
<1>1. Cardinality(S) \in Nat
  BY FS_CardinalityType
<1>2. ASSUME NEW x \in S
      PROVE  /\ IsFiniteSet(before(x)) /\ Cardinality(before(x)) \in Nat
             /\ IsFiniteSet(before(x) \cup {x})
             /\ Cardinality(before(x) \cup {x}) = Cardinality(before(x)) + 1
  <2>1. before(x) \in SUBSET S /\ x \notin before(x)
    OBVIOUS
  <2> HIDE DEF before
  <2>2. IsFiniteSet(before(x))
    BY <2>1, FS_Subset
  <2>3. QED BY <2>1, <2>2, FS_CardinalityType, FS_AddElement
<1>3. ASSUME NEW x \in S PROVE Cardinality(before(x)) < Cardinality(S)
  <2>1. before(x) \cup {x} \in SUBSET S
    OBVIOUS
  <2> HIDE DEF before
  <2>2. Cardinality(before(x) \cup {x}) <= Cardinality(S)
    BY <2>1, FS_Subset
  <2>3. QED BY <1>1, <1>2, <2>2
<1>4. ASSUME NEW x \in S, NEW y \in S, <<x, y>> \in R
      PROVE  Cardinality(before(x)) < Cardinality(before(y))
  <2>1. before(x) \cup {x} \in SUBSET before(y)
    BY <1>4
  <2> HIDE DEF before
  <2>2. IsFiniteSet(before(y)) /\ Cardinality(before(y)) \in Nat
    BY <1>2
  <2>3. Cardinality(before(x) \cup {x}) <= Cardinality(before(y))
    BY <2>1, <2>2, FS_Subset
  <2>4. Cardinality(before(x) \cup {x}) = Cardinality(before(x)) + 1
        /\ Cardinality(before(x)) \in Nat
    BY <1>2
  <2>5. QED BY <2>2, <2>3, <2>4
<1> HIDE DEF before
<1>5. /\ \A x, y \in S : <<x, y>> \in R <=> rank[x] < rank[y]
      /\ \A x, y \in S : rank[x] = rank[y] => x = y
  <2>1. \A x \in S : rank[x] = Cardinality(before(x)) /\ rank[x] \in Nat
    BY <1>2
  <2>2. ASSUME NEW x \in S, NEW y \in S PROVE <<x, y>> \in R => rank[x] < rank[y]
    BY <1>4, <2>1
  <2> HIDE DEF rank
  <2>3. ASSUME NEW x \in S, NEW y \in S, rank[x] < rank[y] PROVE <<x, y>> \in R
    <3>1. x # y
      BY <2>1, <2>3
    <3>2. ~(rank[y] < rank[x])
      BY <2>1, <2>3
    <3>3. QED BY <2>2, <3>1, <3>2
  <2>4. ASSUME NEW x \in S, NEW y \in S, rank[x] = rank[y] PROVE x = y
    <3>1. ~(rank[x] < rank[y]) /\ ~(rank[y] < rank[x])
      BY <2>1, <2>4
    <3>2. QED BY <2>2, <3>1
  <2>5. QED BY <2>2, <2>3, <2>4
<1>6. \A n \in Nat : n < Cardinality(S) => \E x \in S : rank[x] = n
  <2> DEFINE T == 0 .. Cardinality(S) - 1
  <2>1. IsFiniteSet(T) /\ Cardinality(T) = Cardinality(S)
    <3>1. 0 \in Int /\ Cardinality(S) - 1 \in Int
      BY <1>1
    <3>2. /\ IsFiniteSet(T)
          /\ Cardinality(T) = IF 0 > Cardinality(S) - 1 THEN 0 ELSE Cardinality(S) - 1 - 0 + 1
      BY <3>1, FS_Interval
    <3>3. QED BY <1>1, <3>2
  <2>2. rank \in [S -> T]
    <3>1. ASSUME NEW x \in S PROVE Cardinality(before(x)) \in T
      <4>1. Cardinality(before(x)) \in Nat /\ Cardinality(before(x)) < Cardinality(S)
        BY <1>2, <1>3
      <4>2. QED BY <1>1, <4>1
    <3> HIDE DEF T
    <3>2. QED BY <3>1
  <2>3. rank \in Injection(S, T)
    <3> HIDE DEF rank, T
    <3>1. \A a, b \in S : rank[a] = rank[b] => a = b
      BY <1>5
    <3>2. QED BY <2>2, <3>1, Fun_IsInj
  <2> HIDE DEF rank
  <2>4. rank \in Surjection(S, T)
    <3> HIDE DEF T
    <3>1. QED BY <2>1, <2>3, FS_Injection
  <2>5. \A t \in T : \E x \in S : rank[x] = t
    <3> HIDE DEF T
    <3>1. QED BY <2>4 DEF Surjection
  <2>6. QED BY <1>1, <2>5
<1>7. \A x \in S : rank[x] \in Nat /\ rank[x] < Cardinality(S)
  BY <1>2, <1>3
<1>8. QED BY <1>1, <1>5, <1>6, <1>7 DEF before

\* What InOrder makes of a set, for each of the three orders it is used with.
Sorted(seq, set, R) ==
  /\ DOMAIN seq = 1 .. Cardinality(set) /\ Len(seq) = Cardinality(set)
  /\ Cardinality(set) \in Nat
  /\ seq \in Seq(set)
  /\ \A n \in DOMAIN seq : seq[n] \in set
  /\ \A x \in set : \E n \in DOMAIN seq : seq[n] = x
  /\ \A m, n \in DOMAIN seq : m < n <=> <<seq[m], seq[n]>> \in R
  /\ \A n \in DOMAIN seq : Cardinality({y \in set : <<y, seq[n]>> \in R}) = n - 1

\* A set in the order R, each element at the place its rank gives it.
ByRank(S, R) ==
  [n \in 1..Cardinality(S) |-> CHOOSE x \in S : Cardinality({y \in S : <<y, x>> \in R}) = n - 1]

LEMMA RanksSort ==
  ASSUME NEW S, IsFiniteSet(S), NEW R,
         \A x \in S : <<x, x>> \notin R,
         \A x, y, z \in S : <<x, y>> \in R /\ <<y, z>> \in R => <<x, z>> \in R,
         \A x, y \in S : x # y => <<x, y>> \in R \/ <<y, x>> \in R
  PROVE  Sorted(ByRank(S, R), S, R)
<1> DEFINE rank == [x \in S |-> Cardinality({y \in S : <<y, x>> \in R})]
           seq == [n \in 1..Cardinality(S) |->
                      CHOOSE x \in S : Cardinality({y \in S : <<y, x>> \in R}) = n - 1]
<1>1. /\ Cardinality(S) \in Nat
      /\ \A x \in S : rank[x] \in Nat /\ rank[x] < Cardinality(S)
      /\ \A x, y \in S : <<x, y>> \in R <=> rank[x] < rank[y]
      /\ \A x, y \in S : rank[x] = rank[y] => x = y
      /\ \A n \in Nat : n < Cardinality(S) => \E x \in S : rank[x] = n
  BY Ranks
<1>2. ASSUME NEW n \in 1 .. Cardinality(S)
      PROVE  /\ seq[n] \in S /\ rank[seq[n]] = n - 1
             /\ Cardinality({y \in S : <<y, seq[n]>> \in R}) = n - 1
  <2>1. \E x \in S : rank[x] = n - 1
    <3> HIDE DEF rank
    <3>1. n - 1 \in Nat /\ n - 1 < Cardinality(S)
      BY <1>1
    <3>2. QED BY <1>1, <3>1
  <2>2. \A x \in S : rank[x] = Cardinality({y \in S : <<y, x>> \in R})
    OBVIOUS
  <2>3. \E x \in S : Cardinality({y \in S : <<y, x>> \in R}) = n - 1
    BY <2>1, <2>2
  <2>4. seq[n] \in S /\ Cardinality({y \in S : <<y, seq[n]>> \in R}) = n - 1
    BY <2>3
  <2>5. QED BY <2>2, <2>4
<1> HIDE DEF rank
<1>3. DOMAIN seq = 1 .. Cardinality(S) /\ seq \in [1 .. Cardinality(S) -> S]
  BY <1>2
<1> HIDE DEF seq
<1>4. seq \in Seq(S) /\ Len(seq) = Cardinality(S)
  BY <1>1, <1>3
<1>5. ASSUME NEW x \in S PROVE \E n \in DOMAIN seq : seq[n] = x
  <2>1. rank[x] + 1 \in 1 .. Cardinality(S)
    BY <1>1
  <2>2. seq[rank[x] + 1] \in S /\ rank[seq[rank[x] + 1]] = (rank[x] + 1) - 1
    BY <1>2, <2>1
  <2>3. rank[seq[rank[x] + 1]] = rank[x]
    BY <1>1, <2>2
  <2>4. QED BY <1>1, <1>3, <2>1, <2>2, <2>3
<1>6. ASSUME NEW m \in DOMAIN seq, NEW n \in DOMAIN seq
      PROVE  m < n <=> <<seq[m], seq[n]>> \in R
  <2>1. m \in 1 .. Cardinality(S) /\ n \in 1 .. Cardinality(S)
    BY <1>3
  <2>2. /\ seq[m] \in S /\ rank[seq[m]] = m - 1
        /\ seq[n] \in S /\ rank[seq[n]] = n - 1
    BY <1>2, <2>1
  <2>3. <<seq[m], seq[n]>> \in R <=> m - 1 < n - 1
    BY <1>1, <2>2
  <2>4. QED BY <1>1, <2>1, <2>3
<1>7. seq = ByRank(S, R)
  BY DEF seq, ByRank
<1> HIDE DEF seq
<1>8. \A n \in DOMAIN seq : /\ seq[n] \in S
                           /\ Cardinality({y \in S : <<y, seq[n]>> \in R}) = n - 1
  BY <1>2, <1>3
<1>9. Sorted(seq, S, R)
  BY <1>1, <1>3, <1>4, <1>5, <1>6, <1>8 DEF Sorted
<1>10. QED BY <1>7, <1>9

NewestRel(rows) == {p \in rows \X rows : Newer(p[1], p[2])}
OldestRel(rows) == {p \in rows \X rows : Newer(p[2], p[1])}
SmallerRel(set) == {p \in set \X set : Ahead(p[1], p[2])}

\* Rows are told apart by id and second, and Newer orders them all.
LEMMA NewerIsTotal ==
  ASSUME NEW rows \in SUBSET AllRows
  PROVE  /\ IsFiniteSet(rows)
         /\ \A x \in rows : x.source \in Source /\ x.time \in Nat /\ x.id \in Nat /\ x.id # 0
         /\ \A x \in rows : ~Newer(x, x)
         /\ \A x, y, z \in rows : Newer(x, y) /\ Newer(y, z) => Newer(x, z)
         /\ \A x, y \in rows : x # y => Newer(x, y) \/ Newer(y, x)
<1>1. IsFiniteSet(rows)
  BY RateHistoryAssumption, FS_Subset
<1>2. /\ \A x \in rows : x.source \in Source /\ x.time \in Nat /\ x.id \in Nat \ {0}
      /\ \A x, y \in rows : x.id = y.id => x = y
  BY RateHistoryAssumption
<1>3. QED BY <1>1, <1>2 DEF Newer

LEMMA NewestFirstIs ==
  ASSUME NEW rows \in SUBSET AllRows
  PROVE  Sorted(NewestFirst(rows), rows, NewestRel(rows))
<1> DEFINE R == NewestRel(rows)
<1>1. \A x, y \in rows : <<x, y>> \in R <=> Newer(x, y)
  BY DEF NewestRel
<1>2. /\ IsFiniteSet(rows)
      /\ \A x \in rows : <<x, x>> \notin R
      /\ \A x, y, z \in rows : <<x, y>> \in R /\ <<y, z>> \in R => <<x, z>> \in R
      /\ \A x, y \in rows : x # y => <<x, y>> \in R \/ <<y, x>> \in R
  BY <1>1, NewerIsTotal
<1>3. \A x \in rows : {y \in rows : <<y, x>> \in R} = {y \in rows : Newer(y, x)}
  BY <1>1
<1>4. NewestFirst(rows) = [n \in 1..Cardinality(rows) |->
         CHOOSE x \in rows : Cardinality({y \in rows : Newer(y, x)}) = n - 1]
  BY DEF NewestFirst, InOrder
<1> HIDE DEF R
<1>5. \A n \in 1..Cardinality(rows) :
         (CHOOSE x \in rows : Cardinality({y \in rows : Newer(y, x)}) = n - 1)
         = (CHOOSE x \in rows : Cardinality({y \in rows : <<y, x>> \in R}) = n - 1)
  BY <1>3
<1>6. NewestFirst(rows) = ByRank(rows, R)
  BY <1>4, <1>5 DEF ByRank
<1>7. Sorted(ByRank(rows, R), rows, R)
  BY <1>2, RanksSort
<1>8. QED BY <1>6, <1>7 DEF R

LEMMA OldestFirstIs ==
  ASSUME NEW rows \in SUBSET AllRows
  PROVE  Sorted(OldestFirst(rows), rows, OldestRel(rows))
<1> DEFINE R == OldestRel(rows)
<1>1. \A x, y \in rows : <<x, y>> \in R <=> Newer(y, x)
  BY DEF OldestRel
<1>2. /\ IsFiniteSet(rows)
      /\ \A x \in rows : <<x, x>> \notin R
      /\ \A x, y, z \in rows : <<x, y>> \in R /\ <<y, z>> \in R => <<x, z>> \in R
      /\ \A x, y \in rows : x # y => <<x, y>> \in R \/ <<y, x>> \in R
  BY <1>1, NewerIsTotal
<1>3. \A x \in rows : {y \in rows : <<y, x>> \in R} = {y \in rows : Newer(x, y)}
  BY <1>1
<1>4. OldestFirst(rows) = [n \in 1..Cardinality(rows) |->
         CHOOSE x \in rows : Cardinality({y \in rows : Newer(x, y)}) = n - 1]
  BY DEF OldestFirst, InOrder
<1> HIDE DEF R
<1>5. \A n \in 1..Cardinality(rows) :
         (CHOOSE x \in rows : Cardinality({y \in rows : Newer(x, y)}) = n - 1)
         = (CHOOSE x \in rows : Cardinality({y \in rows : <<y, x>> \in R}) = n - 1)
  BY <1>3
<1>6. OldestFirst(rows) = ByRank(rows, R)
  BY <1>4, <1>5 DEF ByRank
<1>7. Sorted(ByRank(rows, R), rows, R)
  BY <1>2, RanksSort
<1>8. QED BY <1>6, <1>7 DEF R

LEMMA AheadByRank ==
  ASSUME NEW S, NEW R, \A x, y \in S : <<x, y>> \in R <=> Ahead(x, y)
  PROVE  Ascending(S) = ByRank(S, R)
<1>1. \A x \in S : {y \in S : <<y, x>> \in R} = {y \in S : Ahead(y, x)}
  OBVIOUS
<1>2. Ascending(S) = [n \in 1..Cardinality(S) |->
         CHOOSE x \in S : Cardinality({y \in S : Ahead(y, x)}) = n - 1]
  BY DEF InOrder, Ascending
<1>3. \A n \in 1..Cardinality(S) :
         (CHOOSE x \in S : Cardinality({y \in S : Ahead(y, x)}) = n - 1)
         = (CHOOSE x \in S : Cardinality({y \in S : <<y, x>> \in R}) = n - 1)
  BY <1>1
<1>4. QED BY <1>2, <1>3 DEF ByRank

LEMMA PositionsInOrder ==
  ASSUME NEW set \in SUBSET Nat, IsFiniteSet(set)
  PROVE  Sorted(Ascending(set), set, SmallerRel(set))
<1> DEFINE R == SmallerRel(set)
<1>1. \A x, y \in set : <<x, y>> \in R <=> Ahead(x, y)
  BY DEF SmallerRel
<1>2. /\ \A x \in set : <<x, x>> \notin R
      /\ \A x, y, z \in set : <<x, y>> \in R /\ <<y, z>> \in R => <<x, z>> \in R
      /\ \A x, y \in set : x # y => <<x, y>> \in R \/ <<y, x>> \in R
  BY <1>1 DEF Ahead
<1> HIDE DEF R
<1>3. Sorted(ByRank(set, R), set, R)
  BY <1>2, RanksSort
<1>4. Ascending(set) = ByRank(set, R)
  BY <1>1, AheadByRank
<1>5. QED BY <1>3, <1>4 DEF R

\* got is what seq has at the positions of a set, in the order seq has it.
Extract(got, T, seq, set) ==
  /\ got \in Seq(T) /\ Len(got) = Cardinality(set) /\ Cardinality(set) \in Nat
  /\ \E at \in [DOMAIN got -> set] :
        /\ \A n \in DOMAIN got : got[n] = seq[at[n]]
        /\ \A i \in set : \E n \in DOMAIN got : at[n] = i
        /\ \A m, n \in DOMAIN got : m < n <=> at[m] < at[n]

LEMMA PickedIs ==
  ASSUME NEW T, NEW seq \in Seq(T), NEW set \in SUBSET (DOMAIN seq)
  PROVE  Extract(Picked(seq, set), T, seq, set)
<1> DEFINE R == SmallerRel(set)
           at == Ascending(set)
           got == Picked(seq, set)
<1>1. /\ \A x, y \in set : /\ <<x, y>> \in R <=> Ahead(x, y)
                           /\ Ahead(x, y) <=> x < y
      /\ \A x \in set : x \in Nat /\ x <= Len(seq)
      /\ DOMAIN seq = 1 .. Len(seq) /\ Len(seq) \in Nat
      /\ \A i \in DOMAIN seq : seq[i] \in T
  BY DEF SmallerRel, Ahead
<1>2. IsFiniteSet(set)
  <2>1. set \in SUBSET Nat
    BY <1>1
  <2>2. QED BY <1>1, <2>1, FS_BoundedSetOfNaturals
<1>3. Sorted(at, set, R)
  <2>1. set \in SUBSET Nat
    BY <1>1
  <2>2. QED BY <1>2, <2>1, PositionsInOrder
<1>6. got = [n \in 1..Cardinality(set) |-> seq[at[n]]]
  BY DEF Picked
<1> HIDE DEF R, at, got
<1>11. /\ DOMAIN at = 1 .. Cardinality(set) /\ Cardinality(set) \in Nat
       /\ \A n \in DOMAIN at : at[n] \in set
       /\ \A x \in set : \E n \in DOMAIN at : at[n] = x
       /\ \A m, n \in DOMAIN at : m < n <=> <<at[m], at[n]>> \in R
  BY <1>3 DEF Sorted
<1>12. /\ got \in [1..Cardinality(set) -> T] /\ DOMAIN got = 1..Cardinality(set)
       /\ \A n \in DOMAIN got : got[n] = seq[at[n]]
  BY <1>1, <1>6, <1>11
<1>13. got \in Seq(T) /\ Len(got) = Cardinality(set)
  BY <1>11, <1>12
<1>14. at \in [DOMAIN got -> set]
  <2>1. at \in Seq(set)
    BY <1>3 DEF Sorted
  <2>2. QED BY <1>11, <1>12, <2>1
<1>15. \A m, n \in DOMAIN got : m < n <=> at[m] < at[n]
  BY <1>1, <1>11, <1>12
<1>16. \A i \in set : \E n \in DOMAIN got : at[n] = i
  BY <1>11, <1>12
<1>17. Extract(got, T, seq, set)
  BY <1>11, <1>12, <1>13, <1>14, <1>15, <1>16 DEF Extract
<1>18. QED BY <1>17 DEF got

-----------------------------------------------------------------------------
(* Pages                                                                   *)

LEMMA LesserOf ==
  ASSUME NEW a \in Int, NEW b \in Int
  PROVE  Min({a, b}) = IF a <= b THEN a ELSE b
<1>1. CASE a <= b
  <2>1. \A y \in {a, b} : a <= y
    BY <1>1
  <2>2. \A x \in {a, b} : (\A y \in {a, b} : x <= y) => x = a
    BY <1>1
  <2>3. QED BY <1>1, <2>1, <2>2 DEF Min
<1>2. CASE ~(a <= b)
  <2>1. \A y \in {a, b} : b <= y
    BY <1>2
  <2>2. \A x \in {a, b} : (\A y \in {a, b} : x <= y) => x = b
    BY <1>2
  <2>3. QED BY <1>2, <2>1, <2>2 DEF Min
<1>3. QED BY <1>1, <1>2

\* Pages are of one length and follow each other without a gap.
LEMMA PagesTile ==
  /\ HistoryLimit \in Nat \ {0}
  /\ \A number \in Nat \ {0} : Offset(number) \in Nat /\ Offset(number + 1) = Offset(number) + HistoryLimit
  /\ \A p \in Nat, k \in Nat \ {0} : k <= Offset(p + 1) =>
        \E q \in 1 .. p : Offset(q) < k /\ k <= Offset(q) + HistoryLimit
<1>1. HistoryLimit \in Nat \ {0}
  BY RateHistoryAssumption
<1>2. ASSUME NEW number \in Nat \ {0}
      PROVE  Offset(number) \in Nat /\ Offset(number + 1) = Offset(number) + HistoryLimit
  <2>1. Offset(number) = (number - 1) * HistoryLimit
        /\ Offset(number + 1) = ((number - 1) + 1) * HistoryLimit
    <3>1. (number + 1) - 1 = (number - 1) + 1
      OBVIOUS
    <3>2. QED BY <3>1 DEF Offset
  <2>2. number - 1 \in Nat
    OBVIOUS
  <2>3. \A n \in Nat : n * HistoryLimit \in Nat /\ (n + 1) * HistoryLimit = n * HistoryLimit + HistoryLimit
    BY <1>1
  <2>4. QED BY <2>1, <2>2, <2>3
<1>3. ASSUME NEW p \in Nat, NEW k \in Nat \ {0}, k <= Offset(p + 1)
      PROVE  \E q \in 1 .. p : Offset(q) < k /\ k <= Offset(q) + HistoryLimit
  <2> DEFINE d == (k - 1) \div HistoryLimit
             m == (k - 1) % HistoryLimit
  <2>1. /\ m \in 0 .. HistoryLimit - 1 /\ d \in Int /\ k - 1 = (HistoryLimit * d) + m
    BY <1>1
  <2> HIDE DEF d, m
  <2>2. d \in Nat
    <3>1. SUFFICES ASSUME d <= -1 PROVE FALSE
      BY <2>1
    <3>2. HistoryLimit * d <= HistoryLimit * (-1)
      BY <1>1, <2>1, <3>1
    <3>3. QED BY <1>1, <2>1, <3>2
  <2>3. Offset(d + 1) = HistoryLimit * d /\ Offset(p + 1) = HistoryLimit * p
    BY <1>1, <2>2 DEF Offset
  <2>4. d + 1 <= p
    <3>1. SUFFICES ASSUME p <= d PROVE FALSE
      BY <2>2
    <3>2. HistoryLimit * p <= HistoryLimit * d
      BY <1>1, <2>2, <3>1
    <3>3. HistoryLimit * d \in Int /\ HistoryLimit * p \in Int
      BY <1>1, <2>2
    <3>4. QED BY <1>1, <1>3, <2>1, <2>3, <3>2, <3>3
  <2>5. HistoryLimit * d \in Int
    BY <1>1, <2>2
  <2>6. Offset(d + 1) < k /\ k <= Offset(d + 1) + HistoryLimit
    BY <1>1, <2>1, <2>3, <2>5
  <2>7. d + 1 \in 1 .. p
    BY <2>2, <2>4
  <2>8. QED BY <2>6, <2>7
<1>4. QED BY <1>1, <1>2, <1>3

\* What a page is of the order it is cut from.
CutOf(raw, sorted, offset) ==
  /\ Len(raw) <= HistoryLimit
  /\ \A i \in 1 .. Len(raw) : offset + i \in DOMAIN sorted /\ raw[i] = sorted[offset + i]
  /\ \A k \in DOMAIN sorted : offset < k /\ k <= offset + HistoryLimit =>
        k - offset \in 1 .. Len(raw)

\* A page has the matching rows at its places in the order, newest first.
LEMMA PageIs ==
  ASSUME NEW rows \in SUBSET AllRows, NEW keys, NEW number \in Nat \ {0}
  PROVE  /\ Matching(rows, keys) \in SUBSET AllRows
         /\ RawPage(rows, keys, number) \in Seq(Matching(rows, keys))
         /\ CutOf(RawPage(rows, keys, number), NewestFirst(Matching(rows, keys)), Offset(number))
<1> DEFINE set == Matching(rows, keys)
           sorted == NewestFirst(set)
           raw == RawPage(rows, keys, number)
           last == Min({Offset(number) + HistoryLimit, Len(sorted)})
<1>1. set \in SUBSET AllRows
  BY DEF Matching
<1>2. /\ sorted \in Seq(set) /\ DOMAIN sorted = 1 .. Len(sorted) /\ Len(sorted) \in Nat
      /\ \A n \in 1 .. Len(sorted) : sorted[n] \in set
  <2>1. Sorted(sorted, set, NewestRel(set))
    BY <1>1, NewestFirstIs
  <2> HIDE DEF set, sorted
  <2>2. QED BY <2>1 DEF Sorted
<1>3. Offset(number) \in Nat /\ HistoryLimit \in Nat
  BY PagesTile
<1>4. last = IF Offset(number) + HistoryLimit <= Len(sorted)
             THEN Offset(number) + HistoryLimit ELSE Len(sorted)
  BY <1>2, <1>3, LesserOf
<1>5. raw = SubSeq(sorted, Offset(number) + 1, last)
  BY DEF RawPage
<1> HIDE DEF set, sorted, last, raw
<1>6. last \in Int /\ last <= Len(sorted) /\ last <= Offset(number) + HistoryLimit
  <2>1. CASE Offset(number) + HistoryLimit <= Len(sorted)
    BY <1>2, <1>3, <1>4, <2>1
  <2>2. CASE ~(Offset(number) + HistoryLimit <= Len(sorted))
    BY <1>2, <1>3, <1>4, <2>2
  <2>3. QED BY <2>1, <2>2
<1>7. /\ raw \in Seq(set)
      /\ Len(raw) = IF Offset(number) + 1 <= last THEN last - (Offset(number) + 1) + 1 ELSE 0
      /\ \A i \in 1 .. last - (Offset(number) + 1) + 1 :
            raw[i] = sorted[Offset(number) + 1 + i - 1]
  <2>1. \A i \in Offset(number) + 1 .. last : sorted[i] \in set
    BY <1>2, <1>3, <1>6
  <2>2. Offset(number) + 1 \in Int
    BY <1>3
  <2>3. QED BY <1>5, <1>6, <2>1, <2>2, SubSeqProperties
<1>8. Len(raw) <= HistoryLimit /\ Len(raw) \in Nat
  BY <1>3, <1>6, <1>7
<1>9. ASSUME NEW i \in 1 .. Len(raw)
      PROVE  Offset(number) + i \in DOMAIN sorted /\ raw[i] = sorted[Offset(number) + i]
  <2>1. i \in 1 .. last - (Offset(number) + 1) + 1
    BY <1>3, <1>6, <1>7, <1>8
  <2>2. Offset(number) + 1 + i - 1 = Offset(number) + i /\ Offset(number) + i \in 1 .. Len(sorted)
    BY <1>2, <1>3, <1>6, <2>1
  <2>3. QED BY <1>2, <1>7, <2>1, <2>2
<1>10. ASSUME NEW k \in DOMAIN sorted, Offset(number) < k, k <= Offset(number) + HistoryLimit
       PROVE  k - Offset(number) \in 1 .. Len(raw)
  <2>1. k \in Nat /\ k <= Len(sorted)
    BY <1>2
  <2>2. k <= last
    BY <1>2, <1>3, <1>4, <1>10, <2>1
  <2>3. QED BY <1>3, <1>6, <1>7, <1>10, <2>1, <2>2
<1>11. CutOf(raw, sorted, Offset(number))
  BY <1>8, <1>9, <1>10 DEF CutOf
<1>12. QED BY <1>1, <1>7, <1>11 DEF set, sorted, raw

\* Turning pages while rows are stored misses none, on page p + 1 after p pages.
LEMMA NoGapBetweenPages ==
  ASSUME NEW after \in SUBSET AllRows, NEW before \in SUBSET after, NEW keys,
         NEW p \in Nat
  PROVE  NoGap(before, after, keys, p)
<1> DEFINE B == Matching(before, keys)
           A == Matching(after, keys)
           sb == NewestFirst(B)
           sa == NewestFirst(A)
           next == RawPage(after, keys, p + 1)
<1>1. B \in SUBSET A /\ A \in SUBSET AllRows /\ B \in SUBSET AllRows
  BY DEF Matching
<1>2. Sorted(sb, B, NewestRel(B)) /\ Sorted(sa, A, NewestRel(A))
  BY <1>1, NewestFirstIs
<1>3. SUFFICES ASSUME NEW r \in B, \A q \in 1 .. p : r \notin Range(RawPage(before, keys, q)),
                      r \notin Range(next), NEW q \in Range(next)
               PROVE  Newer(q, r)
  BY DEF NoGap
<1> HIDE DEF A, B, sa, sb
<1>4. PICK k \in DOMAIN sb : sb[k] = r
  BY <1>2 DEF Sorted
<1>5. PICK n \in DOMAIN sa : sa[n] = r
  BY <1>1, <1>2 DEF Sorted
<1>6. k \in Nat \ {0} /\ n \in Nat \ {0}
  BY <1>2 DEF Sorted
<1>7. k <= n
  <2>1. /\ Cardinality({y \in B : <<y, r>> \in NewestRel(B)}) = k - 1
        /\ Cardinality({y \in A : <<y, r>> \in NewestRel(A)}) = n - 1
    BY <1>2, <1>4, <1>5 DEF Sorted
  <2>2. {y \in B : <<y, r>> \in NewestRel(B)} \in SUBSET {y \in A : <<y, r>> \in NewestRel(A)}
    BY <1>1 DEF NewestRel
  <2>3. IsFiniteSet({y \in A : <<y, r>> \in NewestRel(A)})
    <3>1. IsFiniteSet(A)
      BY <1>1, NewerIsTotal
    <3>2. {y \in A : <<y, r>> \in NewestRel(A)} \in SUBSET A
      OBVIOUS
    <3>3. QED BY <3>1, <3>2, FS_Subset
  <2>4. Cardinality({y \in B : <<y, r>> \in NewestRel(B)})
          <= Cardinality({y \in A : <<y, r>> \in NewestRel(A)})
    BY <2>2, <2>3, FS_Subset
  <2>5. QED BY <1>6, <2>1, <2>4
<1>8. ~(k <= Offset(p + 1))
  <2>1. SUFFICES ASSUME k <= Offset(p + 1) PROVE FALSE
    OBVIOUS
  <2>2. PICK j \in 1 .. p : Offset(j) < k /\ k <= Offset(j) + HistoryLimit
    BY <1>6, <2>1, PagesTile
  <2> DEFINE raw == RawPage(before, keys, j)
  <2>3. j \in Nat \ {0}
    OBVIOUS
  <2>4. raw \in Seq(B) /\ CutOf(raw, sb, Offset(j))
    BY <2>3, PageIs DEF B, sb
  <2>5. k - Offset(j) \in 1 .. Len(raw) /\ raw[k - Offset(j)] = sb[Offset(j) + (k - Offset(j))]
    <3> HIDE DEF raw
    <3>1. QED BY <1>4, <2>2, <2>4 DEF CutOf
  <2>6. Offset(j) + (k - Offset(j)) = k
    BY <1>6, <2>3, PagesTile
  <2> HIDE DEF raw
  <2>7. r \in Range(raw)
    BY <1>4, <2>4, <2>5, <2>6 DEF Range
  <2>8. QED BY <1>3, <2>7 DEF raw
<1>9. Offset(p + 1) \in Nat /\ HistoryLimit \in Nat /\ p + 1 \in Nat \ {0}
  BY PagesTile
<1>10. /\ next \in Seq(A)
       /\ \A i \in 1 .. Len(next) : /\ Offset(p + 1) + i \in DOMAIN sa
                                    /\ next[i] = sa[Offset(p + 1) + i]
       /\ Len(next) <= HistoryLimit
       /\ \A i \in DOMAIN sa : Offset(p + 1) < i /\ i <= Offset(p + 1) + HistoryLimit =>
             i - Offset(p + 1) \in 1 .. Len(next)
  <2>1. next \in Seq(A) /\ CutOf(next, sa, Offset(p + 1))
    BY <1>9, PageIs DEF A, sa
  <2> HIDE DEF next
  <2>2. QED BY <2>1 DEF CutOf
<1> HIDE DEF next
<1>11. n > Offset(p + 1) + HistoryLimit
  <2>1. SUFFICES ASSUME n <= Offset(p + 1) + HistoryLimit PROVE FALSE
    BY <1>6, <1>9
  <2>2. n - Offset(p + 1) \in 1 .. Len(next) /\ Offset(p + 1) + (n - Offset(p + 1)) = n
    BY <1>6, <1>7, <1>8, <1>9, <1>10, <2>1
  <2>3. next[n - Offset(p + 1)] = r
    BY <1>5, <1>10, <2>2
  <2>4. QED BY <1>3, <1>10, <2>2, <2>3 DEF Range
<1>12. PICK i \in 1 .. Len(next) : q = next[i]
  BY <1>3, <1>10 DEF Range
<1>13. Offset(p + 1) + i < n /\ Offset(p + 1) + i \in DOMAIN sa /\ q = sa[Offset(p + 1) + i]
  <2>1. i \in Nat /\ i <= HistoryLimit
    <3>1. Len(next) \in Nat
      BY <1>10
    <3>2. QED BY <1>9, <1>10, <3>1
  <2>2. QED BY <1>6, <1>9, <1>10, <1>11, <1>12, <2>1
<1>14. <<q, r>> \in NewestRel(A)
  BY <1>2, <1>5, <1>13 DEF Sorted
<1>15. QED BY <1>14 DEF NewestRel

-----------------------------------------------------------------------------
(* Entries of a page                                                       *)

LEMMA LeastIs ==
  ASSUME NEW S \in SUBSET Nat, S # {}
  PROVE  Min(S) \in S /\ \A y \in S : Min(S) <= y
<1>1. PICK x \in S : \A y \in S : ~(<<y, x>> \in OpToRel(<, Nat))
  BY NatLessThanWellFounded, WFMin
<1>2. ASSUME NEW y \in S, y < x PROVE FALSE
  <2>1. <<y, x>> \in Nat \X Nat /\ <<y, x>>[1] < <<y, x>>[2]
    BY <1>2
  <2>2. <<y, x>> \in OpToRel(<, Nat)
    BY <2>1 DEF OpToRel
  <2>3. QED BY <1>1, <2>2
<1>3. \A y \in S : x <= y
  BY <1>2
<1>4. QED BY <1>3 DEF Min

LEMMA GreatestIs ==
  ASSUME NEW n \in Nat, NEW S \in SUBSET (1 .. n), S # {}
  PROVE  Max(S) \in S /\ \A y \in S : y <= Max(S)
<1> DEFINE T == {d \in 0 .. n : n - d \in S}
<1>1. T \in SUBSET Nat /\ T # {}
  <2>1. PICK x \in S : TRUE
    OBVIOUS
  <2>2. x \in S /\ x \in Nat /\ x <= n
    BY <2>1
  <2>3. n - x \in 0 .. n /\ n - (n - x) = x
    BY <2>2
  <2>4. n - x \in T
    BY <2>2, <2>3
  <2>5. T \in SUBSET Nat
    OBVIOUS
  <2> HIDE DEF T
  <2>6. QED BY <2>4, <2>5
<1>2. Min(T) \in T /\ \A d \in T : Min(T) <= d
  <2> HIDE DEF T
  <2>1. QED BY <1>1, LeastIs
<1> DEFINE d == Min(T)
<1> HIDE DEF d
<1>3. d \in 0 .. n /\ n - d \in S
  BY <1>2 DEF d
<1>4. ASSUME NEW y \in S PROVE y <= n - d
  <2>1. n - y \in 0 .. n /\ n - (n - y) = y
    OBVIOUS
  <2>2. n - y \in T
    BY <2>1
  <2>3. d <= n - y
    BY <1>2, <2>2 DEF d
  <2>4. QED BY <1>3, <2>1, <2>3
<1>5. QED BY <1>3, <1>4 DEF Max

\* A price of an item is that of a row of its group and direction.
LEMMA PriceIs ==
  ASSUME NEW raw \in Seq(AllRows), NEW group, NEW kind, PriceIn(raw, group, kind) # NoValue
  PROVE  \E i \in DOMAIN raw : /\ GroupOf(raw[i]) = group /\ Kind[raw[i].source] = kind
                               /\ raw[i].id = PriceIn(raw, group, kind)
<1> DEFINE hits == {i \in DOMAIN raw : GroupOf(raw[i]) = group /\ Kind[raw[i].source] = kind}
<1>1. hits # {} /\ PriceIn(raw, group, kind) = raw[Max(hits)].id
  BY DEF PriceIn
<1>2. hits \in SUBSET (1 .. Len(raw)) /\ Len(raw) \in Nat
  OBVIOUS
<1>3. Max(hits) \in hits
  <2> HIDE DEF hits
  <2>1. QED BY <1>1, <1>2, GreatestIs
<1>4. QED BY <1>1, <1>3

\* The entries of a page, each with the place of its group's first row.
Entry(raw, group) ==
  [title |-> group[1], time |-> group[2],
   bid |-> PriceIn(raw, group, "BID"), ask |-> PriceIn(raw, group, "ASK")]

LEMMA GroupedIs ==
  ASSUME NEW raw \in Seq(AllRows)
  PROVE  LET items == Grouped(raw)
         IN  /\ DOMAIN items = 1 .. Len(items) /\ Len(items) \in Nat
             /\ \E at \in [DOMAIN items -> FirstOfGroup(raw)] :
                   /\ \A n \in DOMAIN items : items[n] = Entry(raw, GroupOf(raw[at[n]]))
                   /\ \A i \in FirstOfGroup(raw) : \E n \in DOMAIN items : at[n] = i
                   /\ \A m, n \in DOMAIN items : m < n <=> at[m] < at[n]
<1> DEFINE items == Grouped(raw)
           firsts == FirstOfGroup(raw)
           starts == Picked(raw, firsts)
<1>1. firsts \in SUBSET (DOMAIN raw)
  BY DEF FirstOfGroup
<1>2. /\ starts \in Seq(AllRows)
      /\ \E at \in [DOMAIN starts -> firsts] :
            /\ \A n \in DOMAIN starts : starts[n] = raw[at[n]]
            /\ \A i \in firsts : \E n \in DOMAIN starts : at[n] = i
            /\ \A m, n \in DOMAIN starts : m < n <=> at[m] < at[n]
  <2> HIDE DEF firsts
  <2>1. Extract(starts, AllRows, raw, firsts)
    BY <1>1, PickedIs
  <2>2. QED BY <2>1 DEF Extract
<1>3. items = [n \in DOMAIN starts |-> Entry(raw, GroupOf(starts[n]))]
  BY DEF Grouped, Entry
<1> HIDE DEF items, firsts, starts
<1>4. DOMAIN starts = 1 .. Len(starts) /\ Len(starts) \in Nat
  BY <1>2
<1>5. DOMAIN items = 1 .. Len(starts) /\ Len(items) = Len(starts)
      /\ \A n \in DOMAIN items : items[n] = Entry(raw, GroupOf(starts[n]))
  BY <1>3, <1>4
<1>6. PICK at \in [DOMAIN starts -> firsts] :
            /\ \A n \in DOMAIN starts : starts[n] = raw[at[n]]
            /\ \A i \in firsts : \E n \in DOMAIN starts : at[n] = i
            /\ \A m, n \in DOMAIN starts : m < n <=> at[m] < at[n]
  BY <1>2
<1>7. at \in [DOMAIN items -> firsts]
      /\ \A n \in DOMAIN items : items[n] = Entry(raw, GroupOf(raw[at[n]]))
  BY <1>4, <1>5, <1>6
<1>8. /\ \A i \in firsts : \E n \in DOMAIN items : at[n] = i
      /\ \A m, n \in DOMAIN items : m < n <=> at[m] < at[n]
  BY <1>4, <1>5, <1>6
<1>9. \E f \in [DOMAIN items -> firsts] :
                   /\ \A n \in DOMAIN items : items[n] = Entry(raw, GroupOf(raw[f[n]]))
                   /\ \A i \in firsts : \E n \in DOMAIN items : f[n] = i
                   /\ \A m, n \in DOMAIN items : m < n <=> f[m] < f[n]
  BY <1>7, <1>8
<1>10. QED BY <1>4, <1>5, <1>9 DEF items, firsts

\* from is the price of a side that item n follows on its page, if there is one.
Resumes(items, n, side, from) ==
  LET before == {m \in (n + 1)..Len(items) :
                    items[m].title = items[n].title /\ items[m][side] # NoValue}
  IN  /\ before = {} => from = NoValue
      /\ before # {} => /\ from # NoValue
                        /\ \E m \in before : /\ from = items[m][side]
                                             /\ \A k \in before : k # m =>
                                                   items[k].time <= items[m].time

\* A delta is taken against the provider's next older price of its direction.
LEMMA PreviousIs ==
  ASSUME NEW items, DOMAIN items = 1 .. Len(items), Len(items) \in Nat,
         \A m, k \in DOMAIN items : m < k => items[k].time <= items[m].time,
         NEW n \in DOMAIN items, NEW side
  PROVE  Resumes(items, n, side, PreviousIn(items, n, side))
<1> DEFINE before == {m \in (n + 1)..Len(items) :
                         items[m].title = items[n].title /\ items[m][side] # NoValue}
<1>1. before = {} => PreviousIn(items, n, side) = NoValue
  BY DEF PreviousIn
<1>2. ASSUME before # {}
      PROVE  /\ PreviousIn(items, n, side) = items[Min(before)][side]
             /\ Min(before) \in before /\ \A k \in before : Min(before) <= k
  <2>1. PreviousIn(items, n, side) = items[Min(before)][side]
    BY <1>2 DEF PreviousIn
  <2>2. before \in SUBSET Nat
    OBVIOUS
  <2> HIDE DEF before
  <2>3. QED BY <1>2, <2>1, <2>2, LeastIs
<1>3. ASSUME before # {}
      PROVE  /\ PreviousIn(items, n, side) # NoValue
             /\ \E m \in before : /\ PreviousIn(items, n, side) = items[m][side]
                                  /\ \A k \in before : k # m => items[k].time <= items[m].time
  <2> DEFINE m == Min(before)
  <2>1. m \in before /\ \A k \in before : m <= k
    BY <1>2, <1>3
  <2>2. PreviousIn(items, n, side) = items[m][side]
    BY <1>2, <1>3
  <2> HIDE DEF m
  <2>3. \A k \in before : k # m => k \in DOMAIN items /\ m \in DOMAIN items /\ m < k
    BY <2>1
  <2>4. QED BY <2>1, <2>2, <2>3
<1>4. QED BY <1>1, <1>3 DEF Resumes

\* The entries of rows in order tell what the rows do.
LEMMA EntriesFollow ==
  ASSUME NEW raw \in Seq(AllRows),
         \A i, j \in DOMAIN raw : i < j => Newer(raw[i], raw[j])
  PROVE  EntriesRight(raw, WithDeltas(Grouped(raw)))
<1> DEFINE g == Grouped(raw)
           items == WithDeltas(g)
           firsts == FirstOfGroup(raw)
<1>1. DOMAIN raw = 1 .. Len(raw) /\ Len(raw) \in Nat
      /\ \A i \in DOMAIN raw : raw[i] \in AllRows /\ raw[i].time \in Nat
  BY RateHistoryAssumption
<1>2. DOMAIN g = 1 .. Len(g) /\ Len(g) \in Nat
  BY GroupedIs
<1>3. PICK at \in [DOMAIN g -> firsts] :
         /\ \A n \in DOMAIN g : g[n] = Entry(raw, GroupOf(raw[at[n]]))
         /\ \A i \in firsts : \E n \in DOMAIN g : at[n] = i
         /\ \A m, n \in DOMAIN g : m < n <=> at[m] < at[n]
  BY GroupedIs
<1>4. /\ DOMAIN items = DOMAIN g
      /\ \A n \in DOMAIN g :
            items[n] = [title |-> g[n].title, time |-> g[n].time,
                        bid |-> g[n].bid,
                        bidFrom |-> IF g[n]["bid"] = NoValue THEN NoValue ELSE PreviousIn(g, n, "bid"),
                        ask |-> g[n].ask,
                        askFrom |-> IF g[n]["ask"] = NoValue THEN NoValue ELSE PreviousIn(g, n, "ask")]
  BY DEF WithDeltas
<1> HIDE DEF items
<1>5. \A n \in DOMAIN g : /\ items[n].title = g[n].title /\ items[n].time = g[n].time
                          /\ items[n].bid = g[n].bid /\ items[n].ask = g[n].ask
                          /\ items[n]["bid"] = g[n]["bid"] /\ items[n]["ask"] = g[n]["ask"]
                          /\ g[n].bid # NoValue => items[n].bidFrom = PreviousIn(g, n, "bid")
                          /\ g[n].ask # NoValue => items[n].askFrom = PreviousIn(g, n, "ask")
  BY <1>4
<1> HIDE DEF g
<1>6. \A n \in DOMAIN g : /\ at[n] \in DOMAIN raw /\ at[n] \in firsts
                          /\ g[n].title = Title[raw[at[n]].source] /\ g[n].time = raw[at[n]].time
                          /\ <<g[n].title, g[n].time>> = GroupOf(raw[at[n]])
                          /\ g[n].bid = PriceIn(raw, GroupOf(raw[at[n]]), "BID")
                          /\ g[n].ask = PriceIn(raw, GroupOf(raw[at[n]]), "ASK")
  BY <1>3 DEF Entry, GroupOf, FirstOfGroup
<1>7. \A m, n \in DOMAIN g : m < n => /\ g[m].time >= g[n].time
                                      /\ g[m].title = g[n].title => g[m].time # g[n].time
  <2>1. SUFFICES ASSUME NEW m \in DOMAIN g, NEW n \in DOMAIN g, m < n
                 PROVE  /\ g[m].time >= g[n].time
                        /\ g[m].title = g[n].title => g[m].time # g[n].time
    OBVIOUS
  <2>2. at[m] < at[n] /\ at[m] \in DOMAIN raw /\ at[n] \in DOMAIN raw
    BY <1>3, <1>6, <2>1
  <2>3. raw[at[m]].time >= raw[at[n]].time
    BY <1>1, <2>2 DEF Newer
  <2>4. at[m] \in 1 .. (at[n] - 1)
    BY <1>1, <2>2
  <2>5. GroupOf(raw[at[m]]) # GroupOf(raw[at[n]])
    BY <1>6, <2>4 DEF FirstOfGroup
  <2>6. QED BY <1>6, <2>3, <2>5 DEF GroupOf
<1>8. ASSUME NEW n \in DOMAIN raw
      PROVE  \E m \in DOMAIN items : <<items[m].title, items[m].time>> = GroupOf(raw[n])
  <2> DEFINE same == {j \in DOMAIN raw : GroupOf(raw[j]) = GroupOf(raw[n])}
             i == Min(same)
  <2>1. same \in SUBSET Nat /\ n \in same
    BY <1>1
  <2>2. i \in same /\ \A j \in same : i <= j
    <3> HIDE DEF same
    <3>1. QED BY <2>1, LeastIs
  <2> HIDE DEF i
  <2>3. i \in DOMAIN raw /\ GroupOf(raw[i]) = GroupOf(raw[n])
    BY <2>2
  <2>4. i \in firsts
    <3>1. ASSUME NEW j \in 1 .. (i - 1) PROVE GroupOf(raw[j]) # GroupOf(raw[i])
      <4>1. j \in DOMAIN raw /\ ~(i <= j)
        BY <1>1, <2>3
      <4>2. QED BY <2>2, <2>3, <4>1
    <3>2. QED BY <2>3, <3>1 DEF FirstOfGroup
  <2>5. PICK m \in DOMAIN g : at[m] = i
    BY <1>3, <2>4
  <2>6. QED BY <1>4, <1>5, <1>6, <2>3, <2>5
<1>9. ASSUME NEW n \in DOMAIN items, items[n]["bid"] # NoValue
      PROVE  Behind(raw, items[n], "bid", "BID")
  <2>1. PICK i \in DOMAIN raw : /\ GroupOf(raw[i]) = GroupOf(raw[at[n]]) /\ Kind[raw[i].source] = "BID"
                                /\ raw[i].id = items[n]["bid"]
    <3>1. items[n]["bid"] = PriceIn(raw, GroupOf(raw[at[n]]), "BID")
      BY <1>4, <1>5, <1>6
    <3>2. QED BY <1>9, <3>1, PriceIs
  <2>2. GroupOf(raw[i]) = <<items[n].title, items[n].time>>
    BY <1>4, <1>5, <1>6, <2>1
  <2>3. QED BY <2>1, <2>2 DEF Behind
<1>10. ASSUME NEW n \in DOMAIN items, items[n]["ask"] # NoValue
       PROVE  Behind(raw, items[n], "ask", "ASK")
  <2>1. PICK i \in DOMAIN raw : /\ GroupOf(raw[i]) = GroupOf(raw[at[n]]) /\ Kind[raw[i].source] = "ASK"
                                /\ raw[i].id = items[n]["ask"]
    <3>1. items[n]["ask"] = PriceIn(raw, GroupOf(raw[at[n]]), "ASK")
      BY <1>4, <1>5, <1>6
    <3>2. QED BY <1>10, <3>1, PriceIs
  <2>2. GroupOf(raw[i]) = <<items[n].title, items[n].time>>
    BY <1>4, <1>5, <1>6, <2>1
  <2>3. QED BY <2>1, <2>2 DEF Behind
<1>11. Len(items) = Len(g) /\ \A n \in DOMAIN g : g[n].time \in Nat
  <2>1. DOMAIN items = 1 .. Len(g)
    BY <1>2, <1>4
  <2>2. Len(items) = Len(g)
    BY <1>2, <2>1
  <2>3. QED BY <1>1, <1>6, <2>2
<1>12. \A m, k \in DOMAIN g : m < k => g[k].time <= g[m].time
  BY <1>7, <1>11
<1>13. ASSUME NEW n \in DOMAIN items, NEW side \in {"bid", "ask"},
              NEW from, from = PreviousIn(g, n, side)
       PROVE  LET before == {m \in (n + 1)..Len(items) :
                                items[m].title = items[n].title /\ items[m][side] # NoValue}
              IN  /\ from = NoValue <=> before = {}
                  /\ from # NoValue => \E m \in before :
                        from = items[m][side] /\ \A k \in before : items[k].time <= items[m].time
  <2> DEFINE before == {m \in (n + 1)..Len(items) :
                           items[m].title = items[n].title /\ items[m][side] # NoValue}
             older == {m \in (n + 1)..Len(g) :
                           g[m].title = g[n].title /\ g[m][side] # NoValue}
  <2>1. n \in DOMAIN g /\ \A m \in (n + 1)..Len(g) : m \in DOMAIN g
    BY <1>2, <1>4
  <2>2. \A m \in DOMAIN g : /\ items[m].title = g[m].title /\ items[m][side] = g[m][side]
                            /\ items[m].time = g[m].time
    BY <1>5
  <2>3. before = older
    BY <1>11, <2>1, <2>2
  <2>4. /\ older = {} => from = NoValue
        /\ older # {} => /\ from # NoValue
                         /\ \E m \in older : /\ from = g[m][side]
                                             /\ \A k \in older : k # m => g[k].time <= g[m].time
    <3>1. Resumes(g, n, side, PreviousIn(g, n, side))
      BY <1>2, <1>12, <2>1, PreviousIs
    <3>2. Resumes(g, n, side, from)
      BY <1>13, <3>1
    <3>3. QED BY <3>2 DEF Resumes
  <2>5. older \in SUBSET (DOMAIN g)
    BY <2>1
  <2> HIDE DEF before, older
  <2>6. /\ from = NoValue <=> before = {}
        /\ from # NoValue => \E m \in before :
              from = items[m][side] /\ \A k \in before : items[k].time <= items[m].time
    <3>1. from = NoValue <=> before = {}
      BY <2>3, <2>4
    <3>2. ASSUME from # NoValue
          PROVE  \E m \in before :
                    from = items[m][side] /\ \A k \in before : items[k].time <= items[m].time
      <4>1. PICK m \in older : /\ from = g[m][side]
                               /\ \A k \in older : k # m => g[k].time <= g[m].time
        BY <2>4, <3>2
      <4>2. \A k \in older : g[k].time <= g[m].time
        BY <1>11, <2>5, <4>1
      <4>3. QED BY <2>2, <2>3, <2>5, <4>1, <4>2
    <3>3. QED BY <3>1, <3>2
  <2>7. QED BY <2>6 DEF before
<1>14. \A m, n \in DOMAIN items : m < n =>
        /\ items[m].time >= items[n].time
        /\ items[m].title = items[n].title => items[m].time # items[n].time
  BY <1>4, <1>5, <1>7
<1>15. ASSUME NEW n \in DOMAIN items, NEW side \in {"bid", "ask"}
       PROVE  LET kind == IF side = "bid" THEN "BID" ELSE "ASK"
                  from == IF side = "bid" THEN items[n].bidFrom ELSE items[n].askFrom
                  before == {m \in (n + 1)..Len(items) :
                                items[m].title = items[n].title /\ items[m][side] # NoValue}
              IN items[n][side] # NoValue =>
                  /\ Behind(raw, items[n], side, kind)
                  /\ from = NoValue <=> before = {}
                  /\ from # NoValue => \E m \in before :
                      from = items[m][side] /\ \A k \in before : items[k].time <= items[m].time
  <2>1. CASE side = "bid"
    <3>1. SUFFICES ASSUME items[n]["bid"] # NoValue
                   PROVE  LET before == {m \in (n + 1)..Len(items) :
                                items[m].title = items[n].title /\ items[m]["bid"] # NoValue}
                              from == items[n].bidFrom
                          IN  /\ Behind(raw, items[n], "bid", "BID")
                              /\ from = NoValue <=> before = {}
                              /\ from # NoValue => \E m \in before :
                                    from = items[m]["bid"]
                                    /\ \A k \in before : items[k].time <= items[m].time
      BY <2>1
    <3>2. Behind(raw, items[n], "bid", "BID")
      BY <1>9, <3>1
    <3>3. items[n].bidFrom = PreviousIn(g, n, "bid")
      BY <1>4, <1>5, <3>1
    <3>4. QED BY <1>13, <3>2, <3>3
  <2>2. CASE side = "ask"
    <3>1. SUFFICES ASSUME items[n]["ask"] # NoValue
                   PROVE  LET before == {m \in (n + 1)..Len(items) :
                                items[m].title = items[n].title /\ items[m]["ask"] # NoValue}
                              from == items[n].askFrom
                          IN  /\ Behind(raw, items[n], "ask", "ASK")
                              /\ from = NoValue <=> before = {}
                              /\ from # NoValue => \E m \in before :
                                    from = items[m]["ask"]
                                    /\ \A k \in before : items[k].time <= items[m].time
      BY <2>2
    <3>2. Behind(raw, items[n], "ask", "ASK")
      BY <1>10, <3>1
    <3>3. items[n].askFrom = PreviousIn(g, n, "ask")
      BY <1>4, <1>5, <3>1
    <3>4. QED BY <1>13, <3>2, <3>3
  <2>3. QED BY <2>1, <2>2
<1>16. QED BY <1>8, <1>14, <1>15 DEF EntriesRight, items, g

\* Whatever rows are stored, the entries of a page tell what they do.
LEMMA EntriesOfAPage ==
  ASSUME NEW rows \in SUBSET AllRows, NEW subscribed, NEW pair, NEW title, NEW number \in Nat \ {0}
  PROVE  EntriesRight(RawPage(rows, MatchingKeys(subscribed, pair, title), number),
                      History(rows, subscribed, pair, title, number).items)
<1> DEFINE keys == MatchingKeys(subscribed, pair, title)
           set == Matching(rows, keys)
           sorted == NewestFirst(set)
           raw == RawPage(rows, keys, number)
<1>1. History(rows, subscribed, pair, title, number).items = WithDeltas(Grouped(raw))
  BY DEF History
<1> HIDE DEF keys
<1>2. /\ set \in SUBSET AllRows /\ raw \in Seq(set)
      /\ CutOf(raw, sorted, Offset(number))
  BY PageIs
<1>3. Sorted(sorted, set, NewestRel(set))
  BY <1>2, NewestFirstIs
<1>4. Offset(number) \in Nat
  BY PagesTile
<1> HIDE DEF set, sorted, raw
<1>5. raw \in Seq(AllRows) /\ DOMAIN raw = 1 .. Len(raw)
  BY <1>2
<1>6. ASSUME NEW i \in DOMAIN raw, NEW j \in DOMAIN raw, i < j
      PROVE  Newer(raw[i], raw[j])
  <2>1. /\ Offset(number) + i \in DOMAIN sorted /\ raw[i] = sorted[Offset(number) + i]
        /\ Offset(number) + j \in DOMAIN sorted /\ raw[j] = sorted[Offset(number) + j]
    BY <1>2, <1>5 DEF CutOf
  <2>2. Offset(number) + i < Offset(number) + j
    BY <1>4, <1>5, <1>6
  <2>3. <<raw[i], raw[j]>> \in NewestRel(set)
    BY <1>3, <2>1, <2>2 DEF Sorted
  <2>4. QED BY <2>3 DEF NewestRel
<1>7. EntriesRight(raw, WithDeltas(Grouped(raw)))
  BY <1>5, <1>6, EntriesFollow
<1>8. QED BY <1>1, <1>7 DEF raw, keys

-----------------------------------------------------------------------------
(* Points of a chart                                                       *)

\* All the rows of a set, the oldest first.
Chronicle(seq, rows) ==
  /\ seq \in Seq(rows) /\ Len(seq) \in Nat /\ DOMAIN seq = 1 .. Len(seq)
  /\ \A n \in DOMAIN seq : seq[n] \in rows
  /\ \A r \in rows : \E n \in DOMAIN seq : seq[n] = r
  /\ \A m, n \in DOMAIN seq : m < n => Newer(seq[n], seq[m])

\* The query returns every row since, as long as there are no more than the limit.
LEMMA ValuesAre ==
  ASSUME NEW rows \in SUBSET AllRows, NEW keys \in SUBSET Source, keys # {}, NEW since,
         Cardinality(rows) <= RowsPerKey
  PROVE  Chronicle(ValuesSince(rows, keys, since),
                   {r \in Matching(rows, keys) : r.time >= since \div Tick})
<1> DEFINE set == {r \in Matching(rows, keys) : r.time >= since \div Tick}
           sorted == OldestFirst(set)
           limit == Cardinality(keys) * RowsPerKey
           vals == ValuesSince(rows, keys, since)
<1>1. set \in SUBSET rows /\ set \in SUBSET AllRows
  BY DEF Matching
<1>2. vals = SubSeq(sorted, 1, Min({Len(sorted), limit}))
  BY DEF ValuesSince
<1> HIDE DEF set, vals
<1>3. Sorted(sorted, set, OldestRel(set))
  BY <1>1, OldestFirstIs
<1>4. Cardinality(set) \in Nat /\ Cardinality(rows) \in Nat /\ Cardinality(set) <= Cardinality(rows)
  <2>1. IsFiniteSet(rows)
    BY NewerIsTotal
  <2>2. QED BY <1>1, <2>1, FS_Subset, FS_CardinalityType
<1>5. Cardinality(keys) \in Nat \ {0}
  <2>1. IsFiniteSet(keys)
    BY RateHistoryAssumption, FS_Subset
  <2>2. QED BY <2>1, FS_CardinalityType, FS_EmptySet
<1> HIDE DEF sorted
<1>6. /\ DOMAIN sorted = 1 .. Len(sorted) /\ Len(sorted) \in Nat /\ Len(sorted) = Cardinality(set)
      /\ \A n \in DOMAIN sorted : sorted[n] \in set
      /\ \A x \in set : \E n \in DOMAIN sorted : sorted[n] = x
      /\ \A m, n \in DOMAIN sorted : m < n <=> <<sorted[m], sorted[n]>> \in OldestRel(set)
      /\ sorted \in Seq(set)
  BY <1>3 DEF Sorted
<1>7. limit \in Nat /\ RowsPerKey <= limit
  <2>1. RowsPerKey \in Nat
    BY SparklineAssumption
  <2>2. \A c \in Nat \ {0} : c * RowsPerKey \in Nat /\ RowsPerKey <= c * RowsPerKey
    <3>1. SUFFICES ASSUME NEW c \in Nat \ {0}
                   PROVE  c * RowsPerKey \in Nat /\ RowsPerKey <= c * RowsPerKey
      OBVIOUS
    <3>2. c * RowsPerKey = ((c - 1) * RowsPerKey) + RowsPerKey /\ (c - 1) * RowsPerKey \in Nat
      BY <2>1
    <3>3. QED BY <2>1, <3>2
  <2>3. QED BY <1>5, <2>1, <2>2
<1>8. RowsPerKey \in Nat
  BY SparklineAssumption
<1> HIDE DEF limit
<1>9. Len(sorted) <= limit
  BY <1>4, <1>6, <1>7, <1>8
<1>10. Min({Len(sorted), limit}) = Len(sorted)
  BY <1>6, <1>7, <1>9, LesserOf
<1>11. vals = sorted
  BY <1>2, <1>6, <1>10
<1>12. \A m, n \in DOMAIN sorted : m < n => Newer(sorted[n], sorted[m])
  BY <1>6 DEF OldestRel
<1>13. Chronicle(sorted, set)
  BY <1>6, <1>12 DEF Chronicle
<1>14. QED BY <1>11, <1>13 DEF set, vals

\* A direction's rows, in the order the query returned them.
LEMMA TripleIs ==
  ASSUME NEW rows \in SUBSET AllRows, NEW keys \in SUBSET Source, NEW pair, NEW kind, NEW since,
         NEW vals, Chronicle(vals, {r \in Matching(rows, keys) : r.time >= since \div Tick})
  PROVE  Chronicle(OfTriple(vals, keys, pair, kind), Within(rows, keys, pair, kind, since))
<1> DEFINE all == {r \in Matching(rows, keys) : r.time >= since \div Tick}
           here == Within(rows, keys, pair, kind, since)
           set == {i \in DOMAIN vals : vals[i].source \in Triple(keys, pair, kind)}
           got == OfTriple(vals, keys, pair, kind)
<1>1. \A r : r \in here <=> r \in all /\ r.source \in Triple(keys, pair, kind)
  BY DEF Within, Matching, Triple
<1>2. got = Picked(vals, set)
  BY DEF OfTriple
<1>3. \A i : i \in set <=> i \in DOMAIN vals /\ vals[i].source \in Triple(keys, pair, kind)
  OBVIOUS
<1> HIDE DEF all, here, set, got
<1>4. /\ vals \in Seq(all) /\ Len(vals) \in Nat /\ DOMAIN vals = 1 .. Len(vals)
      /\ \A n \in DOMAIN vals : vals[n] \in all
      /\ \A r \in all : \E n \in DOMAIN vals : vals[n] = r
      /\ \A m, n \in DOMAIN vals : m < n => Newer(vals[n], vals[m])
  BY DEF Chronicle, all
<1>5. set \in SUBSET (DOMAIN vals)
  BY <1>3
<1>6. Extract(got, all, vals, set)
  BY <1>2, <1>4, <1>5, PickedIs
<1>7. PICK at \in [DOMAIN got -> set] :
            /\ \A n \in DOMAIN got : got[n] = vals[at[n]]
            /\ \A i \in set : \E n \in DOMAIN got : at[n] = i
            /\ \A m, n \in DOMAIN got : m < n <=> at[m] < at[n]
  BY <1>6 DEF Extract
<1>8. DOMAIN got = 1 .. Len(got) /\ Len(got) \in Nat
  BY <1>6 DEF Extract
<1>9. \A n \in DOMAIN got : got[n] \in here /\ at[n] \in DOMAIN vals
  BY <1>1, <1>3, <1>4, <1>7
<1>10. ASSUME NEW r \in here PROVE \E n \in DOMAIN got : got[n] = r
  <2>1. PICK i \in DOMAIN vals : vals[i] = r
    BY <1>1, <1>4
  <2>2. i \in set
    BY <1>1, <1>3, <2>1
  <2>3. QED BY <1>7, <2>1, <2>2
<1>11. \A m, n \in DOMAIN got : m < n => Newer(got[n], got[m])
  BY <1>4, <1>7, <1>9
<1>12. got \in Seq(here)
  <2>1. got \in [1 .. Len(got) -> here]
    BY <1>6, <1>8, <1>9 DEF Extract
  <2>2. QED BY <1>8, <2>1
<1>13. Chronicle(got, here)
  BY <1>8, <1>9, <1>10, <1>11, <1>12 DEF Chronicle
<1>14. QED BY <1>13 DEF got, here

\* One sample for each second that has rows: the newest of them.
Samples(vals, rows) ==
  /\ Len(vals) \in Nat \ {0} /\ DOMAIN vals = 1 .. Len(vals)
  /\ \A n \in DOMAIN vals : vals[n] \in rows
  /\ \A m, n \in DOMAIN vals : m < n => vals[m].time < vals[n].time
  /\ \A r \in rows : \E n \in DOMAIN vals :
        vals[n].time = r.time /\ (vals[n] = r \/ Newer(vals[n], r))

LEMMA DedupedIs ==
  ASSUME NEW here \in SUBSET AllRows, here # {}, NEW group, Chronicle(group, here)
  PROVE  Samples(Deduped(group), here)
<1> DEFINE lasts == {i \in DOMAIN group : i = Len(group) \/ group[i + 1].time # group[i].time}
           got == Deduped(group)
<1>1. got = Picked(group, lasts)
  BY DEF Deduped
<1>2. \A i : i \in lasts <=> /\ i \in DOMAIN group
                             /\ i = Len(group) \/ group[i + 1].time # group[i].time
  OBVIOUS
<1> HIDE DEF lasts, got
<1>3. /\ group \in Seq(here) /\ Len(group) \in Nat /\ DOMAIN group = 1 .. Len(group)
      /\ \A n \in DOMAIN group : group[n] \in here
      /\ \A r \in here : \E n \in DOMAIN group : group[n] = r
      /\ \A m, n \in DOMAIN group : m < n => Newer(group[n], group[m])
  BY DEF Chronicle
<1>4. Extract(got, here, group, lasts)
  BY <1>1, <1>2, <1>3, PickedIs
<1>5. PICK at \in [DOMAIN got -> lasts] :
            /\ \A n \in DOMAIN got : got[n] = group[at[n]]
            /\ \A i \in lasts : \E n \in DOMAIN got : at[n] = i
            /\ \A m, n \in DOMAIN got : m < n <=> at[m] < at[n]
  BY <1>4 DEF Extract
<1>6. DOMAIN got = 1 .. Len(got) /\ Len(got) \in Nat
  BY <1>4 DEF Extract
<1>7. \A r \in here : r.time \in Nat /\ r.id \in Nat
  BY RateHistoryAssumption
<1>8. \A n \in DOMAIN got : /\ got[n] \in here /\ at[n] \in lasts
                            /\ at[n] \in DOMAIN group /\ group[at[n]] \in here
  BY <1>2, <1>3, <1>5
<1>9. ASSUME NEW m \in DOMAIN got, NEW n \in DOMAIN got, m < n
      PROVE  got[m].time < got[n].time
  <2> DEFINE i == at[m]
  <2>1. /\ i \in DOMAIN group /\ at[n] \in DOMAIN group /\ i < at[n]
        /\ i = Len(group) \/ group[i + 1].time # group[i].time
    BY <1>2, <1>5, <1>8, <1>9
  <2> HIDE DEF i
  <2>2. i + 1 \in DOMAIN group /\ i < i + 1 /\ group[i + 1].time # group[i].time
    BY <1>3, <2>1
  <2>3. group[i + 1].time > group[i].time
    <3>1. Newer(group[i + 1], group[i])
      BY <1>3, <2>1, <2>2
    <3>2. group[i + 1].time \in Nat /\ group[i].time \in Nat
      BY <1>3, <1>7, <2>1, <2>2
    <3>3. QED BY <2>2, <3>1, <3>2 DEF Newer
  <2>4. group[i + 1].time <= group[at[n]].time
    <3>1. CASE i + 1 = at[n]
      BY <1>3, <1>7, <2>1, <3>1
    <3>2. CASE i + 1 < at[n]
      <4>1. Newer(group[at[n]], group[i + 1])
        BY <1>3, <2>1, <2>2, <3>2
      <4>2. group[at[n]].time \in Nat /\ group[i + 1].time \in Nat
        BY <1>3, <1>7, <2>1, <2>2
      <4>3. QED BY <4>1, <4>2 DEF Newer
    <3>3. QED BY <1>3, <2>1, <3>1, <3>2
  <2>5. group[i].time < group[at[n]].time
    BY <1>3, <1>7, <2>1, <2>2, <2>3, <2>4
  <2>6. QED BY <1>5, <2>5 DEF i
<1>10. ASSUME NEW r \in here
       PROVE  \E n \in DOMAIN got : got[n].time = r.time /\ (got[n] = r \/ Newer(got[n], r))
  <2> DEFINE same == {j \in DOMAIN group : group[j].time = r.time}
             k == Max(same)
  <2>1. PICK i \in DOMAIN group : group[i] = r
    BY <1>3
  <2>2. same \in SUBSET (1 .. Len(group)) /\ i \in same
    BY <1>3, <2>1
  <2>3. k \in same /\ \A y \in same : y <= k
    <3> HIDE DEF same
    <3>1. QED BY <1>3, <2>2, GreatestIs
  <2> HIDE DEF k
  <2>4. k \in DOMAIN group /\ group[k].time = r.time /\ i <= k
    BY <2>2, <2>3
  <2>5. k \in lasts
    <3>1. SUFFICES ASSUME k # Len(group), group[k + 1].time = group[k].time PROVE FALSE
      BY <1>2, <2>4
    <3>2. k + 1 \in same
      BY <1>3, <2>4, <3>1
    <3>3. QED BY <1>3, <2>3, <2>4, <3>2
  <2>6. PICK n \in DOMAIN got : at[n] = k
    BY <1>5, <2>5
  <2>7. got[n] = group[k]
    BY <1>5, <2>6
  <2>8. group[k] = r \/ Newer(group[k], r)
    BY <1>3, <2>1, <2>4
  <2>9. QED BY <2>4, <2>7, <2>8
<1>11. Len(got) # 0
  <2>1. PICK r \in here : TRUE
    OBVIOUS
  <2>2. QED BY <1>6, <1>10, <2>1
<1>12. Samples(got, here)
  BY <1>6, <1>8, <1>9, <1>10, <1>11 DEF Samples
<1>13. QED BY <1>12 DEF got

LEMMA Divided ==
  ASSUME NEW a \in Int, NEW q \in Int, q > 0
  PROVE  /\ a \div q \in Int /\ a % q \in 0 .. q - 1
         /\ a = (q * (a \div q)) + (a % q)
         /\ \A i \in Int : a \div q < i <=> a < i * q
<1> DEFINE d == a \div q
           m == a % q
<1>1. d \in Int /\ m \in 0 .. q - 1 /\ a = (q * d) + m
  OBVIOUS
<1> HIDE DEF d, m
<1>2. ASSUME NEW i \in Int PROVE d < i <=> a < i * q
  <2>1. q * d \in Int /\ i * q = q * i /\ q * i \in Int
    BY <1>1
  <2>2. ASSUME d < i PROVE a < i * q
    <3>1. q * (i - d) >= q /\ q * (i - d) = (q * i) - (q * d)
      BY <1>1, <2>2
    <3>2. QED BY <1>1, <2>1, <3>1
  <2>3. ASSUME i <= d PROVE ~(a < i * q)
    <3>1. q * (d - i) >= 0 /\ q * (d - i) = (q * d) - (q * i)
      BY <1>1, <2>3
    <3>2. QED BY <1>1, <2>1, <3>1
  <2>4. QED BY <1>1, <2>2, <2>3
<1>3. QED BY <1>1, <1>2 DEF d, m

\* No bucket is empty of instants: the window has as many as there are buckets, whether
\* it starts with the period or with a row.
LEMMA StepIsPositive ==
  ASSUME NEW now \in Nows, NEW length \in Lengths, NEW start \in Int,
         start = now - length \/ \E t \in Nat : start = t * Tick
  PROVE  Step(start, now) \in Nat \ {0}
<1> DEFINE window == Window(start, now)
<1>1. /\ BucketCount \in Nat \ {0} /\ Tick \in Nat \ {0} /\ BucketCount <= Tick
      /\ HourTicks \in Nat /\ BucketCount <= HourTicks
      /\ now \in Nat /\ length \in Nat /\ BucketCount <= length
      /\ now % Tick \notin 1 .. (BucketCount - 1)
  BY SparklineAssumption
<1>2. window = IF now - start <= 0 THEN HourTicks ELSE now - start
  BY DEF Window
<1> HIDE DEF window
<1>3. window \in Int /\ BucketCount <= window
  <2>1. CASE now - start <= 0
    BY <1>1, <1>2, <2>1
  <2>2. CASE ~(now - start <= 0) /\ start = now - length
    BY <1>1, <1>2, <2>2
  <2>3. ASSUME ~(now - start <= 0), NEW t \in Nat, start = t * Tick
        PROVE  BucketCount <= now - start
    <3> DEFINE d == now \div Tick
               m == now % Tick
    <3>1. d \in Int /\ m \in 0 .. Tick - 1 /\ now = (Tick * d) + m
      <4>1. now \in Int /\ Tick \in Int /\ Tick > 0
        BY <1>1
      <4>2. QED BY <4>1, Divided
    <3>2. m \notin 1 .. (BucketCount - 1)
      BY <1>1
    <3> HIDE DEF d, m
    <3>3. now - start = (Tick * (d - t)) + m /\ Tick * (d - t) \in Int
      <4>1. Tick * (d - t) = (Tick * d) - (Tick * t) /\ t * Tick = Tick * t
            /\ Tick * d \in Int /\ Tick * t \in Int
        BY <1>1, <3>1
      <4>2. QED BY <1>1, <2>3, <3>1, <4>1
    <3>4. CASE d = t
      <4>1. Tick * (d - t) = 0
        BY <1>1, <3>4
      <4>2. QED BY <1>1, <2>3, <3>1, <3>2, <3>3, <4>1
    <3>5. CASE d > t
      <4>1. Tick * (d - t) >= Tick
        BY <1>1, <3>1, <3>5
      <4>2. QED BY <1>1, <3>1, <3>3, <4>1
    <3>6. CASE d < t
      <4>1. Tick * (d - t) <= -Tick
        BY <1>1, <3>1, <3>6
      <4>2. now - start < 0
        BY <1>1, <3>1, <3>3, <4>1
      <4>3. QED BY <1>1, <2>3, <4>2
    <3>7. QED BY <3>1, <3>4, <3>5, <3>6
  <2>4. CASE ~(now - start <= 0) /\ \E t \in Nat : start = t * Tick
    <3>1. PICK t \in Nat : start = t * Tick
      BY <2>4
    <3>2. BucketCount <= now - start
      BY <2>3, <2>4, <3>1
    <3>3. window = now - start /\ now - start \in Int
      BY <1>1, <1>2, <2>4
    <3>4. QED BY <3>2, <3>3
  <2>5. start = now - length \/ \E t \in Nat : start = t * Tick
    OBVIOUS
  <2>6. QED BY <2>1, <2>2, <2>4, <2>5, Zenon
<1>4. window \div BucketCount \in Int /\ ~(window \div BucketCount < 1)
  <2>1. BucketCount \in Int /\ BucketCount > 0 /\ 1 * BucketCount = BucketCount /\ 1 \in Int
    BY <1>1
  <2>2. window \div BucketCount < 1 <=> window < 1 * BucketCount
    BY <1>3, <2>1, Divided
  <2>3. window \div BucketCount \in Int
    BY <1>3, <2>1, Divided
  <2>4. QED BY <1>3, <2>1, <2>2, <2>3
<1>5. QED BY <1>4 DEF Step, window

\* A sample is in a bucket or before it when its instant is before the right edge.
LEMMA BucketIs ==
  ASSUME NEW r \in AllRows, NEW start \in Int, NEW now, Step(start, now) \in Nat \ {0},
         NEW i \in 1 .. BucketCount
  PROVE  BucketOf(r, start, now) <= i <=>
            i = BucketCount \/ Instant(r) < start + i * Step(start, now)
<1> DEFINE step == Step(start, now)
           a == Instant(r) - start
           n == (a \div step) + 1
<1>1. BucketCount \in Nat \ {0} /\ Instant(r) \in Nat /\ step \in Nat \ {0}
  BY RateHistoryAssumption, SparklineAssumption DEF Instant
<1>2. BucketOf(r, start, now) = IF n < 1 THEN 1 ELSE Min({n, BucketCount})
  BY DEF BucketOf
<1> HIDE DEF step
<1>3. a \in Int /\ a \div step \in Int /\ (a \div step < i <=> a < i * step)
  <2>1. a \in Int /\ step \in Int /\ step > 0 /\ i \in Int
    BY <1>1
  <2> HIDE DEF a
  <2>2. QED BY <2>1, Divided
<1>4. i * step \in Int
  BY <1>1
<1>5. n \in Int /\ (n <= i <=> Instant(r) < start + i * step)
  BY <1>1, <1>3, <1>4
<1> HIDE DEF a, n
<1>6. Min({n, BucketCount}) = IF n <= BucketCount THEN n ELSE BucketCount
  BY <1>1, <1>5, LesserOf
<1>7. BucketOf(r, start, now) <= i <=> i = BucketCount \/ n <= i
  BY <1>1, <1>2, <1>5, <1>6
<1>8. QED BY <1>5, <1>7 DEF step

\* A bucket's point is the newest of the rows known at its right edge.
LEMMA PointIs ==
  ASSUME NEW here \in SUBSET AllRows, NEW vals, Samples(vals, here),
         NEW start \in Int, Instant(vals[1]) <= start,
         NEW now, Step(start, now) \in Nat \ {0}, NEW i \in 1 .. BucketCount
  PROVE  /\ KnownBy(here, start, now, i) # {}
         /\ PointAt(vals, start, now, i) = Newest(KnownBy(here, start, now, i)).id
<1> DEFINE knew == KnownBy(here, start, now, i)
           upTo == {n \in DOMAIN vals : BucketOf(vals[n], start, now) <= i}
           step == Step(start, now)
           m == Max(upTo)
<1>1. PointAt(vals, start, now, i) = IF upTo = {} THEN NoValue ELSE vals[m].id
  BY DEF PointAt
<1>2. /\ Len(vals) \in Nat \ {0} /\ DOMAIN vals = 1 .. Len(vals)
      /\ \A n \in DOMAIN vals : vals[n] \in here
      /\ \A j, n \in DOMAIN vals : j < n => vals[j].time < vals[n].time
      /\ \A r \in here : \E n \in DOMAIN vals :
            vals[n].time = r.time /\ (vals[n] = r \/ Newer(vals[n], r))
  BY DEF Samples
<1>3. \A r : r \in knew <=> r \in here /\ (i = BucketCount \/ Instant(r) < start + i * step)
  BY DEF KnownBy
<1>4. \A n \in DOMAIN vals : n \in upTo <=> vals[n] \in knew
  <2>1. ASSUME NEW n \in DOMAIN vals PROVE n \in upTo <=> vals[n] \in knew
    <3>1. vals[n] \in AllRows /\ vals[n] \in here
      BY <1>2
    <3>2. BucketOf(vals[n], start, now) <= i
            <=> (i = BucketCount \/ Instant(vals[n]) < start + i * step)
      BY <3>1, BucketIs
    <3> HIDE DEF knew, step
    <3>3. QED BY <1>3, <3>1, <3>2
  <2>2. QED BY <2>1
<1>5. upTo \in SUBSET (1 .. Len(vals))
  BY <1>2
<1>6. Newest(knew) = CHOOSE r \in knew : \A q \in knew \ {r} : Newer(r, q)
  BY DEF Newest
<1>7. /\ \A r \in knew : r \in here
      /\ \A r, q \in here : r.time = q.time => Instant(r) = Instant(q)
  BY <1>3 DEF Instant
<1>8. \A r \in here : r.time \in Nat /\ r.id \in Nat
  BY RateHistoryAssumption
<1>9. 1 \in upTo
  <2>1. i * step \in Nat /\ i * step >= 1 /\ BucketCount \in Nat
    <3>1. BucketCount \in Nat
      BY SparklineAssumption
    <3>2. i \in Nat /\ i >= 1 /\ step \in Nat /\ step >= 1
      BY <3>1
    <3> HIDE DEF step
    <3>3. i * step \in Nat /\ (i - 1) * step >= 0 /\ i * step = ((i - 1) * step) + step
      BY <3>2
    <3>4. QED BY <3>1, <3>2, <3>3
  <2>2. 1 \in DOMAIN vals /\ vals[1] \in here
    BY <1>2
  <2>3. Instant(vals[1]) \in Nat
    BY <1>8, <2>2, SparklineAssumption DEF Instant
  <2> HIDE DEF knew, upTo, step
  <2>4. Instant(vals[1]) < start + i * step
    BY <2>1, <2>3
  <2>5. QED BY <1>3, <1>4, <2>2, <2>4
<1> HIDE DEF knew, upTo, step
<1>10. m \in upTo /\ \A n \in upTo : n <= m
  <2>1. Len(vals) \in Nat
    BY <1>2
  <2>2. QED BY <1>5, <1>9, <2>1, GreatestIs
<1> HIDE DEF m
<1>11. m \in DOMAIN vals /\ vals[m] \in knew
  BY <1>2, <1>4, <1>5, <1>10
<1>12. ASSUME NEW q \in knew, q # vals[m] PROVE Newer(vals[m], q)
  <2>1. PICK n \in DOMAIN vals : vals[n].time = q.time /\ (vals[n] = q \/ Newer(vals[n], q))
    BY <1>2, <1>7
  <2>2. q \in here /\ vals[n] \in here /\ vals[m] \in here
    BY <1>2, <1>7, <1>11
  <2>3. Instant(vals[n]) = Instant(q)
    BY <1>7, <2>1, <2>2
  <2>4. n \in upTo
    <3>1. i = BucketCount \/ Instant(q) < start + i * step
      BY <1>3, <1>12
    <3>2. vals[n] \in knew
      BY <1>3, <2>2, <2>3, <3>1
    <3>3. QED BY <1>4, <2>1, <3>2
  <2>5. n <= m /\ n \in Nat /\ m \in Nat
    <3>1. n <= m
      BY <1>10, <2>4
    <3>2. m \in 1 .. Len(vals) /\ n \in 1 .. Len(vals)
      BY <1>2, <1>11, <2>1
    <3> HIDE DEF m
    <3>3. QED BY <1>2, <3>1, <3>2
  <2>6. CASE n = m
    <3>1. vals[m] = q \/ Newer(vals[m], q)
      BY <2>1, <2>6, Zenon
    <3>2. QED BY <1>12, <3>1, Zenon
  <2>7. CASE n < m
    <3>1. vals[n].time < vals[m].time
      BY <1>2, <1>11, <2>7
    <3>2. vals[m].time > q.time
      BY <1>8, <2>1, <2>2, <3>1
    <3>3. QED BY <3>2 DEF Newer
  <2>8. QED BY <2>5, <2>6, <2>7
<1>13. \A r \in knew : (\A q \in knew \ {r} : Newer(r, q)) => r = vals[m]
  <2>1. SUFFICES ASSUME NEW r \in knew, \A q \in knew \ {r} : Newer(r, q), r # vals[m]
                 PROVE  FALSE
    OBVIOUS
  <2>2. Newer(r, vals[m]) /\ Newer(vals[m], r)
    BY <1>11, <1>12, <2>1
  <2>3. r \in here /\ vals[m] \in here
    BY <1>7, <1>11
  <2>4. QED BY <1>8, <2>2, <2>3 DEF Newer
<1>14. \A q \in knew \ {vals[m]} : Newer(vals[m], q)
  BY <1>12
<1>15. Newest(knew) = vals[m]
  BY <1>6, <1>11, <1>13, <1>14
<1>16. PointAt(vals, start, now, i) = vals[m].id
  BY <1>1, <1>9
<1>17. QED BY <1>11, <1>15, <1>16 DEF knew

\* The window of a series starts where its rows and its period say.
LEMMA StartIs ==
  ASSUME NEW here \in SUBSET AllRows, NEW vals, Samples(vals, here), NEW since \in Int
  PROVE  /\ EffectiveSince(vals, since) = StartOf(here, since)
         /\ StartOf(here, since) \in Int /\ Instant(vals[1]) <= StartOf(here, since)
         /\ StartOf(here, since) = since \/ \E t \in Nat : StartOf(here, since) = t * Tick
<1> DEFINE oldest == CHOOSE r \in here : \A q \in here : q.time >= r.time
<1>1. /\ Len(vals) \in Nat \ {0} /\ DOMAIN vals = 1 .. Len(vals)
      /\ \A n \in DOMAIN vals : vals[n] \in here
      /\ \A j, n \in DOMAIN vals : j < n => vals[j].time < vals[n].time
      /\ \A r \in here : \E n \in DOMAIN vals : vals[n].time = r.time
  BY DEF Samples
<1>2. \A r \in here : r.time \in Nat
  BY RateHistoryAssumption
<1>3. 1 \in DOMAIN vals /\ vals[1] \in here
  BY <1>1
<1>4. ASSUME NEW q \in here PROVE q.time >= vals[1].time
  <2>1. PICK n \in DOMAIN vals : vals[n].time = q.time
    BY <1>1
  <2>2. n = 1 \/ 1 < n
    BY <1>1
  <2>3. CASE n = 1
    BY <1>2, <1>3, <2>1, <2>3
  <2>4. CASE 1 < n
    <3>1. vals[1].time < vals[n].time
      BY <1>1, <1>3, <2>1, <2>4
    <3>2. vals[1].time \in Nat /\ vals[n].time \in Nat
      BY <1>1, <1>2, <1>3, <2>1
    <3>3. QED BY <2>1, <3>1, <3>2
  <2>5. QED BY <2>2, <2>3, <2>4
<1>5. oldest \in here /\ \A q \in here : q.time >= oldest.time
  BY <1>3, <1>4
<1>6. oldest.time = vals[1].time
  <2> HIDE DEF oldest
  <2>1. oldest.time >= vals[1].time /\ vals[1].time >= oldest.time
    BY <1>3, <1>4, <1>5
  <2>2. QED BY <1>2, <1>3, <1>5, <2>1
<1>7. StartOf(here, since) = IF Instant(oldest) > since THEN Instant(oldest) ELSE since
  BY DEF StartOf
<1> HIDE DEF oldest
<1>8. Instant(oldest) = vals[1].time * Tick /\ Instant(vals[1]) = vals[1].time * Tick
      /\ vals[1].time \in Nat /\ vals[1].time * Tick \in Nat
  BY <1>2, <1>3, <1>6, SparklineAssumption DEF Instant
<1>9. StartOf(here, since) = IF Instant(vals[1]) > since THEN Instant(vals[1]) ELSE since
  BY <1>7, <1>8
<1>10. EffectiveSince(vals, since) = StartOf(here, since)
  BY <1>9 DEF EffectiveSince
<1>11. StartOf(here, since) \in Int /\ Instant(vals[1]) <= StartOf(here, since)
  BY <1>8, <1>9
<1>12. StartOf(here, since) = since \/ StartOf(here, since) = vals[1].time * Tick
  BY <1>8, <1>9
<1>13. QED BY <1>8, <1>10, <1>11, <1>12

LEMMA SeriesIs ==
  ASSUME NEW group, group # << >>, NEW since, NEW now, NEW i \in 1 .. BucketCount
  PROVE  Series(group, since, now).points[i]
            = PointAt(Deduped(group), EffectiveSince(Deduped(group), since), now, i)
<1> DEFINE vals == Deduped(group)
           start == EffectiveSince(vals, since)
<1>1. Series(group, since, now).points = [n \in 1 .. BucketCount |-> PointAt(vals, start, now, n)]
  BY DEF Series
<1> HIDE DEF start, vals
<1>2. Series(group, since, now).points[i] = PointAt(vals, start, now, i)
  BY <1>1
<1>3. QED BY <1>2 DEF start, vals

LEMMA ChartIs ==
  ASSUME NEW rows, NEW keys, NEW length, NEW now
  PROVE  /\ DOMAIN Chart(rows, keys, length, now) = MePairs(keys)
         /\ \A pair \in MePairs(keys) : \A kind \in DOMAIN Chart(rows, keys, length, now)[pair] :
              Chart(rows, keys, length, now)[pair][kind]
                = Series(OfTriple(ValuesSince(rows, keys, now - length), keys, pair, kind),
                         now - length, now)
<1> DEFINE since == now - length
           vals == ValuesSince(rows, keys, since)
           Kinds(pair) == {Kind[s] : s \in {k \in keys : PairOf[k] = pair}}
           Drawn(pair, kind) == Series(OfTriple(vals, keys, pair, kind), since, now)
<1>1. Chart(rows, keys, length, now)
        = [pair \in MePairs(keys) |-> [kind \in Kinds(pair) |-> Drawn(pair, kind)]]
  BY DEF Chart
<1> HIDE DEF Kinds, Drawn, since, vals
<1>2. /\ DOMAIN Chart(rows, keys, length, now) = MePairs(keys)
      /\ \A pair \in MePairs(keys) :
            Chart(rows, keys, length, now)[pair] = [kind \in Kinds(pair) |-> Drawn(pair, kind)]
  BY <1>1
<1>3. \A pair \in MePairs(keys) : \A kind \in DOMAIN Chart(rows, keys, length, now)[pair] :
         Chart(rows, keys, length, now)[pair][kind] = Drawn(pair, kind)
  BY <1>2
<1>4. QED BY <1>2, <1>3 DEF Drawn, since, vals

\* Whatever rows there are up to now, a chart's points tell them, while the limit of the
\* query does not bite.
LEMMA PointsFollow ==
  ASSUME NEW rows \in SUBSET AllRows, Cardinality(rows) <= RowsPerKey,
         NEW keys \in SUBSET Source, NEW now \in Nows, NEW length \in Lengths
  PROVE  PointsRight(rows, keys, length, now)
<1> DEFINE since == now - length
           drawn == Chart(rows, keys, length, now)
           vals == ValuesSince(rows, keys, since)
<1>1. since \in Int /\ now \in Nat /\ length \in Nat
  BY SparklineAssumption
<1>2. /\ DOMAIN drawn = MePairs(keys)
      /\ \A pair \in MePairs(keys) : \A kind \in DOMAIN drawn[pair] :
            drawn[pair][kind] = Series(OfTriple(vals, keys, pair, kind), since, now)
  BY ChartIs
<1> HIDE DEF drawn, vals, since
<1>3. ASSUME NEW pair \in DOMAIN drawn, NEW kind \in DOMAIN drawn[pair],
             Within(rows, keys, pair, kind, since) # {}, NEW i \in 1 .. BucketCount
      PROVE  LET here == Within(rows, keys, pair, kind, since)
                 Known(n) == KnownBy(here, StartOf(here, since), now, n)
             IN Known(i) # {} /\ drawn[pair][kind].points[i] = Newest(Known(i)).id
  <2> DEFINE here == Within(rows, keys, pair, kind, since)
             group == OfTriple(vals, keys, pair, kind)
             start == StartOf(here, since)
             samples == Deduped(group)
  <2>1. keys # {}
    BY <1>2, <1>3 DEF MePairs
  <2>2. Chronicle(vals, {r \in Matching(rows, keys) : r.time >= since \div Tick})
    BY <2>1, ValuesAre DEF vals
  <2>3. Chronicle(group, here)
    BY <2>2, TripleIs
  <2>4. here \in SUBSET AllRows /\ here # {}
    BY <1>3 DEF Within
  <2>5. drawn[pair][kind] = Series(group, since, now)
    BY <1>2, <1>3
  <2> HIDE DEF here, group
  <2>6. Samples(samples, here)
    BY <2>3, <2>4, DedupedIs
  <2>7. group # << >>
    <3>1. PICK r \in here : TRUE
      BY <2>4
    <3>2. PICK n \in DOMAIN group : group[n] = r
      BY <2>3, <3>1 DEF Chronicle
    <3>3. QED BY <3>2
  <2> HIDE DEF samples
  <2>8. /\ EffectiveSince(samples, since) = start
        /\ start \in Int /\ Instant(samples[1]) <= start
        /\ start = since \/ \E t \in Nat : start = t * Tick
    BY <1>1, <2>4, <2>6, StartIs
  <2> HIDE DEF start
  <2>9. Step(start, now) \in Nat \ {0}
    <3>1. start = now - length \/ \E t \in Nat : start = t * Tick
      BY <2>8 DEF since
    <3>2. QED BY <2>8, <3>1, StepIsPositive
  <2>10. /\ KnownBy(here, start, now, i) # {}
         /\ PointAt(samples, start, now, i) = Newest(KnownBy(here, start, now, i)).id
    BY <2>4, <2>6, <2>8, <2>9, PointIs
  <2>11. Series(group, since, now).points[i]
           = PointAt(samples, EffectiveSince(samples, since), now, i)
    BY <2>7, SeriesIs DEF samples
  <2>12. drawn[pair][kind].points[i] = Newest(KnownBy(here, start, now, i)).id
    BY <2>5, <2>8, <2>10, <2>11
  <2>13. QED BY <2>10, <2>12 DEF here, start
<1>4. QED BY <1>3 DEF PointsRight, drawn, since
-----------------------------------------------------------------------------
(* What the server has                                                     *)

Store == stored \in SUBSET AllRows /\ served \in SUBSET Source

LEMMA StoreStep ==
    ASSUME Store, [Next]_vars
    PROVE  Store'
<1>1. CASE UNCHANGED vars
  BY <1>1 DEF vars, server, Store
<1>2. ASSUME NEW r \in AllRows, Collect(r) PROVE Store'
  BY <1>2 DEF Collect, Store
<1>3. ASSUME NEW s \in Source, Withdraw(s) PROVE Store'
  BY <1>3 DEF Withdraw, Store
<1>4. CASE Clicks
  BY <1>4, ClicksIs DEF Store
<1>5. CASE Leave
  BY <1>5 DEF Leave, server, Store
<1>6. ASSUME NEW j \in Job, Enter(j) \/ Mounted(j) PROVE Store'
  BY <1>6 DEF Enter, Mounted, server, Store
<1>7. ASSUME NEW j \in Job, AsksHistory(j) PROVE Store'
  BY <1>7 DEF AsksHistory, OpenHistory, TurnHistory, FilterHistory, HistoryOnly, Request,
              server, Store
<1>8. ASSUME NEW j \in Job, Serve(j) PROVE Store'
  BY <1>8 DEF Serve, server, Store
<1>9. ASSUME NEW j \in Job, NEW p \in Period, SetPeriod(j, p) PROVE Store'
  BY <1>9 DEF SetPeriod, server, Store
<1>10. ASSUME NEW j \in Job, NEW p, LoadPage(j, p) PROVE Store'
  BY <1>10 DEF LoadPage, server, Store
<1>11. ASSUME NEW j \in Job, ChartArrives(j) \/ ChartFails(j) PROVE Store'
  BY <1>11 DEF ChartArrives, ChartFails, server, Store
<1>12. ASSUME NEW j \in Job, HistoryArrives(j) \/ HistoryFails(j) PROVE Store'
  BY <1>12 DEF HistoryArrives, HistoryFails, HistoryOnly, server, Store
<1>13. QED
  BY <1>1, <1>2, <1>3, <1>4, <1>5, <1>6, <1>7, <1>8, <1>9, <1>10, <1>11, <1>12, Steps
-----------------------------------------------------------------------------
(* The theorems                                                            *)

\* What every state satisfies: types, the quiet screens, and for the chart, the marks,
\* the modal and the history that what is shown is right or on its way.
THEOREM Invariance == Spec => []IInv
<1>1. Init => IInv
  <2> USE DEF Init
  <2>1. ASSUME Init PROVE TypeOK
    BY <2>1 DEF TypeOK, Shaped
  <2>2. ASSUME Init PROVE Quiet
    BY <2>2 DEF Quiet
  <2>3. ASSUME Init PROVE ChartOnItsWay /\ LoadingEnds /\ ItemsOnTheirWay
    BY <2>3 DEF ChartOnItsWay, LoadingEnds, ItemsOnTheirWay
  <2>4. ASSUME Init PROVE SamePairs
    <3>1. \A j \in Job : job[j] = Idle
      BY <2>4
    <3> QED
      BY <2>4, <3>1, IdleIs DEF SamePairs, Answered
  <2>5. ASSUME Init PROVE DrawnWhenOpen /\ HistorySettled
    BY <2>5 DEF DrawnWhenOpen, HistorySettled
  <2> QED
    BY <2>1, <2>2, <2>3, <2>4, <2>5 DEF IInv
<1>2. IInv /\ [Next]_vars => IInv'
  <2> SUFFICES ASSUME IInv, [Next]_vars PROVE IInv'
    OBVIOUS
  <2>1. /\ TypeOK /\ Quiet /\ ChartOnItsWay /\ LoadingEnds /\ SamePairs
        /\ DrawnWhenOpen /\ ItemsOnTheirWay /\ HistorySettled
    BY DEF IInv
  <2>2. TypeOK' /\ Quiet'
    BY <2>1, TypeStep, QuietStep
  <2>3. ChartOnItsWay' /\ LoadingEnds'
    BY <2>1, ChartStep, LoadingStep
  <2>4. SamePairs' /\ DrawnWhenOpen'
    BY <2>1, PairsStep, DrawnStep
  <2>5. ItemsOnTheirWay'
    BY <2>1, ItemsStep
  <2>6. HistorySettled'
    BY <2>1, <2>5, HistoryStep
  <2> QED
    BY <2>2, <2>3, <2>4, <2>5, <2>6 DEF IInv
<1> QED
  BY <1>1, <1>2, PTL DEF Spec

\* Whatever chips were clicked and in whatever order the answers came, with no chart
\* request in flight the chart is that of the lit chip or an error is shown
\* (LoadSparklineChart, LoadPage).
THEOREM ChartOfTheChip == Spec => []ChartSettled
<1>1. IInv => ChartSettled
  BY ChartSettles DEF IInv
<1> QED
  BY <1>1, Invariance, PTL

\* No loading mark outlives the requests it stands for (LoadSparklineChart, LoadHistory).
THEOREM MarksEnd == Spec => []LoadingEnds
<1>1. IInv => LoadingEnds
  BY DEF IInv
<1> QED
  BY <1>1, Invariance, PTL

\* A history that is shown with no request in flight is of the title, the chip and the
\* page number around it, in whatever order answers came (LoadHistory).
THEOREM HistoryOfTheTitle == Spec => []HistorySettled
<1>1. IInv => HistorySettled
  BY DEF IInv
<1> QED
  BY <1>1, Invariance, PTL

\* The page behind is locked while a modal is drawn, and only then, as long as modals
\* go by a click (bindMeSubsHandlers).
THEOREM LockGoesWithModal == Spec => []LockedShowsModal
<1>1. IInv => LockedShowsModal
  BY DrawnLocks DEF IInv
<1> QED
  BY <1>1, Invariance, PTL

\* The server's rows are rows, and its sources sources: what the laws of histories and
\* charts ask of them.
THEOREM StoreIsKept == Spec => []Store
<1>1. Init => Store
  BY DEF Init, Store
<1>2. Store /\ [Next]_vars => Store'
  BY StoreStep
<1> QED
  BY <1>1, <1>2, PTL DEF Spec

\* Whatever rows are stored and whatever seconds they share, every page of every history
\* tells them right: order, groups, prices and deltas (ObtainMeHistory).
THEOREM PagesTellTheRows == Spec => []EntriesTrue
<1>1. ASSUME Store PROVE EntriesTrue
  <2>1. ASSUME NEW pair \in Pair, NEW title \in Titles \cup {AllTitles},
               NEW p \in 1..Cardinality(stored)
        PROVE  EntriesRight(RawPage(stored, MatchingKeys(served, pair, title), p),
                            History(stored, served, pair, title, p).items)
    <3>1. stored \in SUBSET AllRows
      BY <1>1 DEF Store
    <3>2. Cardinality(stored) \in Nat
      BY <3>1, NewerIsTotal, FS_CardinalityType
    <3>3. p \in Nat \ {0}
      BY <3>2
    <3>4. QED BY <3>1, <3>3, EntriesOfAPage
  <2>2. QED BY <2>1 DEF EntriesTrue
<1> QED
  BY <1>1, StoreIsKept, PTL

\* However many rows are stored between two pages of a history, and with whatever ids and
\* seconds, no row is skipped on the way (ObtainHistoryForPairsPaged).
THEOREM PagesMissNothing == Spec => []WalkLeavesNoGap
<1>1. ASSUME Store PROVE WalkLeavesNoGap
  <2>1. ASSUME NEW pair \in Pair, NEW before \in SUBSET stored, NEW p \in 1..2
        PROVE  NoGap(before, stored, MatchingKeys(served, pair, AllTitles), p)
    <3>1. stored \in SUBSET AllRows /\ p \in Nat
      BY <1>1 DEF Store
    <3>2. QED BY <3>1, NoGapBetweenPages
  <2>2. QED BY <2>1 DEF WalkLeavesNoGap
<1> QED
  BY <1>1, StoreIsKept, PTL

\* For any period, bucket count and rows, as long as the query's limit does not bite, each
\* point of a chart is the newest rate stored before its bucket ends, and the last one the
\* newest of all (buildSeriesRow, dedupeByTimestamp, bucketize).
THEOREM PointsTellTheRows == Spec => []PointsTrue
<1>1. ASSUME Store PROVE PointsTrue
  <2>1. ASSUME NEW now \in Nows, NEW length \in Lengths,
               Cardinality({r \in stored : Instant(r) <= now}) <= RowsPerKey
        PROVE  PointsRight({r \in stored : Instant(r) <= now}, served, length, now)
    <3> DEFINE rows == {r \in stored : Instant(r) <= now}
    <3>1. rows \in SUBSET AllRows /\ served \in SUBSET Source
      BY <1>1 DEF Store
    <3>2. Cardinality(rows) <= RowsPerKey
      BY <2>1
    <3> HIDE DEF rows
    <3>3. PointsRight(rows, served, length, now)
      BY <3>1, <3>2, PointsFollow
    <3>4. QED BY <3>3 DEF rows
  <2>2. QED BY <2>1 DEF PointsTrue
<1> QED
  BY <1>1, StoreIsKept, PTL
=============================================================================
