-------------------------- MODULE CollectorProofs --------------------------
(***************************************************************************)
(* Theorems about Collector, for any number of sources, pages and          *)
(* overlapping runs, and every value of the intervals and bounds.          *)
(***************************************************************************)
EXTENDS Collector, TLAPS

LEMMA LeastIs ==
  ASSUME NEW a \in Nat, NEW b \in Nat
  PROVE  /\ Least(a, b) \in Nat /\ Least(a, b) <= a /\ Least(a, b) <= b
         /\ Least(a, b) \in {a, b}
  BY DEF Least

LEMMA OlderIs ==
  ASSUME NEW a \in Age
  PROVE  /\ Older(a) \in Age
         /\ Older(a) <= a + 1
         /\ Older(a) < MaxAge => Older(a) = a + 1
  BY CollectorAssumption DEF Older, Least, Age

(***************************************************************************)
(* Type correctness.  A run that is to store a page holds one.             *)
(***************************************************************************)
HoldsPage == \A n \in Collector : pc[n] = "store" => cur[n] # NoPage

Typed == TypeOK /\ HoldsPage

LEMMA FaultTyped ==
  ASSUME Typed, NEW n \in Collector, Fails(n) \/ Fault \/ UNCHANGED faults
  PROVE  faults' \in Nat
  BY DEF Typed, TypeOK, Fails, Fault

LEMMA EndRunTyped ==
  ASSUME Typed, NEW n \in Collector, EndRun(n)
  PROVE  /\ pc' \in [Collector -> Stage]
         /\ sig' \in [Collector -> BOOLEAN]
         /\ elapsed' \in [Collector -> 0 .. MaxRun]
         /\ undecided' \in [Collector -> SUBSET Source]
         /\ todo' \in [Collector -> SUBSET Source]
         /\ cur' \in [Collector -> [source : Source, page : Page] \cup {NoPage}]
         /\ cache' \in [Collector -> [Url -> Page \cup {0}]]
         /\ tombs' \in [Collector -> SUBSET Tomb]
         /\ result' \in [Collector -> [Source -> Result]]
         /\ asked' \in [Collector -> [Url -> Nat]]
         /\ blind' \in [Collector -> SUBSET Source]
         /\ HoldsPage'
<1>1. 0 \in 0 .. MaxRun
  BY CollectorAssumption
<1>2. [s \in Source |-> "none"] \in [Source -> Result]
  BY DEF Result
<1>3. QED
  BY <1>1, <1>2 DEF Typed, TypeOK, HoldsPage, EndRun, Goto, Stage

LEMMA InitTyped == Init => Typed
  BY CollectorAssumption
     DEF Init, Typed, TypeOK, HoldsPage, Stage, Page, Age, Result

LEMMA HoldTyped ==
  ASSUME Typed, NEW n \in Collector, NEW s \in Source, NEW p \in Page, Hold(n, s, p)
  PROVE  /\ cur' \in [Collector -> [source : Source, page : Page] \cup {NoPage}]
         /\ pc' \in [Collector -> Stage]
         /\ HoldsPage'
<1>1. [source |-> s, page |-> p] # NoPage
  BY CollectorAssumption DEF NoPage
<1>2. QED
  BY <1>1 DEF Typed, TypeOK, HoldsPage, Hold, Goto, Stage

LEMMA BecomesTyped ==
  ASSUME Typed, NEW n \in Collector, NEW s \in Source, NEW r \in Result, Becomes(n, s, r)
  PROVE  result' \in [Collector -> [Source -> Result]]
  BY DEF Typed, TypeOK, Becomes

LEMMA Grows ==
  ASSUME NEW f \in [Collector -> SUBSET Source], NEW n \in Collector, NEW s \in Source,
         NEW g, g = f \/ g = [f EXCEPT ![n] = @ \cup {s}]
  PROVE  g \in [Collector -> SUBSET Source]
  OBVIOUS

LEMMA DecideTyped ==
  ASSUME Typed, NEW n \in Collector, Decide(n)
  PROVE  Typed'
<1>1. faults' \in Nat
  BY FaultTyped DEF Decide
<1>2. PICK s \in undecided[n] :
        /\ undecided' = [undecided EXCEPT ![n] = @ \ {s}]
        /\ todo' = todo \/ todo' = [todo EXCEPT ![n] = @ \cup {s}]
        /\ blind' = blind \/ blind' = [blind EXCEPT ![n] = @ \cup {s}]
  BY DEF Decide, Typed, TypeOK
<1>3. s \in Source
  BY <1>2 DEF Typed, TypeOK
<1>4. undecided' \in [Collector -> SUBSET Source]
  BY <1>2 DEF Typed, TypeOK
<1>5. /\ todo' \in [Collector -> SUBSET Source]
      /\ blind' \in [Collector -> SUBSET Source]
  <2>1. todo \in [Collector -> SUBSET Source] /\ blind \in [Collector -> SUBSET Source]
    BY DEF Typed, TypeOK
  <2>2. todo' \in [Collector -> SUBSET Source]
    BY <1>2, <1>3, <2>1, Grows
  <2>3. blind' \in [Collector -> SUBSET Source]
    BY <1>2, <1>3, <2>1, Grows
  <2>4. QED BY <2>2, <2>3
<1>6. UNCHANGED <<site, active, toggles, latest, valueAge, age, pc, sig, elapsed,
                  cur, cache, tombs, result, asked>>
  BY DEF Decide, web, tables
<1>7. HoldsPage'
  BY <1>6 DEF Typed, HoldsPage
<1>8. TypeOK'
  BY <1>1, <1>4, <1>5, <1>6 DEF Typed, TypeOK
<1>9. QED
  BY <1>7, <1>8 DEF Typed

LEMMA FetchTyped ==
  ASSUME Typed, NEW n \in Collector, FetchNothing(n) \/ Fetch(n)
  PROVE  Typed'
<1> USE DEF Typed, TypeOK, web, tables
<1>1. NextToFetch(n) \subseteq Source
  BY DEF NextToFetch
<1>2. CASE FetchNothing(n)
  <2>1. PICK s \in NextToFetch(n) :
          /\ todo' = [todo EXCEPT ![n] = @ \ {s}]
          /\ \/ Becomes(n, s, "error") /\ UNCHANGED <<pc, cur>>
             \/ /\ Cached(n, s) /\ Hold(n, s, cache[n][UrlOf[s]])
                /\ UNCHANGED result
    BY <1>2 DEF FetchNothing
  <2>2. s \in Source /\ UrlOf[s] \in Url
    BY <1>1, <2>1, CollectorAssumption
  <2>3. CASE Becomes(n, s, "error") /\ UNCHANGED <<pc, cur>>
    <3>1. result' \in [Collector -> [Source -> Result]]
      BY <2>2, <2>3, BecomesTyped DEF Result
    <3>2. QED BY <1>2, <2>1, <2>3, <3>1 DEF FetchNothing, HoldsPage
  <2>4. CASE Cached(n, s) /\ Hold(n, s, cache[n][UrlOf[s]]) /\ UNCHANGED result
    <3>1. cache[n][UrlOf[s]] \in Page
      BY <2>2, <2>4 DEF Cached
    <3>2. QED BY <1>2, <2>1, <2>2, <2>4, <3>1, HoldTyped DEF FetchNothing
  <2>5. QED BY <2>1, <2>3, <2>4
<1>3. CASE Fetch(n)
  <2>1. PICK s \in NextToFetch(n) :
          /\ ~Hopeless(n, s)
          /\ todo' = [todo EXCEPT ![n] = @ \ {s}]
          /\ Asked(n, s) \/ UNCHANGED asked
          /\ Entomb(n, s) \/ UNCHANGED tombs
          /\ Fails(n) \/ Fault \/ UNCHANGED faults
          /\ \/ /\ cache' = IF Plain(s) THEN [cache EXCEPT ![n][UrlOf[s]] = site[UrlOf[s]]]
                                        ELSE cache
                /\ Hold(n, s, site[UrlOf[s]])
                /\ UNCHANGED result
             \/ /\ Becomes(n, s, "error")
                /\ UNCHANGED <<cache, cur, pc>>
    BY <1>3 DEF Fetch
  <2>2. s \in Source /\ UrlOf[s] \in Url /\ site[UrlOf[s]] \in Page
    BY <1>1, <2>1, CollectorAssumption
  <2>3. asked' \in [Collector -> [Url -> Nat]]
    <3>1. CASE Asked(n, s) /\ Plain(s)
      <4>1. asked' = [asked EXCEPT ![n] = [asked[n] EXCEPT ![UrlOf[s]] = @ + 1]]
        BY <3>1 DEF Asked
      <4>2. [asked[n] EXCEPT ![UrlOf[s]] = @ + 1] \in [Url -> Nat]
        BY <2>2
      <4>3. QED BY <4>1, <4>2
    <3>2. CASE (Asked(n, s) /\ ~Plain(s)) \/ UNCHANGED asked
      BY <3>2 DEF Asked
    <3>3. QED BY <2>1, <3>1, <3>2
  <2>4. TombOf(s) \in Tomb
    BY <2>1, <2>2, CollectorAssumption DEF Hopeless, TombOf, Tomb
  <2>5. tombs' \in [Collector -> SUBSET Tomb]
    <3>1. CASE UNCHANGED tombs
      BY <3>1
    <3>2. CASE Entomb(n, s)
      BY <2>4, <3>2 DEF Entomb
    <3>3. QED BY <2>1, <3>1, <3>2 DEF Hold
  <2>6. faults' \in Nat
    BY <2>1, FaultTyped
  <2>7. todo' \in [Collector -> SUBSET Source]
    BY <2>1
  <2>8. UNCHANGED <<web, tables, sig, elapsed, undecided, blind>>
    BY <1>3 DEF Fetch
  <2>9. CASE Hold(n, s, site[UrlOf[s]]) /\ UNCHANGED result
             /\ cache' = IF Plain(s) THEN [cache EXCEPT ![n][UrlOf[s]] = site[UrlOf[s]]]
                                     ELSE cache
    <3>1. cache' \in [Collector -> [Url -> Page \cup {0}]]
      BY <2>2, <2>9
    <3>2. QED BY <2>2, <2>3, <2>5, <2>6, <2>7, <2>8, <2>9, <3>1, HoldTyped
  <2>10. CASE Becomes(n, s, "error") /\ UNCHANGED <<cache, cur, pc>>
    <3>1. result' \in [Collector -> [Source -> Result]]
      BY <2>2, <2>10, BecomesTyped DEF Result
    <3>2. QED BY <2>3, <2>5, <2>6, <2>7, <2>8, <2>10, <3>1 DEF HoldsPage
  <2>11. QED BY <2>1, <2>9, <2>10
<1>4. QED BY <1>2, <1>3

LEMMA StoreTyped ==
  ASSUME Typed, NEW n \in Collector, Store(n)
  PROVE  Typed'
<1> USE DEF Typed, TypeOK, web
<1>1. cur[n].source \in Source /\ cur[n].page \in Page
  BY DEF Store, HoldsPage
<1>2. faults' \in Nat
  BY FaultTyped DEF Store
<1>3. PICK r \in {"ok", "error"} : Becomes(n, cur[n].source, r)
  BY DEF Store
<1>4. result' \in [Collector -> [Source -> Result]]
  BY <1>1, <1>3, BecomesTyped DEF Result
<1>5. /\ latest' \in [Source -> Page \cup {0}]
      /\ valueAge' \in [Source -> Age]
  <2>1. CASE UNCHANGED <<latest, valueAge>>
    BY <2>1
  <2>2. CASE /\ latest' = [latest EXCEPT ![cur[n].source] = cur[n].page]
             /\ valueAge' = [valueAge EXCEPT ![cur[n].source] = 0]
    <3>1. 0 \in Age
      BY CollectorAssumption DEF Age
    <3>2. QED BY <1>1, <2>2, <3>1
  <2>3. QED BY <2>1, <2>2 DEF Store
<1>6. QED
  BY <1>2, <1>4, <1>5 DEF Store, HoldsPage, Goto, Stage

LEMMA PersistTyped ==
  ASSUME Typed, NEW n \in Collector, Persist(n)
  PROVE  Typed'
<1> USE DEF Typed, TypeOK, web
<1>1. faults' \in Nat
  BY FaultTyped DEF Persist
<1>2. PICK s \in Source :
        /\ age' \in {age, [age EXCEPT ![s] = Least(@, elapsed[n])]}
        /\ Becomes(n, s, "none")
  BY DEF Persist
<1>3. result' \in [Collector -> [Source -> Result]]
  BY <1>2, BecomesTyped DEF Result
<1>4. Least(age[s], elapsed[n]) \in Age
  BY LeastIs, CollectorAssumption DEF Age
<1>5. age' \in [Source -> Age]
  BY <1>2, <1>4
<1>6. QED
  BY <1>1, <1>3, <1>5 DEF Persist, HoldsPage

LEMMA TickTyped ==
  ASSUME Typed, Tick
  PROVE  Typed'
<1> USE DEF Typed, TypeOK, web
<1>1. age' \in [Source -> Age] /\ valueAge' \in [Source -> Age]
  BY OlderIs DEF Tick
<1>2. elapsed' \in [Collector -> 0 .. MaxRun]
  BY CollectorAssumption DEF Tick
<1>3. QED
  BY <1>1, <1>2 DEF Tick, HoldsPage

LEMMA NextTyped == Typed /\ [Next]_vars => Typed'
<1> SUFFICES ASSUME Typed, [Next]_vars PROVE Typed'
  OBVIOUS
<1> USE DEF Typed, TypeOK, web, tables, run
<1>1. ASSUME NEW n \in Collector, Begin(n) PROVE Typed'
  BY <1>1 DEF Begin, HoldsPage, Goto, Stage
<1>2. ASSUME NEW n \in Collector, Execute(n) PROVE Typed'
  <2>1. CASE EndRun(n)
    BY <1>2, <2>1, EndRunTyped DEF Execute
  <2>2. CASE /\ Goto(n, "fetch")
             /\ elapsed' = [elapsed EXCEPT ![n] = 0]
             /\ UNCHANGED <<sig, undecided, todo, cur, cache, tombs, result, asked, blind>>
    <3>1. 0 \in 0 .. MaxRun
      BY CollectorAssumption
    <3>2. QED BY <1>2, <2>2, <3>1 DEF Execute, HoldsPage, Goto, Stage
  <2>3. QED BY <1>2, <2>1, <2>2 DEF Execute
<1>3. ASSUME NEW n \in Collector, Fetched(n) PROVE Typed'
  BY <1>3 DEF Fetched, HoldsPage, Goto, Stage
<1>4. ASSUME NEW n \in Collector, Finish(n) PROVE Typed'
  BY <1>4, EndRunTyped DEF Finish
<1>5. ASSUME NEW n \in Collector, Sigterm(n) PROVE Typed'
  BY <1>5, FaultTyped DEF Sigterm, HoldsPage
<1>6. ASSUME NEW n \in Collector, Crash(n) PROVE Typed'
  BY <1>6, EndRunTyped, FaultTyped DEF Crash
<1>7. ASSUME NEW u \in Url, Publish(u) PROVE Typed'
  BY <1>7, CollectorAssumption DEF Publish, HoldsPage, Page
<1>8. ASSUME NEW s \in Source, Toggle(s) PROVE Typed'
  BY <1>8 DEF Toggle, HoldsPage
<1>9. CASE UNCHANGED vars
  BY <1>9 DEF vars, HoldsPage
<1>10. QED
  BY <1>1, <1>2, <1>3, <1>4, <1>5, <1>6, <1>7, <1>8, <1>9,
     DecideTyped, FetchTyped, StoreTyped, PersistTyped, TickTyped DEF Next, RunStep

\* The variables of Collector keep their types, with any number of runs.
THEOREM TypeCorrect == Spec => []TypeOK
<1>1. Init => Typed
  BY InitTyped
<1>2. Typed => TypeOK
  BY DEF Typed
<1>3. QED
  BY <1>1, <1>2, NextTyped, PTL DEF Spec

-----------------------------------------------------------------------------
(***************************************************************************)
(* A success row never stands without its rate.  Inductive together with:  *)
(* the rate behind a success a run has yet to write down is no older than  *)
(* the run's instant, and a run has no results before it executes.         *)
(***************************************************************************)
FreshResults ==
  \A n \in Collector, s \in Source :
     result[n][s] = "ok" => valueAge[s] <= elapsed[n]

NoResultsYet ==
  \A n \in Collector, s \in Source :
     pc[n] \in {"idle", "decide"} => result[n][s] = "none"

Backed == SuccessBacked /\ FreshResults /\ NoResultsYet

LEMMA BackedInit == Init => Backed
  BY CollectorAssumption DEF Init, Backed, SuccessBacked, FreshResults, NoResultsYet

\* A run that ends forgets its results.
LEMMA BackedEndRun ==
  ASSUME Typed, Backed, NEW n \in Collector, EndRun(n), UNCHANGED tables
  PROVE  Backed'
<1> USE DEF Typed, TypeOK, EndRun, Goto, tables
<1>1. ASSUME NEW m \in Collector, NEW s \in Source
      PROVE  /\ result'[m][s] = "ok" => m # n /\ result[m][s] = "ok" /\ elapsed'[m] = elapsed[m]
             /\ pc'[m] \in {"idle", "decide"} => result'[m][s] = "none"
  BY DEF Backed, NoResultsYet
<1>2. QED
  BY <1>1 DEF Backed, SuccessBacked, FreshResults, NoResultsYet

\* A step that only moves a run on, or turns a source's result to an error.
LEMMA BackedMove ==
  ASSUME Typed, Backed, UNCHANGED <<age, valueAge>>,
         \A m \in Collector, s \in Source :
            /\ result'[m][s] = "ok" => result[m][s] = "ok" /\ elapsed'[m] = elapsed[m]
            /\ pc'[m] \in {"idle", "decide"} => result'[m][s] = "none"
  PROVE  Backed'
  BY DEF Backed, SuccessBacked, FreshResults, NoResultsYet

LEMMA BackedStore ==
  ASSUME Typed, Backed, NEW n \in Collector, Store(n)
  PROVE  Backed'
<1> USE DEF Typed, TypeOK
<1>1. cur[n].source \in Source
  BY DEF Store, HoldsPage
<1>2. UNCHANGED age /\ UNCHANGED elapsed
  BY DEF Store
<1>3. ASSUME NEW s \in Source
      PROVE  valueAge[s] \in Nat /\ valueAge'[s] \in Nat /\ age[s] \in Nat
  <2>1. valueAge[s] \in Nat /\ age[s] \in Nat
    BY DEF Age
  <2>2. valueAge'[s] = valueAge[s] \/ valueAge'[s] = 0
    BY <1>1 DEF Store
  <2>3. QED BY <2>1, <2>2
<1>4. ASSUME NEW s \in Source PROVE valueAge'[s] <= valueAge[s]
  <2>1. valueAge'[s] = valueAge[s] \/ valueAge'[s] = 0
    BY <1>1 DEF Store
  <2>2. QED BY <1>3, <2>1
<1>a. \A m \in Collector, s \in Source :
         <<m, s>> # <<n, cur[n].source>> => result'[m][s] = result[m][s]
  BY <1>1 DEF Store, Becomes
<1>b. \/ result'[n][cur[n].source] = "error"
      \/ valueAge'[cur[n].source] = 0
  BY <1>1 DEF Store, Becomes
<1>5. \A m \in Collector, s \in Source :
         result'[m][s] = "ok" => result[m][s] = "ok" \/ valueAge'[s] = 0
  BY <1>a, <1>b
<1>6. NoResultsYet'
  <2>1. pc'[n] = "fetch" /\ \A m \in Collector : m # n => pc'[m] = pc[m]
    BY DEF Store, Goto
  <2>2. pc[n] = "store"
    BY DEF Store
  <2> HIDE DEF Typed, TypeOK
  <2>3. QED BY <1>a, <2>1, <2>2 DEF Backed, NoResultsYet
<1>7. SuccessBacked'
  <2>1. ASSUME NEW s \in Source, age[s] < MaxAge PROVE valueAge'[s] <= age[s]
    <3>1. valueAge[s] <= age[s]
      BY <2>1 DEF Backed, SuccessBacked
    <3>2. QED BY <1>3, <1>4, <3>1
  <2>2. QED
    BY <1>2, <2>1 DEF SuccessBacked
<1>8. FreshResults'
  <2>1. ASSUME NEW m \in Collector, NEW s \in Source, result'[m][s] = "ok"
        PROVE  valueAge'[s] <= elapsed[m]
    <3>1. valueAge[s] \in Nat /\ valueAge'[s] \in Nat /\ elapsed[m] \in Nat
      <4>1. elapsed[m] \in Nat
        BY CollectorAssumption
      <4>2. QED BY <1>3, <4>1
    <3>2. CASE result[m][s] = "ok"
      BY <1>4, <3>1, <3>2 DEF Backed, FreshResults
    <3>3. CASE valueAge'[s] = 0
      BY <3>1, <3>3
    <3>4. QED BY <1>5, <2>1, <3>2, <3>3
  <2>2. QED BY <1>2, <2>1 DEF FreshResults
<1>9. QED
  BY <1>6, <1>7, <1>8 DEF Backed

LEMMA BackedPersist ==
  ASSUME Typed, Backed, NEW n \in Collector, Persist(n)
  PROVE  Backed'
<1> USE DEF Typed, TypeOK
<1>1. PICK s \in Source :
        /\ \/ /\ age' = IF Succeeded(n, s)
                        THEN [age EXCEPT ![s] = Least(@, elapsed[n])] ELSE age
           \/ UNCHANGED age
        /\ Becomes(n, s, "none")
  BY DEF Persist
<1>2. UNCHANGED <<valueAge, elapsed, pc>>
  BY DEF Persist
<1>3. \A m \in Collector, t \in Source : result'[m][t] \in {"none", result[m][t]}
  BY <1>1 DEF Becomes
<1>4. FreshResults' /\ NoResultsYet'
  BY <1>2, <1>3 DEF Backed, FreshResults, NoResultsYet
<1>5. SuccessBacked'
  <2>1. CASE UNCHANGED age
    BY <1>2, <2>1 DEF Backed, SuccessBacked
  <2>2. CASE Succeeded(n, s) /\ age' = [age EXCEPT ![s] = Least(@, elapsed[n])]
    <3>1. age[s] \in Nat /\ elapsed[n] \in Nat /\ valueAge[s] <= elapsed[n]
      BY <2>2, CollectorAssumption DEF Backed, FreshResults, Succeeded, Age
    <3>2. age'[s] \in {age[s], elapsed[n]}
      BY <2>2, <3>1, LeastIs
    <3>3. \A t \in Source : t # s => age'[t] = age[t]
      BY <2>2
    <3>4. QED BY <1>2, <3>1, <3>2, <3>3 DEF Backed, SuccessBacked
  <2>3. QED BY <1>1, <2>1, <2>2
<1>6. QED
  BY <1>4, <1>5 DEF Backed

LEMMA BackedTick ==
  ASSUME Typed, Backed, Tick
  PROVE  Backed'
<1> USE DEF Typed, TypeOK
<1>1. ASSUME NEW s \in Source
      PROVE  /\ age[s] \in Age /\ valueAge[s] \in Age
             /\ age'[s] = Older(age[s]) /\ valueAge'[s] = Older(valueAge[s])
             /\ Older(age[s]) \in Nat /\ Older(valueAge[s]) <= valueAge[s] + 1
             /\ Older(valueAge[s]) \in Nat
             /\ Older(age[s]) < MaxAge => Older(age[s]) = age[s] + 1
  BY OlderIs DEF Tick, Age
<1>2. SuccessBacked'
  <2>1. ASSUME NEW s \in Source, age'[s] < MaxAge PROVE valueAge'[s] <= age'[s]
    <3>1. age'[s] = age[s] + 1 /\ age[s] \in Nat /\ valueAge[s] \in Nat
      BY <1>1, <2>1 DEF Age
    <3>2. age[s] < MaxAge
      BY <2>1, <3>1, CollectorAssumption
    <3>3. valueAge[s] <= age[s]
      BY <3>2 DEF Backed, SuccessBacked
    <3>4. QED BY <1>1, <3>1, <3>3
  <2>2. QED BY <2>1 DEF SuccessBacked
<1>3. UNCHANGED <<pc, result>>
  BY DEF Tick
<1>4. FreshResults'
  <2>1. ASSUME NEW n \in Collector, NEW s \in Source, result[n][s] = "ok"
        PROVE  valueAge'[s] <= elapsed'[n]
    <3>1. pc[n] # "idle" /\ valueAge[s] <= elapsed[n]
      BY <2>1 DEF Backed, FreshResults, NoResultsYet
    <3>2. elapsed'[n] = elapsed[n] + 1 /\ elapsed[n] \in Nat
      BY <3>1 DEF Tick
    <3>3. QED BY <1>1, <3>1, <3>2 DEF Age
  <2>2. QED BY <1>3, <2>1 DEF FreshResults
<1>5. QED
  BY <1>2, <1>3, <1>4 DEF Backed, NoResultsYet

LEMMA BackedNext == Typed /\ Backed /\ [Next]_vars => Backed'
<1> SUFFICES ASSUME Typed, Backed, [Next]_vars PROVE Backed'
  OBVIOUS
<1> USE DEF web, tables, run
<1>1. ASSUME NEW n \in Collector, Begin(n) PROVE Backed'
  BY <1>1 DEF Begin, Goto, Typed, TypeOK, Backed, SuccessBacked, FreshResults, NoResultsYet
<1>2. ASSUME NEW n \in Collector, Decide(n) PROVE Backed'
  BY <1>2 DEF Decide, Backed, SuccessBacked, FreshResults, NoResultsYet
<1>3. ASSUME NEW n \in Collector, Execute(n) PROVE Backed'
  <2>1. CASE EndRun(n)
    BY <1>3, <2>1, BackedEndRun DEF Execute
  <2>2. CASE /\ Goto(n, "fetch") /\ elapsed' = [elapsed EXCEPT ![n] = 0]
             /\ UNCHANGED result
    <3>1. \A s \in Source : result[n][s] = "none"
      BY <1>3 DEF Execute, Backed, NoResultsYet
    <3>2. \A m \in Collector : m # n => elapsed'[m] = elapsed[m] /\ pc'[m] = pc[m]
      BY <2>2 DEF Goto, Typed, TypeOK
    <3>3. pc'[n] = "fetch"
      BY <2>2 DEF Goto, Typed, TypeOK
    <3>4. UNCHANGED tables
      BY <1>3 DEF Execute
    <3>5. QED
      BY <2>2, <3>1, <3>2, <3>3, <3>4 DEF Backed, SuccessBacked, FreshResults, NoResultsYet
  <2>3. QED BY <1>3, <2>1, <2>2 DEF Execute
<1>4. ASSUME NEW n \in Collector, FetchNothing(n) \/ Fetch(n) PROVE Backed'
  <2>1. PICK s \in NextToFetch(n) :
          \/ UNCHANGED <<pc, result>>
          \/ Becomes(n, s, "error") /\ UNCHANGED pc
          \/ (\E p : Hold(n, s, p)) /\ UNCHANGED result
    BY <1>4 DEF FetchNothing, Fetch
  <2>2. UNCHANGED <<age, valueAge, elapsed>>
    BY <1>4 DEF FetchNothing, Fetch
  <2>3. pc[n] = "fetch"
    BY <1>4 DEF FetchNothing, Fetch
  <2>4. \A m \in Collector : pc'[m] = pc[m] \/ (m = n /\ pc'[m] = "store")
    BY <2>1 DEF Hold, Goto, Typed, TypeOK
  <2>5. \A m \in Collector, t \in Source :
           result'[m][t] = result[m][t] \/ (m = n /\ result'[m][t] = "error")
    BY <2>1 DEF Becomes, Typed, TypeOK
  <2>6. QED
    BY <2>2, <2>3, <2>4, <2>5 DEF Backed, SuccessBacked, FreshResults, NoResultsYet
<1>5. ASSUME NEW n \in Collector, Fetched(n) PROVE Backed'
  BY <1>5 DEF Fetched, Goto, Typed, TypeOK, Backed, SuccessBacked, FreshResults, NoResultsYet
<1>6. ASSUME NEW n \in Collector, Finish(n) PROVE Backed'
  BY <1>6, BackedEndRun DEF Finish
<1>7. ASSUME NEW n \in Collector, Crash(n) PROVE Backed'
  BY <1>7, BackedEndRun DEF Crash
<1>8. CASE \/ \E n \in Collector : Sigterm(n)
           \/ \E u \in Url : Publish(u)
           \/ \E s \in Source : Toggle(s)
           \/ UNCHANGED vars
  BY <1>8 DEF Sigterm, Publish, Toggle, vars, Backed, SuccessBacked, FreshResults, NoResultsYet
<1>9. QED
  BY <1>1, <1>2, <1>3, <1>4, <1>5, <1>6, <1>7, <1>8,
     BackedStore, BackedPersist, BackedTick DEF Next, RunStep

\* A success row of execution_history never stands without a rate at least as
\* new, whatever runs overlap, crash or are signalled.
THEOREM HistoryIsBacked == Spec => []SuccessBacked
<1>1. Init => Typed /\ Backed
  BY InitTyped, BackedInit
<1>2. Typed /\ Backed /\ [Next]_vars => (Typed /\ Backed)'
  BY NextTyped, BackedNext
<1>3. Typed /\ Backed => SuccessBacked
  BY DEF Backed
<1>4. QED
  BY <1>1, <1>2, <1>3, PTL DEF Spec

-----------------------------------------------------------------------------
(***************************************************************************)
(* A run asks for a plain page once: what it asked for is in its cache or  *)
(* among its tombstones, and both stop a second request.                   *)
(***************************************************************************)
Answered ==
  \A n \in Collector, u \in Url :
     /\ asked[n][u] \in {0, 1}
     /\ asked[n][u] = 1 => cache[n][u] # 0 \/ <<"plain", u>> \in tombs[n]

LEMMA AnsweredInit == Init => Answered
  BY DEF Init, Answered

LEMMA AnsweredEndRun ==
  ASSUME Typed, Answered, NEW n \in Collector, EndRun(n)
  PROVE  Answered'
<1>1. /\ asked'[n] = [u \in Url |-> 0]
      /\ \A m \in Collector : m # n =>
            asked'[m] = asked[m] /\ cache'[m] = cache[m] /\ tombs'[m] = tombs[m]
  BY DEF EndRun, Typed, TypeOK
<1>2. ASSUME NEW m \in Collector, NEW u \in Url
      PROVE  /\ asked'[m][u] \in {0, 1}
             /\ asked'[m][u] = 1 => cache'[m][u] # 0 \/ <<"plain", u>> \in tombs'[m]
  <2>1. CASE m = n
    BY <1>1, <2>1
  <2>2. CASE m # n
    BY <1>1, <2>2 DEF Answered
  <2>3. QED BY <2>1, <2>2
<1>3. QED
  BY <1>2 DEF Answered

LEMMA AnsweredFetch ==
  ASSUME Typed, Answered, NEW n \in Collector, Fetch(n)
  PROVE  Answered'
<1>1. PICK s \in NextToFetch(n) :
        /\ ~Hopeless(n, s) /\ ~Cached(n, s)
        /\ \/ /\ Asked(n, s)
              /\ cache' = IF Plain(s) THEN [cache EXCEPT ![n][UrlOf[s]] = site[UrlOf[s]]]
                                      ELSE cache
              /\ UNCHANGED tombs
           \/ Asked(n, s) /\ Entomb(n, s) /\ UNCHANGED cache
           \/ UNCHANGED <<asked, cache, tombs>>
  BY DEF Fetch
<1>2. s \in Source
  BY DEF NextToFetch, Typed, TypeOK
<1>3. UrlOf[s] \in Url /\ site[UrlOf[s]] # 0
  <2>1. UrlOf[s] \in Url
    BY <1>2, CollectorAssumption
  <2>2. site[UrlOf[s]] \in Page
    BY <2>1 DEF Typed, TypeOK
  <2> QED
    BY <2>1, <2>2 DEF Page
<1>4. CASE UNCHANGED <<asked, cache, tombs>>
  BY <1>4 DEF Answered
<1>5. CASE /\ Asked(n, s) /\ ~Plain(s) /\ UNCHANGED cache
           /\ Entomb(n, s) \/ UNCHANGED tombs
  <2>1. UNCHANGED asked
    BY <1>5 DEF Asked
  <2>2. \A m \in Collector : tombs[m] \subseteq tombs'[m]
    BY <1>5 DEF Entomb, Typed, TypeOK
  <2>3. QED BY <1>5, <2>1, <2>2 DEF Answered
<1>6. CASE Asked(n, s) /\ Plain(s)
  <2>1. TombOf(s) = <<"plain", UrlOf[s]>>
    BY <1>6 DEF Plain, TombOf
  <2>2. asked[n][UrlOf[s]] = 0
    BY <1>1, <1>2, <1>3, <1>6, <2>1 DEF Hopeless, Cached, Answered
  <2>3. asked' = [asked EXCEPT ![n][UrlOf[s]] = @ + 1]
    BY <1>6 DEF Asked
  <2>4. /\ asked'[n][UrlOf[s]] = 1
        /\ \A m \in Collector, u \in Url :
              <<m, u>> # <<n, UrlOf[s]>> => asked'[m][u] = asked[m][u]
    BY <1>3, <2>2, <2>3 DEF Typed, TypeOK
  <2>5. CASE cache' = [cache EXCEPT ![n][UrlOf[s]] = site[UrlOf[s]]] /\ UNCHANGED tombs
    <3>1. /\ cache'[n][UrlOf[s]] # 0
          /\ \A m \in Collector, u \in Url :
                <<m, u>> # <<n, UrlOf[s]>> => cache'[m][u] = cache[m][u]
      BY <1>3, <2>5 DEF Typed, TypeOK
    <3>2. SUFFICES ASSUME NEW m \in Collector, NEW u \in Url
                   PROVE  /\ asked'[m][u] \in {0, 1}
                          /\ asked'[m][u] = 1 => cache'[m][u] # 0 \/ <<"plain", u>> \in tombs'[m]
      BY DEF Answered
    <3>3. CASE <<m, u>> = <<n, UrlOf[s]>>
      BY <2>4, <3>1, <3>3
    <3>4. CASE <<m, u>> # <<n, UrlOf[s]>>
      BY <2>4, <2>5, <3>1, <3>4 DEF Answered
    <3>5. QED BY <3>3, <3>4
  <2>6. CASE Entomb(n, s) /\ UNCHANGED cache
    <3>1. /\ <<"plain", UrlOf[s]>> \in tombs'[n]
          /\ \A m \in Collector : tombs[m] \subseteq tombs'[m]
      BY <2>1, <2>6 DEF Entomb, Typed, TypeOK
    <3>2. SUFFICES ASSUME NEW m \in Collector, NEW u \in Url
                   PROVE  /\ asked'[m][u] \in {0, 1}
                          /\ asked'[m][u] = 1 => cache'[m][u] # 0 \/ <<"plain", u>> \in tombs'[m]
      BY DEF Answered
    <3>3. CASE <<m, u>> = <<n, UrlOf[s]>>
      BY <2>4, <3>1, <3>3
    <3>4. CASE <<m, u>> # <<n, UrlOf[s]>>
      BY <2>4, <2>6, <3>1, <3>4 DEF Answered
    <3>5. QED BY <3>3, <3>4
  <2>7. CASE UNCHANGED <<asked, cache, tombs>>
    BY <2>7, <1>4
  <2>8. QED BY <1>1, <1>6, <2>5, <2>6, <2>7
<1>7. QED BY <1>1, <1>4, <1>5, <1>6

LEMMA AnsweredNext == Typed /\ Answered /\ [Next]_vars => Answered'
<1> SUFFICES ASSUME Typed, Answered, [Next]_vars PROVE Answered'
  OBVIOUS
<1> USE DEF run
<1>1. ASSUME NEW n \in Collector, Execute(n) PROVE Answered'
  <2>1. CASE EndRun(n)
    BY <2>1, AnsweredEndRun
  <2>2. CASE UNCHANGED <<cache, tombs, asked>>
    BY <2>2 DEF Answered
  <2>3. QED BY <1>1, <2>1, <2>2 DEF Execute
<1>2. ASSUME NEW n \in Collector, Finish(n) \/ Crash(n) PROVE Answered'
  BY <1>2, AnsweredEndRun DEF Finish, Crash
<1>3. CASE UNCHANGED <<cache, tombs, asked>>
  BY <1>3 DEF Answered
<1>4. ASSUME NEW n \in Collector,
             Begin(n) \/ Decide(n) \/ FetchNothing(n) \/ Store(n) \/ Fetched(n)
               \/ Persist(n) \/ Sigterm(n)
      PROVE  Answered'
  <2>1. UNCHANGED <<cache, tombs, asked>>
    BY <1>4 DEF Begin, Decide, FetchNothing, Store, Fetched, Persist, Sigterm
  <2>2. QED BY <1>3, <2>1
<1>5. CASE \/ \E u \in Url : Publish(u)
           \/ \E s \in Source : Toggle(s)
           \/ Tick
           \/ UNCHANGED vars
  BY <1>3, <1>5 DEF Publish, Toggle, Tick, vars
<1>6. QED
  BY <1>1, <1>2, <1>4, <1>5, AnsweredFetch DEF Next, RunStep

\* No run asks for the same plain page twice, empty answers aside.
THEOREM PagesAskedOnce == Spec => []AskedOnce
<1>1. Init => Typed /\ Answered
  BY InitTyped, AnsweredInit
<1>2. Typed /\ Answered /\ [Next]_vars => (Typed /\ Answered)'
  BY NextTyped, AnsweredNext
<1>3. Answered => AskedOnce
  <2>1. ASSUME Answered, NEW n \in Collector, NEW u \in Url PROVE asked[n][u] <= 1
    <3>1. asked[n][u] = 0 \/ asked[n][u] = 1
      BY <2>1 DEF Answered
    <3>2. QED BY <3>1
  <2>2. QED BY <2>1 DEF AskedOnce
<1>4. QED
  BY <1>1, <1>2, <1>3, PTL DEF Spec

-----------------------------------------------------------------------------
(***************************************************************************)
(* Runs that do not overlap.  The values of one page come from one version *)
(* of it: what a run has stored for a plain source is what its cache holds *)
(* of the page, and a page is never cached twice.                          *)
(***************************************************************************)
Serial == \A m, n \in Collector : m = n

FromCache ==
  \A n \in Collector : \A s \in Source : Plain(s) =>
     /\ result[n][s] = "ok" => cache[n][UrlOf[s]] # 0 /\ latest[s] = cache[n][UrlOf[s]]
     /\ pc[n] = "store" /\ cur[n].source = s =>
           cache[n][UrlOf[s]] # 0 /\ cur[n].page = cache[n][UrlOf[s]]

LEMMA EndRunIs ==
  ASSUME Typed, NEW n \in Collector, EndRun(n)
  PROVE  /\ pc'[n] = "idle" /\ todo'[n] = {} /\ blind'[n] = {}
         /\ \A s \in Source : result'[n][s] = "none"
  BY DEF EndRun, Goto, Typed, TypeOK

LEMMA BecomesIs ==
  ASSUME Typed, NEW n \in Collector, NEW s \in Source, NEW r, Becomes(n, s, r)
  PROVE  /\ result'[n][s] = r
         /\ \A t \in Source \ {s} : result'[n][t] = result[n][t]
  BY DEF Becomes, Typed, TypeOK

LEMMA HoldIs ==
  ASSUME Typed, NEW n \in Collector, NEW s, NEW p, Hold(n, s, p)
  PROVE  pc'[n] = "store" /\ cur'[n].source = s /\ cur'[n].page = p
  BY DEF Hold, Goto, Typed, TypeOK

LEMMA GotoIs ==
  ASSUME Typed, NEW n \in Collector, NEW stage, Goto(n, stage)
  PROVE  pc'[n] = stage
  BY DEF Goto, Typed, TypeOK

LEMMA FromCacheFetch ==
  ASSUME Typed, FromCache, Serial, NEW n \in Collector, Fetch(n)
  PROVE  FromCache'
<1>1. PICK s \in NextToFetch(n) :
        /\ ~Cached(n, s)
        /\ \/ /\ cache' = IF Plain(s) THEN [cache EXCEPT ![n][UrlOf[s]] = site[UrlOf[s]]]
                                      ELSE cache
              /\ Hold(n, s, site[UrlOf[s]])
              /\ UNCHANGED result
           \/ /\ Becomes(n, s, "error")
              /\ UNCHANGED <<cache, cur, pc>>
  BY DEF Fetch
<1>2. s \in Source
  BY DEF NextToFetch, Typed, TypeOK
<1>3. UrlOf[s] \in Url /\ site[UrlOf[s]] # 0 /\ \A t \in Source : UrlOf[t] \in Url
  BY <1>2, CollectorAssumption DEF Typed, TypeOK, Page
<1>4. UNCHANGED latest /\ pc[n] = "fetch"
  BY DEF Fetch, tables
<1>5. CASE Becomes(n, s, "error") /\ UNCHANGED <<cache, cur, pc>>
  <2>1. \A t \in Source : result'[n][t] = "ok" => result[n][t] = "ok"
    BY <1>2, <1>5, BecomesIs
  <2>2. QED BY <1>4, <1>5, <2>1 DEF FromCache, Serial
<1>6. CASE ~Plain(s) /\ UNCHANGED <<cache, result>> /\ Hold(n, s, site[UrlOf[s]])
  <2>1. cur'[n].source = s
    BY <1>2, <1>6, HoldIs
  <2>2. QED BY <1>4, <1>6, <2>1 DEF FromCache, Serial
<1>7. CASE /\ Plain(s) /\ UNCHANGED result /\ Hold(n, s, site[UrlOf[s]])
           /\ cache' = [cache EXCEPT ![n][UrlOf[s]] = site[UrlOf[s]]]
  <2>1. cache[n][UrlOf[s]] = 0
    BY <1>1, <1>7 DEF Cached
  <2>2. /\ cache'[n][UrlOf[s]] = site[UrlOf[s]]
        /\ \A u \in Url \ {UrlOf[s]} : cache'[n][u] = cache[n][u]
    BY <1>3, <1>7 DEF Typed, TypeOK
  <2>3. cur'[n].source = s /\ cur'[n].page = site[UrlOf[s]]
    BY <1>2, <1>7, HoldIs
  <2>4. ASSUME NEW t \in Source, Plain(t)
        PROVE  /\ result'[n][t] = "ok" =>
                    cache'[n][UrlOf[t]] # 0 /\ latest'[t] = cache'[n][UrlOf[t]]
               /\ cur'[n].source = t =>
                    cache'[n][UrlOf[t]] # 0 /\ cur'[n].page = cache'[n][UrlOf[t]]
    BY <1>3, <1>4, <1>7, <2>1, <2>2, <2>3, <2>4 DEF FromCache
  <2>5. QED BY <2>4 DEF FromCache, Serial
<1>8. QED BY <1>1, <1>5, <1>6, <1>7

LEMMA FromCacheNext == ASSUME Serial PROVE Typed /\ FromCache /\ [Next]_vars => FromCache'
<1> SUFFICES ASSUME Typed, FromCache, [Next]_vars PROVE FromCache'
  OBVIOUS
<1> USE DEF run, tables, web
<1>1. ASSUME NEW n \in Collector, EndRun(n) PROVE FromCache'
  BY <1>1, EndRunIs DEF FromCache, Serial
<1>2. ASSUME UNCHANGED <<latest, result, cache, cur>>,
             \A n \in Collector : pc'[n] = "store" => pc[n] = "store"
      PROVE  FromCache'
  BY <1>2 DEF FromCache
<1>3. ASSUME NEW n \in Collector, Begin(n) \/ Fetched(n) PROVE FromCache'
  <2>1. pc'[n] # "store"
    BY <1>3, GotoIs DEF Begin, Fetched
  <2>2. UNCHANGED <<latest, result, cache, cur>>
    BY <1>3 DEF Begin, Fetched
  <2>3. QED BY <1>2, <2>1, <2>2 DEF Serial
<1>4. ASSUME NEW n \in Collector, Decide(n) \/ Sigterm(n) PROVE FromCache'
  BY <1>2, <1>4 DEF Decide, Sigterm
<1>5. ASSUME NEW n \in Collector, Execute(n) PROVE FromCache'
  <2>1. CASE EndRun(n)
    BY <1>1, <2>1
  <2>2. CASE Goto(n, "fetch") /\ UNCHANGED <<result, cache, cur>>
    <3>1. pc'[n] # "store" /\ UNCHANGED latest
      BY <1>5, <2>2, GotoIs DEF Execute
    <3>2. QED BY <1>2, <2>2, <3>1 DEF Serial
  <2>3. QED BY <1>5, <2>1, <2>2 DEF Execute
<1>6. ASSUME NEW n \in Collector, FetchNothing(n) PROVE FromCache'
  <2>1. PICK s \in NextToFetch(n) :
          \/ Becomes(n, s, "error") /\ UNCHANGED <<pc, cur>>
          \/ Cached(n, s) /\ Hold(n, s, cache[n][UrlOf[s]]) /\ UNCHANGED result
    BY <1>6 DEF FetchNothing
  <2>2. s \in Source /\ UNCHANGED <<latest, cache>>
    BY <1>6 DEF FetchNothing, NextToFetch, Typed, TypeOK
  <2>3. CASE Becomes(n, s, "error") /\ UNCHANGED <<pc, cur>>
    <3>1. \A t \in Source : result'[n][t] = "ok" => result[n][t] = "ok"
      BY <2>2, <2>3, BecomesIs
    <3>2. QED BY <2>2, <2>3, <3>1 DEF FromCache, Serial
  <2>4. CASE Cached(n, s) /\ Hold(n, s, cache[n][UrlOf[s]]) /\ UNCHANGED result
    <3>1. cur'[n].source = s /\ cur'[n].page = cache[n][UrlOf[s]]
      BY <2>4, HoldIs
    <3>2. QED BY <2>2, <2>4, <3>1 DEF FromCache, Serial, Cached
  <2>5. QED BY <2>1, <2>3, <2>4
<1>7. ASSUME NEW n \in Collector, Store(n) PROVE FromCache'
  <2> DEFINE s == cur[n].source
  <2>1. /\ pc'[n] = "fetch" /\ UNCHANGED cache /\ pc[n] = "store"
        /\ \/ latest' = [latest EXCEPT ![s] = cur[n].page] /\ Becomes(n, s, "ok")
           \/ UNCHANGED latest /\ Becomes(n, s, "error")
    BY <1>7, GotoIs DEF Store
  <2>2. s \in Source
    BY <1>7, <2>1 DEF Typed, TypeOK, HoldsPage
  <2>3. CASE UNCHANGED latest /\ Becomes(n, s, "error")
    <3>1. \A t \in Source : result'[n][t] = "ok" => result[n][t] = "ok"
      BY <2>2, <2>3, BecomesIs
    <3>2. QED BY <2>1, <2>3, <3>1 DEF FromCache, Serial
  <2>4. CASE latest' = [latest EXCEPT ![s] = cur[n].page] /\ Becomes(n, s, "ok")
    <3>1. /\ latest'[s] = cur[n].page
          /\ \A t \in Source \ {s} : latest'[t] = latest[t]
      BY <2>2, <2>4 DEF Typed, TypeOK
    <3>2. \A t \in Source \ {s} : result'[n][t] = result[n][t]
      BY <2>2, <2>4, BecomesIs
    <3>3. ASSUME NEW t \in Source, Plain(t), result'[n][t] = "ok"
          PROVE  cache'[n][UrlOf[t]] # 0 /\ latest'[t] = cache'[n][UrlOf[t]]
      <4>1. CASE t = s
        BY <2>1, <3>1, <3>3, <4>1 DEF FromCache
      <4>2. CASE t # s
        BY <2>1, <3>1, <3>2, <3>3, <4>2 DEF FromCache
      <4>3. QED BY <4>1, <4>2
    <3>4. QED BY <2>1, <3>3 DEF FromCache, Serial
  <2>5. QED BY <2>1, <2>3, <2>4
<1>8. ASSUME NEW n \in Collector, Persist(n) PROVE FromCache'
  <2>1. UNCHANGED <<latest, cache, cur, pc>> /\ \E s \in Source : Becomes(n, s, "none")
    BY <1>8 DEF Persist
  <2>2. \A t \in Source : result'[n][t] = "ok" => result[n][t] = "ok"
    BY <2>1, BecomesIs
  <2>3. QED BY <2>1, <2>2 DEF FromCache, Serial
<1>9. ASSUME NEW n \in Collector, Finish(n) \/ Crash(n) PROVE FromCache'
  BY <1>1, <1>9 DEF Finish, Crash
<1>10. CASE (\E u \in Url : Publish(u)) \/ (\E s \in Source : Toggle(s)) \/ Tick \/ UNCHANGED vars
  BY <1>2, <1>10 DEF Publish, Toggle, Tick, vars
<1>11. QED
  BY <1>3, <1>4, <1>5, <1>6, <1>7, <1>8, <1>9, <1>10, FromCacheFetch DEF Next, RunStep

\* With one run at a time, the rates a run stored for plain sources of one page come
\* from one version of it, whatever is published while the run goes on (pageCache).
THEOREM SerialOneVersion == ASSUME Serial PROVE Spec => []OneVersion
<1>1. Init => Typed /\ FromCache
  <2>1. ASSUME Init PROVE FromCache
    BY <2>1 DEF Init, FromCache
  <2>2. QED BY <2>1, InitTyped
<1>2. Typed /\ FromCache /\ [Next]_vars => (Typed /\ FromCache)'
  BY NextTyped, FromCacheNext
<1>3. FromCache => OneVersion
  BY DEF FromCache, OneVersion
<1>4. QED
  BY <1>1, <1>2, <1>3, PTL DEF Spec

-----------------------------------------------------------------------------
(***************************************************************************)
(* Successes are spaced.  A source that the run is about to fetch, holds   *)
(* the page of or has stored was due when the run began, and it stays so:  *)
(* both ages grow together until the run stamps its row, and the instant   *)
(* of the execution only makes the run look younger.                       *)
(***************************************************************************)
Pending(n, s) ==
  \/ s \in todo[n]
  \/ pc[n] = "store" /\ cur[n].source = s
  \/ result[n][s] = "ok"

Apart(n, s) == age[s] = MaxAge \/ age[s] + Grace(s) >= Interval[s] + elapsed[n]

Phases ==
  \A n \in Collector :
     /\ pc[n] \in {"idle", "persist"} => todo[n] = {}
     /\ pc[n] \in {"idle", "decide"} => \A s \in Source : result[n][s] = "none"

Waited ==
  \A n \in Collector, s \in Source : Pending(n, s) /\ s \notin blind[n] => Apart(n, s)

LEMMA GraceIs ==
  ASSUME NEW s \in Source
  PROVE  Grace(s) \in Nat /\ Interval[s] \in Nat
<1>1. Interval[s] \in Nat /\ Interval[s] \div 4 \in Nat /\ MinGrace \in Nat /\ MaxGrace \in Nat
  BY CollectorAssumption
<1>2. Most(Interval[s] \div 4, MinGrace) \in Nat
  BY <1>1 DEF Most
<1>3. QED
  BY <1>1, <1>2, LeastIs DEF Grace

LEMMA AgesAre ==
  ASSUME Typed, NEW n \in Collector, NEW s \in Source
  PROVE  age[s] \in Age /\ age[s] \in Nat /\ age[s] <= MaxAge /\ elapsed[n] \in Nat
  BY CollectorAssumption DEF Typed, TypeOK, Age

LEMMA PhasesNext == ASSUME Serial PROVE Typed /\ Phases /\ [Next]_vars => Phases'
<1> SUFFICES ASSUME Typed, Phases, [Next]_vars PROVE Phases'
  OBVIOUS
<1> USE DEF run, tables, web
<1>1. ASSUME NEW n \in Collector, EndRun(n) PROVE Phases'
  BY <1>1, EndRunIs DEF Phases, Serial
<1>2. ASSUME UNCHANGED <<pc, todo, result>> PROVE Phases'
  BY <1>2 DEF Phases
<1>3. ASSUME NEW n \in Collector, pc'[n] \in {"fetch", "store"} PROVE Phases'
  BY <1>3 DEF Phases, Serial
<1>4. ASSUME NEW n \in Collector, Begin(n) PROVE Phases'
  <2>1. pc'[n] = "decide" /\ pc[n] = "idle" /\ UNCHANGED result
    BY <1>4, GotoIs DEF Begin
  <2>2. QED BY <2>1 DEF Phases, Serial
<1>5. ASSUME NEW n \in Collector, Decide(n) PROVE Phases'
  <2>1. pc[n] = "decide" /\ UNCHANGED <<pc, result>>
    BY <1>5 DEF Decide
  <2>2. QED BY <2>1 DEF Phases, Serial
<1>6. ASSUME NEW n \in Collector, Execute(n) PROVE Phases'
  <2>1. EndRun(n) \/ Goto(n, "fetch")
    BY <1>6 DEF Execute
  <2>2. QED BY <1>1, <1>3, <2>1, GotoIs
<1>7. ASSUME NEW n \in Collector, FetchNothing(n) \/ Fetch(n) PROVE Phases'
  <2>1. pc[n] = "fetch" /\ (UNCHANGED pc \/ \E s, p : Hold(n, s, p))
    BY <1>7 DEF FetchNothing, Fetch
  <2>2. QED BY <1>3, <2>1, HoldIs
<1>8. ASSUME NEW n \in Collector, Store(n) PROVE Phases'
  <2>1. pc'[n] = "fetch"
    BY <1>8, GotoIs DEF Store
  <2>2. QED BY <1>3, <2>1
<1>9. ASSUME NEW n \in Collector, Fetched(n) PROVE Phases'
  <2>1. pc'[n] = "persist" /\ todo[n] = {} /\ UNCHANGED todo
    BY <1>9, GotoIs DEF Fetched
  <2>2. QED BY <2>1 DEF Phases, Serial
<1>10. ASSUME NEW n \in Collector, Persist(n) PROVE Phases'
  <2>1. pc[n] = "persist" /\ UNCHANGED <<pc, todo>>
    BY <1>10 DEF Persist
  <2>2. QED BY <2>1 DEF Phases, Serial
<1>11. ASSUME NEW n \in Collector, Finish(n) \/ Crash(n) PROVE Phases'
  BY <1>1, <1>11 DEF Finish, Crash
<1>12. ASSUME NEW n \in Collector, Sigterm(n) PROVE Phases'
  BY <1>2, <1>12 DEF Sigterm
<1>13. CASE (\E u \in Url : Publish(u)) \/ (\E s \in Source : Toggle(s)) \/ Tick \/ UNCHANGED vars
  BY <1>2, <1>13 DEF Publish, Toggle, Tick, vars
<1>14. QED
  BY <1>4, <1>5, <1>6, <1>7, <1>8, <1>9, <1>10, <1>11, <1>12, <1>13 DEF Next, RunStep

LEMMA WaitedNext == ASSUME Serial PROVE Typed /\ Phases /\ Waited /\ [Next]_vars => Waited'
<1> SUFFICES ASSUME Typed, Phases, Waited, [Next]_vars PROVE Waited'
  OBVIOUS
<1> USE DEF run, tables, web
<1>1. ASSUME NEW n \in Collector, pc'[n] # "store", todo'[n] = {},
             \A s \in Source : result'[n][s] = "none"
      PROVE  Waited'
  BY <1>1 DEF Waited, Pending, Serial
<1>2. ASSUME NEW n \in Collector, UNCHANGED <<age, elapsed>>, blind[n] \subseteq blind'[n],
             \A s \in Source : Pending(n, s)' => Pending(n, s)
      PROVE  Waited'
  BY <1>2 DEF Waited, Apart, Serial
<1>3. ASSUME NEW n \in Collector, EndRun(n) PROVE Waited'
  BY <1>1, <1>3, EndRunIs
<1>4. ASSUME NEW n \in Collector, Begin(n) PROVE Waited'
  <2>1. /\ pc'[n] = "decide" /\ pc[n] = "idle"
        /\ UNCHANGED <<todo, result>>
    BY <1>4, GotoIs DEF Begin
  <2>2. QED BY <1>1, <2>1 DEF Phases
<1>5. ASSUME NEW n \in Collector, Decide(n) PROVE Waited'
  <2>1. PICK s \in undecided[n] :
          \/ /\ todo' = [todo EXCEPT ![n] = IF IsDue(n, s) THEN @ \cup {s} ELSE @]
             /\ UNCHANGED blind
          \/ /\ todo' = [todo EXCEPT ![n] = @ \cup {s}]
             /\ blind' = [blind EXCEPT ![n] = @ \cup {s}]
    BY <1>5 DEF Decide
  <2>2. s \in Source /\ UNCHANGED <<age, elapsed, pc, cur, result>>
    BY <1>5, <2>1 DEF Decide, Typed, TypeOK
  <2>3. /\ blind[n] \subseteq blind'[n]
        /\ todo'[n] \subseteq todo[n] \cup {s}
        /\ s \in todo[n] \/ s \notin todo'[n] \/ s \in blind'[n] \/ IsDue(n, s)
    BY <2>1 DEF Typed, TypeOK
  <2>4. ASSUME NEW t \in Source, Pending(n, t)', t \notin blind'[n] PROVE Apart(n, t)'
    <3>1. CASE Pending(n, t)
      BY <2>2, <2>3, <2>4, <3>1 DEF Waited, Apart
    <3>2. CASE ~Pending(n, t)
      <4>1. t = s /\ IsDue(n, s)
        BY <2>2, <2>3, <2>4, <3>2 DEF Pending
      <4>2. QED BY <2>2, <4>1 DEF IsDue, Apart
    <3>3. QED BY <3>1, <3>2
  <2>5. QED BY <2>4 DEF Waited, Serial
<1>6. ASSUME NEW n \in Collector, Execute(n) PROVE Waited'
  <2>1. CASE EndRun(n)
    BY <1>3, <2>1
  <2>2. CASE /\ Goto(n, "fetch") /\ elapsed' = [elapsed EXCEPT ![n] = 0]
             /\ UNCHANGED <<todo, result, blind>>
    <3>1. pc'[n] = "fetch" /\ elapsed'[n] = 0 /\ UNCHANGED age
      BY <1>6, <2>2, GotoIs DEF Execute, Typed, TypeOK
    <3>2. ASSUME NEW s \in Source, Pending(n, s)', s \notin blind'[n] PROVE Apart(n, s)'
      <4>1. Apart(n, s)
        BY <2>2, <3>1, <3>2 DEF Waited, Pending
      <4>2. QED BY <3>1, <4>1, GraceIs, AgesAre DEF Apart
    <3>3. QED BY <3>2 DEF Waited, Serial
  <2>3. QED BY <1>6, <2>1, <2>2 DEF Execute
<1>7. ASSUME NEW n \in Collector, FetchNothing(n) \/ Fetch(n) PROVE Waited'
  <2>1. PICK s \in NextToFetch(n) :
          /\ todo' = [todo EXCEPT ![n] = @ \ {s}]
          /\ \/ Becomes(n, s, "error") /\ UNCHANGED <<pc, cur>>
             \/ (\E p : Hold(n, s, p)) /\ UNCHANGED result
    BY <1>7 DEF FetchNothing, Fetch
  <2>2. s \in Source /\ s \in todo[n] /\ UNCHANGED <<age, elapsed, blind>>
    BY <1>7, <2>1 DEF FetchNothing, Fetch, NextToFetch, Typed, TypeOK
  <2>3. todo'[n] \subseteq todo[n]
    BY <2>1 DEF Typed, TypeOK
  <2>4. CASE Becomes(n, s, "error") /\ UNCHANGED <<pc, cur>>
    <3>1. \A t \in Source : result'[n][t] = "ok" => result[n][t] = "ok"
      BY <2>2, <2>4, BecomesIs
    <3>2. \A t \in Source : Pending(n, t)' => Pending(n, t)
      BY <2>3, <2>4, <3>1 DEF Pending
    <3>3. QED BY <1>2, <2>2, <3>2
  <2>5. CASE (\E p : Hold(n, s, p)) /\ UNCHANGED result
    <3>1. cur'[n].source = s
      BY <2>5, HoldIs
    <3>2. \A t \in Source : Pending(n, t)' => Pending(n, t)
      BY <2>2, <2>3, <2>5, <3>1 DEF Pending
    <3>3. QED BY <1>2, <2>2, <3>2
  <2>6. QED BY <2>1, <2>4, <2>5
<1>8. ASSUME NEW n \in Collector, Store(n) PROVE Waited'
  <2> DEFINE s == cur[n].source
  <2>1. /\ pc'[n] = "fetch" /\ pc[n] = "store" /\ UNCHANGED <<age, elapsed, todo, blind>>
        /\ Becomes(n, s, "ok") \/ Becomes(n, s, "error")
    BY <1>8, GotoIs DEF Store
  <2>2. s \in Source
    BY <2>1 DEF Typed, TypeOK, HoldsPage
  <2>3. \A t \in Source \ {s} : result'[n][t] = result[n][t]
    BY <2>1, <2>2, BecomesIs
  <2>4. \A t \in Source : Pending(n, t)' => Pending(n, t)
    BY <2>1, <2>3 DEF Pending
  <2>5. QED BY <1>2, <2>1, <2>4
<1>9. ASSUME NEW n \in Collector, Fetched(n) PROVE Waited'
  <2>1. pc'[n] = "persist" /\ UNCHANGED <<age, elapsed, todo, blind, result>>
    BY <1>9, GotoIs DEF Fetched
  <2>2. QED BY <1>2, <2>1 DEF Pending
<1>10. ASSUME NEW n \in Collector, Persist(n) PROVE Waited'
  <2>1. PICK s \in Source :
          /\ Becomes(n, s, "none")
          /\ age' = [age EXCEPT ![s] = Least(@, elapsed[n])] \/ UNCHANGED age
    BY <1>10 DEF Persist
  <2>2. pc[n] = "persist" /\ UNCHANGED <<pc, todo, cur, blind, elapsed>>
    BY <1>10 DEF Persist
  <2>3. result'[n][s] = "none" /\ \A t \in Source \ {s} : result'[n][t] = result[n][t]
    BY <2>1, BecomesIs
  <2>4. \A t \in Source \ {s} : age'[t] = age[t]
    BY <2>1 DEF Typed, TypeOK
  <2>5. ASSUME NEW t \in Source, Pending(n, t)', t \notin blind'[n] PROVE Apart(n, t)'
    <3>1. t # s /\ Pending(n, t)
      BY <2>2, <2>3, <2>5 DEF Pending, Phases
    <3>2. QED BY <2>2, <2>4, <2>5, <3>1 DEF Waited, Apart
  <2>6. QED BY <2>5 DEF Waited, Serial
<1>11. ASSUME NEW n \in Collector, Finish(n) \/ Crash(n) PROVE Waited'
  BY <1>3, <1>11 DEF Finish, Crash
<1>12. ASSUME UNCHANGED <<age, elapsed, blind, todo, pc, cur, result>> PROVE Waited'
  BY <1>12 DEF Waited, Pending, Apart
<1>13. ASSUME NEW n \in Collector, Sigterm(n) PROVE Waited'
  BY <1>12, <1>13 DEF Sigterm
<1>14. CASE (\E u \in Url : Publish(u)) \/ (\E s \in Source : Toggle(s)) \/ UNCHANGED vars
  BY <1>12, <1>14 DEF Publish, Toggle, vars
<1>15. CASE Tick
  <2>1. UNCHANGED <<blind, todo, pc, cur, result>>
    BY <1>15 DEF Tick
  <2>2. ASSUME NEW n \in Collector, NEW s \in Source, Pending(n, s)', s \notin blind'[n]
        PROVE  Apart(n, s)'
    <3>1. pc[n] # "idle" /\ Apart(n, s)
      BY <2>1, <2>2 DEF Waited, Pending, Phases
    <3>2. elapsed'[n] = elapsed[n] + 1 /\ age'[s] = Older(age[s])
      BY <1>15, <3>1 DEF Tick
    <3>3. age'[s] = MaxAge \/ (age'[s] = age[s] + 1 /\ age[s] # MaxAge)
      BY <3>2, AgesAre, CollectorAssumption DEF Older, Least
    <3>4. QED BY <3>1, <3>2, <3>3, GraceIs, AgesAre DEF Apart
  <2>3. QED BY <2>2 DEF Waited
<1>16. QED
  BY <1>4, <1>5, <1>6, <1>7, <1>8, <1>9, <1>10, <1>11, <1>13, <1>14, <1>15 DEF Next, RunStep

\* With one run at a time, two success rows of a source are stamped at least the
\* interval less the grace apart, however long a run takes between its two instants,
\* unless the history could not be read (isDue).
THEOREM SerialSpaced == ASSUME Serial PROVE Spec => Spaced
<1>1. Init => Typed /\ Phases /\ Waited
  <2>1. ASSUME Init PROVE Phases /\ Waited
    BY <2>1 DEF Init, Phases, Waited, Pending
  <2>2. QED BY <2>1, InitTyped
<1>2. Typed /\ Phases /\ Waited /\ [Next]_vars => (Typed /\ Phases /\ Waited)'
  BY NextTyped, PhasesNext, WaitedNext
<1>3. Typed /\ Waited /\ [Next]_vars
        => [\A s \in Source, n \in Collector :
              (/\ result[n][s] = "ok" /\ result'[n][s] = "none" /\ pc'[n] = "persist"
               /\ age[s] < MaxAge /\ s \notin blind[n])
                 => age[s] + Grace(s) >= Interval[s] + elapsed[n]]_vars
  <2>1. ASSUME Typed, Waited, NEW s \in Source, NEW n \in Collector,
               result[n][s] = "ok", age[s] < MaxAge, s \notin blind[n]
        PROVE  age[s] + Grace(s) >= Interval[s] + elapsed[n]
    BY <2>1, AgesAre DEF Waited, Pending, Apart
  <2>2. QED BY <2>1
<1>4. QED
  BY <1>1, <1>2, <1>3, PTL DEF Spec, Spaced
=============================================================================
