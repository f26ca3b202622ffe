----------------------------- MODULE Collector -----------------------------
(***************************************************************************)
(* cmd/collector: RateAgent.Run and the extractors behind it.              *)
(*                                                                         *)
(* A run reads the sources, picks those that are due by the newest success *)
(* row of execution_history, fetches and stores their rates one by one     *)
(* (plain ones first, then the chromedp batch) and only then writes one    *)
(* history row per source.  Within a run a page that was fetched is cached *)
(* and a URL that failed is tombstoned.  Cron starts runs and nothing      *)
(* keeps two of them apart, so each element of Collector is a slot in      *)
(* which one run at a time executes.                                       *)
(*                                                                         *)
(* Time is kept as ages, so that it never ends: how long ago the newest    *)
(* success row of a source was stamped, and how long a run has been going. *)
(***************************************************************************)
EXTENDS Naturals

CONSTANTS
    Source,         \* rows of rate_sources
    NoSource,       \* no source
    Url,            \* pages they are scraped from
    UrlOf,          \* the page of a source
    KindOf,         \* its fetcher_kind: plain, chromedp or some other word
    Unparsable,     \* sources whose interval does not parse
    Interval,       \* refresh interval of each source, in ticks
    MinGrace,       \* grace period limits: 30 seconds ...
    MaxGrace,       \* ... and one hour, in ticks
    Collector,      \* slots for concurrent runs
    MaxRun,         \* bound: ticks a run can take; a page stays cached longer
    MaxAge,         \* bound: ages at and past it are not told apart
    MaxPages,       \* bound: versions of a page
    MaxToggles,     \* bound: times an operator switches a source on or off
    MaxFaults       \* bound: crashes, signals, failed fetches and transactions

\* Ages are told apart long enough to know a source that is due.
ASSUME CollectorAssumption ==
    /\ NoSource \notin Source
    /\ UrlOf \in [Source -> Url]
    /\ KindOf \in [Source -> {"plain", "chromedp", "other"}]
    /\ Unparsable \subseteq Source
    /\ Interval \in [Source -> Nat]
    /\ MinGrace \in Nat /\ MaxGrace \in Nat /\ MinGrace <= MaxGrace
    /\ MaxRun \in Nat /\ MaxAge \in Nat
    /\ \A s \in Source : Interval[s] + MaxRun <= MaxAge
    /\ MaxPages \in Nat \ {0} /\ MaxToggles \in Nat /\ MaxFaults \in Nat

VARIABLES
    site,           \* version of each page on its web site
    active,         \* rate_sources.active
    latest,         \* page version of the newest rate value, 0 for none
    valueAge,       \* age of that value
    age,            \* age of the newest success row of execution_history
    pc,             \* where the run of a slot is
    sig,            \* its context was cancelled by SIGTERM
    elapsed,        \* time since the instant the run, or its execution, took
    undecided,      \* active sources the run has not decided about
    todo,           \* due sources it has not fetched
    cur,            \* the source whose page it holds, and the page
    cache,          \* pages it has cached, 0 for none
    tombs,          \* <<fetcher, url>> that failed it
    result,         \* what became of each due source
    asked,          \* history: requests of the run's plain extractor, by url
    blind,          \* history: sources it decided about without their history
    toggles, faults \* counters behind MaxToggles and MaxFaults

web == <<site, active, toggles>>
tables == <<latest, valueAge, age>>
run == <<pc, sig, elapsed, undecided, todo, cur, cache, tombs, result, asked, blind>>
vars == <<site, active, latest, valueAge, age, pc, sig, elapsed, undecided,
          todo, cur, cache, tombs, result, asked, blind, toggles, faults>>

Page == 1 .. MaxPages
Age == 0 .. MaxAge
Stage == {"idle", "decide", "fetch", "store", "persist"}
Result == {"none", "ok", "error"}
NoPage == [source |-> NoSource, page |-> 0]
Plain(s) == KindOf[s] = "plain"
Tomb == {"plain", "chromedp"} \X Url

TypeOK ==
    /\ site \in [Url -> Page]
    /\ active \in [Source -> BOOLEAN]
    /\ latest \in [Source -> Page \cup {0}]
    /\ valueAge \in [Source -> Age] /\ age \in [Source -> Age]
    /\ pc \in [Collector -> Stage]
    /\ sig \in [Collector -> BOOLEAN]
    /\ elapsed \in [Collector -> 0 .. MaxRun]
    /\ undecided \in [Collector -> SUBSET Source]
    /\ todo \in [Collector -> SUBSET Source]
    /\ cur \in [Collector -> [source : Source, page : Page] \cup {NoPage}]
    /\ cache \in [Collector -> [Url -> Page \cup {0}]]
    /\ tombs \in [Collector -> SUBSET Tomb]
    /\ result \in [Collector -> [Source -> Result]]
    /\ asked \in [Collector -> [Url -> Nat]]
    /\ blind \in [Collector -> SUBSET Source]
    /\ toggles \in Nat /\ faults \in Nat

\* Sources that were never collected count as collected long ago.
Init ==
    /\ site = [u \in Url |-> 1]
    /\ active \in [Source -> BOOLEAN]
    /\ latest = [s \in Source |-> 0]
    /\ valueAge = [s \in Source |-> MaxAge] /\ age = [s \in Source |-> MaxAge]
    /\ pc = [n \in Collector |-> "idle"]
    /\ sig = [n \in Collector |-> FALSE]
    /\ elapsed = [n \in Collector |-> 0]
    /\ undecided = [n \in Collector |-> {}]
    /\ todo = [n \in Collector |-> {}]
    /\ cur = [n \in Collector |-> NoPage]
    /\ cache = [n \in Collector |-> [u \in Url |-> 0]]
    /\ tombs = [n \in Collector |-> {}]
    /\ result = [n \in Collector |-> [s \in Source |-> "none"]]
    /\ asked = [n \in Collector |-> [u \in Url |-> 0]]
    /\ blind = [n \in Collector |-> {}]
    /\ toggles = 0 /\ faults = 0
-----------------------------------------------------------------------------
Goto(n, stage) == pc' = [pc EXCEPT ![n] = stage]

Fault == faults < MaxFaults /\ faults' = faults + 1

\* A call that takes the run's context fails for certain once it is cancelled.
Fails(n) == IF sig[n] THEN UNCHANGED faults ELSE Fault

EndRun(n) ==
    /\ Goto(n, "idle")
    /\ sig' = [sig EXCEPT ![n] = FALSE]
    /\ elapsed' = [elapsed EXCEPT ![n] = 0]
    /\ undecided' = [undecided EXCEPT ![n] = {}]
    /\ todo' = [todo EXCEPT ![n] = {}]
    /\ cur' = [cur EXCEPT ![n] = NoPage]
    /\ cache' = [cache EXCEPT ![n] = [u \in Url |-> 0]]
    /\ tombs' = [tombs EXCEPT ![n] = {}]
    /\ result' = [result EXCEPT ![n] = [s \in Source |-> "none"]]
    /\ asked' = [asked EXCEPT ![n] = [u \in Url |-> 0]]
    /\ blind' = [blind EXCEPT ![n] = {}]

\* ObtainAllRateSources; inactive sources and bad intervals are left out.  A
\* read that fails ends the run where it began.
Begin(n) ==
    /\ pc[n] = "idle"
    /\ undecided' = [undecided EXCEPT ![n] = {s \in Source : active[s]} \ Unparsable]
    /\ Goto(n, "decide")
    /\ UNCHANGED <<web, tables, sig, elapsed, todo, cur, cache, tombs, result, asked, blind, faults>>

Least(a, b) == IF a <= b THEN a ELSE b
Most(a, b) == IF a >= b THEN a ELSE b

\* interval/4, clamped.
Grace(s) == Least(Most(Interval[s] \div 4, MinGrace), MaxGrace)

\* mutants of IsDue: the grace is forgotten, in either direction
IsDueLate(n, s) == age[s] > Interval[s] + Grace(s) + elapsed[n]
IsDueEarly(n, s) == age[s] + 2 * Grace(s) >= Interval[s] + elapsed[n]

\* now.Sub(records[0].Timestamp) >= interval - grace
IsDue(n, s) == age[s] + Grace(s) >= Interval[s] + elapsed[n]

\* Whether a source is due, by its newest success row; also when the history
\* cannot be read.
Decide(n) ==
    /\ pc[n] = "decide"
    /\ \E s \in undecided[n] :
        /\ undecided' = [undecided EXCEPT ![n] = @ \ {s}]
        /\ \/ /\ ~sig[n]
              /\ todo' = [todo EXCEPT ![n] = IF IsDue(n, s) THEN @ \cup {s} ELSE @]
              /\ UNCHANGED <<blind, faults>>
           \/ /\ Fails(n)
              /\ todo' = [todo EXCEPT ![n] = @ \cup {s}]
              /\ blind' = [blind EXCEPT ![n] = @ \cup {s}]
    /\ UNCHANGED <<web, tables, pc, sig, elapsed, cur, cache, tombs, result, asked>>

\* The execution takes an instant of its own, which stamps the history rows.
Execute(n) ==
    /\ pc[n] = "decide" /\ undecided[n] = {}
    /\ IF todo[n] = {}
       THEN EndRun(n)
       ELSE /\ Goto(n, "fetch")
            /\ elapsed' = [elapsed EXCEPT ![n] = 0]
            /\ UNCHANGED <<sig, undecided, todo, cur, cache, tombs, result, asked, blind>>
    /\ UNCHANGED <<web, tables, faults>>
-----------------------------------------------------------------------------
(* The extractors.                                                         *)

Becomes(n, s, outcome) == result' = [result EXCEPT ![n][s] = outcome]

\* Plain sources, and unknown kinds, come before the chromedp batch.
NextToFetch(n) ==
    LET first == {s \in todo[n] : KindOf[s] # "chromedp"}
    IN  IF first # {} THEN first ELSE todo[n]

TombOf(s) == <<KindOf[s], UrlOf[s]>>

\* An unknown kind, a URL that failed before, a batch that was cancelled.
Hopeless(n, s) ==
    \/ KindOf[s] = "other"
    \/ TombOf(s) \in tombs[n]
    \/ KindOf[s] = "chromedp" /\ sig[n]

\* mutants of Cached: every source fetches the page for itself; what the
\* cache answers is used without a look at its error
NotCached(n, s) == FALSE
CachedBlindly(n, s) == Plain(s)

Cached(n, s) == Plain(s) /\ cache[n][UrlOf[s]] # 0

Hold(n, s, page) ==
    /\ cur' = [cur EXCEPT ![n] = [source |-> s, page |-> page]]
    /\ Goto(n, "store")

\* A source that needs no request.
FetchNothing(n) ==
    /\ pc[n] = "fetch"
    /\ \E s \in NextToFetch(n) :
        /\ todo' = [todo EXCEPT ![n] = @ \ {s}]
        /\ \/ /\ Hopeless(n, s)
              /\ Becomes(n, s, "error")
              /\ UNCHANGED <<pc, cur>>
           \/ /\ ~Hopeless(n, s) /\ Cached(n, s)
              /\ Hold(n, s, cache[n][UrlOf[s]])
              /\ UNCHANGED result
    /\ UNCHANGED <<web, tables, sig, elapsed, undecided, cache, tombs, asked, blind, faults>>

\* mutant of Entomb: the failure is not remembered
EntombNothing(n, s) == UNCHANGED tombs

\* recordFailedURL
Entomb(n, s) == tombs' = [tombs EXCEPT ![n] = @ \cup {TombOf(s)}]

Asked(n, s) ==
    asked' = IF Plain(s) THEN [asked EXCEPT ![n][UrlOf[s]] = @ + 1] ELSE asked

\* Ask the web site, or render the page.  A request that fails, as every one
\* does under a cancelled context, leaves a tombstone; a plain page that
\* arrives stays in the cache.  An empty one yields no rate and is neither
\* cached nor tombstoned, so the next source asks again: it is not counted.
Fetch(n) ==
    /\ pc[n] = "fetch"
    /\ \E s \in NextToFetch(n) :
        LET u == UrlOf[s]
        IN  /\ ~Hopeless(n, s) /\ ~Cached(n, s)
            /\ todo' = [todo EXCEPT ![n] = @ \ {s}]
            /\ \/ /\ ~sig[n]
                  /\ Asked(n, s)
                  /\ cache' = IF Plain(s) THEN [cache EXCEPT ![n][u] = site[u]] ELSE cache
                  /\ Hold(n, s, site[u])
                  /\ UNCHANGED <<tombs, result, faults>>
               \/ /\ Fails(n)
                  /\ Asked(n, s)
                  /\ Entomb(n, s)
                  /\ Becomes(n, s, "error")
                  /\ UNCHANGED <<cache, cur, pc>>
               \/ /\ ~sig[n] /\ Plain(s)
                  /\ Fault
                  /\ Becomes(n, s, "error")
                  /\ UNCHANGED <<asked, cache, tombs, cur, pc>>
    /\ UNCHANGED <<web, tables, sig, elapsed, undecided, blind>>

\* applyRulesAndStore: the rules find a plausible value and it is stored, or
\* they do not, or the transaction fails.
Store(n) ==
    /\ pc[n] = "store"
    /\ LET s == cur[n].source
       IN  \/ /\ ~sig[n]
              /\ latest' = [latest EXCEPT ![s] = cur[n].page]
              /\ valueAge' = [valueAge EXCEPT ![s] = 0]
              /\ Becomes(n, s, "ok")
              /\ UNCHANGED faults
           \/ /\ Fails(n)
              /\ Becomes(n, s, "error")
              /\ UNCHANGED <<latest, valueAge>>
    /\ cur' = [cur EXCEPT ![n] = NoPage]
    /\ Goto(n, "fetch")
    /\ UNCHANGED <<web, age, sig, elapsed, undecided, todo, cache, tombs, asked, blind>>

\* Every source has been tried.
Fetched(n) ==
    /\ pc[n] = "fetch" /\ todo[n] = {}
    /\ Goto(n, "persist")
    /\ UNCHANGED <<web, tables, sig, elapsed, undecided, todo, cur, cache, tombs,
                   result, asked, blind, faults>>

\* mutant of Succeeded: the outcome of the source is not looked at
SucceededAnyway(n, s) == TRUE

Succeeded(n, s) == result[n][s] = "ok"

\* One history row per due source, under a background context that a signal
\* does not cancel; a row that cannot be written is lost.
Persist(n) ==
    /\ pc[n] = "persist"
    /\ \E s \in Source :
        /\ result[n][s] # "none"
        /\ \/ /\ age' = IF Succeeded(n, s)
                        THEN [age EXCEPT ![s] = Least(@, elapsed[n])] ELSE age
              /\ UNCHANGED faults
           \/ Fault /\ UNCHANGED age
        /\ Becomes(n, s, "none")
    /\ UNCHANGED <<web, latest, valueAge, pc, sig, elapsed, undecided, todo, cur,
                   cache, tombs, asked, blind>>

Finish(n) ==
    /\ pc[n] = "persist"
    /\ \A s \in Source : result[n][s] = "none"
    /\ EndRun(n)
    /\ UNCHANGED <<web, tables, faults>>

RunStep(n) ==
    \/ Decide(n) \/ Execute(n) \/ FetchNothing(n) \/ Fetch(n) \/ Store(n)
    \/ Fetched(n) \/ Persist(n) \/ Finish(n)
-----------------------------------------------------------------------------
(* The environment.                                                        *)

Sigterm(n) ==
    /\ pc[n] # "idle" /\ ~sig[n]
    /\ Fault
    /\ sig' = [sig EXCEPT ![n] = TRUE]
    /\ UNCHANGED <<web, tables, pc, elapsed, undecided, todo, cur, cache, tombs,
                   result, asked, blind>>

\* The process dies, or a panic ends Run, which main recovers: either way no
\* history row of the run is written any more.
Crash(n) ==
    /\ pc[n] # "idle"
    /\ Fault
    /\ EndRun(n)
    /\ UNCHANGED <<web, tables>>

Publish(u) ==
    /\ site[u] < MaxPages
    /\ site' = [site EXCEPT ![u] = @ + 1]
    /\ UNCHANGED <<active, toggles, tables, run, faults>>

\* ToggleSourceActive
Toggle(s) ==
    /\ toggles < MaxToggles /\ toggles' = toggles + 1
    /\ active' = [active EXCEPT ![s] = ~@]
    /\ UNCHANGED <<site, tables, run, faults>>

Older(a) == Least(a + 1, MaxAge)

\* Time passes; the timeouts of requests and renderings bound a run.
Tick ==
    /\ \A n \in Collector : pc[n] # "idle" => elapsed[n] < MaxRun
    /\ age' = [s \in Source |-> Older(age[s])]
    /\ valueAge' = [s \in Source |-> Older(valueAge[s])]
    /\ elapsed' = [n \in Collector |->
                      IF pc[n] = "idle" THEN 0 ELSE elapsed[n] + 1]
    /\ UNCHANGED <<web, latest, pc, sig, undecided, todo, cur, cache, tombs,
                   result, asked, blind, faults>>

Next ==
    \/ \E n \in Collector : Begin(n) \/ RunStep(n) \/ Sigterm(n) \/ Crash(n)
    \/ \E u \in Url : Publish(u)
    \/ \E s \in Source : Toggle(s)
    \/ Tick

\* Cron keeps starting runs, a started run keeps going, time passes.
Fairness ==
    /\ \A n \in Collector : WF_vars(Begin(n)) /\ WF_vars(RunStep(n))
    /\ WF_vars(Tick)

Spec == Init /\ [][Next]_vars
FairSpec == Spec /\ Fairness
-----------------------------------------------------------------------------
(* Properties.                                                             *)

\* A success row of execution_history never stands without the rate it speaks
\* of: the newest value of the source is at least as new as the row, whatever
\* crashed, was signalled or overlapped.
SuccessBacked ==
    \A s \in Source : age[s] < MaxAge => valueAge[s] <= age[s]

\* "Responses are cached in memory ... to avoid redundant fetches when
\* multiple sources share the same URL" and "once a URL fails, later fetches
\* in the same process short-circuit": a run asks for a plain page once,
\* empty answers aside.
AskedOnce ==
    \A n \in Collector, u \in Url : asked[n][u] <= 1

\* The rates that one run stores for plain sources of one page, a bank's buy
\* and sell rates, come from one version of the page (runs do not overlap).
OneVersion ==
    \A n \in Collector : \A s, t \in Source :
        (/\ Plain(s) /\ Plain(t) /\ UrlOf[s] = UrlOf[t]
         /\ result[n][s] = "ok" /\ result[n][t] = "ok")
            => latest[s] = latest[t]

\* Successes of one source are stamped at least the interval less the grace
\* period apart (runs do not overlap), unless its history could not be read.
Spaced ==
    [][\A s \in Source, n \in Collector :
          (/\ result[n][s] = "ok" /\ result'[n][s] = "none" /\ pc'[n] = "persist"
           /\ age[s] < MaxAge /\ s \notin blind[n])
              => age[s] + Grace(s) >= Interval[s] + elapsed[n]]_vars

\* Once its page, the operator and the faults have come to rest, the newest
\* rate of every active source is the one on its page.
EventuallyCurrent ==
    <>[](\A s \in Source :
            (active[s] /\ s \notin Unparsable /\ KindOf[s] # "other")
                => latest[s] = site[UrlOf[s]])
=============================================================================
