# Beacon (fx-rate-monitor): verification project

Beacon collects exchange rates from bank web pages and notifies Telegram users
when a rate changes or a time comes. It is a set of short-lived processes and
one server around one SQLite database: cron starts `cmd/collector` and
`cmd/notifier`, `cmd/web` serves the HTTP API, the Mini App and the Telegram
bot. Nothing keeps two runs of a cron process apart, most writes replace a whole
row from a copy read in an earlier transaction, and a run may be killed between
any two of them. In the browser, the Mini App has several requests in flight and
takes the answers in whatever order they come. That is what these TLA+ modules
are about.

## 1. Inventory

| Part | Code (under `src/`) | State | Operations |
|---|---|---|---|
| Event pool and dispatch | `internal/application/notification/ratedispatchagent.go`, `internal/repository/rateuserevent.go` | table `rate_user_events`: status pending, sent, failed or canceled; created_at | `Run`, `Vacuum`, `RetainRateUserEvent` |
| Rate check | `internal/application/notification/ratecheckagent.go`, `internal/repository/rateusersubscription.go` | table `rate_user_subscriptions`: condition, latest_notified_rate, updated_at; the buckets of a run | `Run` |
| Conditions | `internal/domain/rateusersubscription.go` | none (reads updated_at and the baseline) | `IsDue` and its four kinds, `Validate` |
| Message building | `internal/application/notification/render.go`, `message.go` | buckets of one user | `foldIntoBuckets`, `buildAlertMessage`, `splitIntoParts` |
| Collector | `internal/application/collection/rateagent.go`, `internal/tools/rateextractor/` | tables `rate_values`, `execution_history`; page cache and failed URLs of a run | `Run`, `RunBatch`, `applyRulesAndStore` |
| HTTP API | `internal/gateway/httpV1/handlers/handlers.go` | none of its own | create, update, delete a subscription; toggle a source; reads |
| Telegram loop | `internal/application/service/telegramapi.go`, `internal/infrastructure/telegrambot/` | none of its own | menu, digest on request |
| Rule generator | `cmd/doctor/rulegen.go`, `internal/application/rulegen/` | whole row of `rate_sources`; attempts and transcript of one source | `runAll`, `Generate`, `persist`, `Sanitize` |
| Chart and history | `internal/application/chart/`, `internal/repository/ratevalue.go` | none | series, de-duplication, pairing of BID and ASK, paging |
| Mini App, editor | `cmd/wasm/application/me_subscriptions_edit.go` | draft, pickers, list in the browser | pick, save, delete, reload |
| Mini App, chart | `cmd/wasm/application/me_subscriptions.go`, `public_subscriptions.go` | chart, modal, history in the browser | load, change period, open, page, filter |
| Mini App, admin | `cmd/wasm/application/sources.go`, `source_detail.go` | sections in the browser | load, page, toggle |
| Migrations | `internal/infrastructure/sqlitedb/migrator.go` | `__schema_migrations` | `Run`, `RequireMigratedSchema` |
| Inspector, doctor, source audit, AI clients, tools, static assets | see `PROJECT.json` | none that outlives a call | |

**Interaction.** All parts meet in the database. The collector writes values and
history; the check agent reads the newest value, writes subscriptions back and
inserts events; the dispatch agent reads events, calls Telegram and writes them
back; the Mini App creates, edits and deletes subscriptions while the agents
run; an operator toggles sources. A transaction is atomic and isolated, waits
5 s for a busy database and then fails; under a cancelled context it cannot
begin. The hard part is everything *between* transactions.

**What makes each part correct**

- *Event pool*: a row says sent only if the message arrived and canceled only
  past the TTL; a second copy only when the record of the first was lost;
  vacuumed rows stay gone; as long as Telegram lets runs begin and answers them,
  every event is settled in the end.
- *Rate check*: a baseline never moves to a rate its owner is not told; no
  second alert on an unchanged rate; an acknowledged edit sticks; every owner
  in the end knows a rate within the threshold of the current one.
- *Conditions*: one notification per occurrence of a schedule, unless the write of
  the run that notified it failed; none overlooked.
- *Message building*: source, price and change of a row belong together and the
  price is the best of its kind in whatever order sources come; every reason is
  in the part that has its row; no avoidable part.
- *Collector*: a success in the history has its value; pages are asked for once
  a run and sibling rates come from one version of the page; successes keep
  their distance; every active source becomes current.
- *Rule generator and toggle*: a write loses the other's only if it came from an
  older copy; attempts over two models are counted as one sequence; the summary
  of `--all` accounts for every source; every process ends; the part of a page
  sent to a model has the rate table in it, when the table is among the first
  occurrences of an anchor that are examined.
- *Chart and history*: a bucket shows the last rate known in it; a history entry
  has prices of its own provider, second and direction; every stored rate is on
  a page that can be reached.
- *Mini App*: the chart drawn in the end belongs to the lit period chip, and the
  history to the pair and filter drawn above it; the source saved is the one shown;
  one form makes one subscription.

## 2. Modules

| Module | Models | State and actions in the code |
|---|---|---|
| `DeliveryPromise` | what the pool promises, without runs, clocks or snapshots | `fate` is the status column, with *purged* for a vacuumed row and *waiting* for pending and failed; `lost` counts deliveries without a record; `Settles`, that no message waits for ever, is stated apart |
| `Dispatch` | the notifier around the event pool | `Start` and `Connect` are a run up to `NewTBotClient`, whose call to Telegram may fail and end it, or hang; `events` is the table; `todo`, `cur`, `now` are the locals of `RateDispatchAgent.Run`; `Vacuum`, `ReadUnprocessed`, `Attempt`, `Retain`, `Pause` are its steps in order; `QueueEvent` is the check agent as far as the pool sees it |
| `RateCheck` | the check agent against the subscription table | `subs` is the table; `toVisit`, `at`, `price`, `batch`, `folded` are the locals of `RateCheckAgent.Run`; `ReadValue`, `ReadSubs`, `Fire`, `QueuePart` its transactions; `Receive` then `Patch` or `Delete` are the two transactions of a web request |
| `Schedule` | interval, daily and cron conditions against the starts of the notifier | `updatedAt` is stamped at the write (`Stamp`), `now` is taken at the start (`Check`) |
| `Collector` | collector runs | `undecided`, `todo`, `cur`, `result` are the locals of `Run` and `execution`; `cache` and `tombs` belong to the extractors; `age` and `valueAge` are the newest success row and value, as ages |
| `Digest` | one user's message | `bucket` is `userBuckets[user]`; `Fold`, `Flatten`, `Pack` |
| `RuleGen` | doctor processes beside the admin's toggle, over `rate_sources` | `rows` is the table; `todo`, `off`, `tally` are the locals of `runAll`; `copy`, `body`, `prim`, `fall`, `transcript` those of `Generate`; `ToggleRead` and `ToggleWrite` are the two transactions of `UpdateRateSourceActive` |
| `Sanitize` | `Locate` and `Sanitize`, as functions on sequences of anchors | `Examined` is the cap on the occurrences of an anchor; `Structural` the anchors of a source |
| `Editor` | the Mini App's editor over the user's rows | `view` to `draft` are the fields of `MeSubscriptionsEditState`; a `job` is a goroutine of a save or a delete, from its request over the server's processing to the reload; `stray` are requests whose caller gave up |
| `Sorting` | sorted sets and filtered sequences, without recursion | |
| `RateHistory` | a history page and the pages of the public chart, as functions of the stored rows | |
| `Sparkline` | the chart's series, as functions of the stored rows | |
| `ChartScreen` | the user's chart screen with modal and history, and the guest's | `period` to `known` are the fields of `MeSubscriptionsState`; `modal` is what `redrawModal` drew last; a `job` is a request in flight, with its answer once the server has read its tables |
| `MC*` | values of function constants for TLC | |
| `*Proofs` | theorems | |

Choices worth knowing:

- **Runs.** Each element of `Notifier`, `Run` or `Collector` is a slot for one
  run at a time. One slot: runs that do not overlap, which deploy/README.md
  asks operators to arrange. Two slots: runs that do.
- **Faults.** One counter bounds kills, SIGTERM, failed transactions, failed
  requests and lost answers together. After SIGTERM each call that takes the
  run's context fails without using up the bound; the Telegram client ignores
  the context; `Vacuum` and the writing of history use a background context.
- **Panics** in the collector end its only runner and are modelled as a kill:
  nothing of the run is written after either.
- **Queueing.** `QueuePart` lets a part be any of one user's alerts. How
  rows are really packed is the subject of `Digest`.
- **Subscriptions** belong to Telegram users: the API creates no others, so the
  branch for an unsupported user type is not in `RateCheck`.
- **Time-based conditions** in `RateCheck` may or may not be due, whichever way
  is worse; `Schedule` says when they are.
- **Cron** expressions are the set of ticks of a day they match; `robfig/cron`'s
  `Next` is external and modelled with its zero result. Time zones do not
  matter: the process compares in UTC.
- **Ages instead of clocks** in `Collector`: ages saturate at `MaxAge`, past
  which every source is due, so that time never ends and liveness is about
  infinite behaviours. An assumption ties `MaxAge` to the intervals.
- **Digest** starts from every combination of prices and baselines. Text is kept
  as its length: a part is a frame, one tag per condition type, and rows padded
  to the widest; a row without a change ends early. The on-demand digest folds
  and packs in the same way, without tags.
- **Rules** are the layout of the page they extract the rate from; a model answers
  with any chain or with nothing usable. A write of `rate_sources` counts up the
  row's version, so that a writer with an old copy can be told. `--all` and single
  commands, with or without `--force-fallback`, may overlap: `LockManager` has no
  caller outside its test.
- **Goroutines** of the Mini App run one at a time, so a handler is atomic up to
  its request. Sending a request, its processing by the server and the arrival of
  its answer are three steps; giving up after 15 seconds or leaving the screen is
  another, and in `Editor` the server may process such a request later.
- **What is drawn.** The chart slot is redrawn with every change of its state, so
  what it offers is an expression. The modal is redrawn only after its own clicks
  and answers, so `modal` is a variable: a click on what is drawn meets a state
  that has moved on (`FruitlessClick`).
- **Histories and charts** are functions of the stored rows; they answer the
  screens' requests in `ChartScreen`. Before a screen is opened the collector stores
  any subset of `AllRows`, and `EntriesTrue`, `WalkLeavesNoGap` and `PointsTrue` are
  stated of those states; a visit goes on from the sets in `Stocks`. A row's id
  stands for its price, so that a point or a delta says which row it came from.
- **Histories of what was told.** `told` and `unwritten` in `Schedule`, and
  `pressedTwice`, `unfinished` and `doubt` in `Editor`, record what the code does not
  keep, so that a property can name the exceptions it makes.
- **Sanitize** is checked over all short bodies, in the states before the first
  command.
- **Sorting and filtering** (`Sorting`) find an element by the number of those
  before it, because the provers know nothing of `SelectSeq` and `SortSeq`.
- **Search and picker pages** in the editor only narrow what is offered and are
  left out; so are texts, colours and percentages.
- **Prices** in the agents' modules are small integers in place of floats; what matters to the
  properties is their order and difference.

## 3. Runs

| Run | Question | Expected |
|---|---|---|
| `dispatch_single` | is the pool's promise kept when runs do not overlap, its liveness as long as Telegram answers? | pass |
| `dispatch_overlap` | what remains true when they do? | pass |
| `rate_check_serial` | does a rate alert twice? | pass |
| `rate_check_overlap` | is a baseline ever moved in silence, is everyone informed? | pass |
| `schedule` | one notification per occurrence written back, none overlooked? | pass |
| `collector` | is the history backed, are pages asked for once, is everything current in the end? | pass |
| `digest` | are rows honest, tags complete and parts few? | pass |
| `rulegen` | do generator and toggle undo each other, do the attempts and the summary add up? | pass |
| `editor` | is what is saved what is shown, and once? | pass |
| `chart_screen` | does the screen end up with what its chip and title say, and does it tell what is stored? | pass |
| `acked_overwritten` | does an acknowledged edit stick? | violation |
| `history_unreachable` | is every stored rate on a page that can be reached? | violation |

**Bounds and why they are enough.**

- *dispatch_single*: two events, one of them for an unreachable user, so that
  an order exists and a failure is permanent; TTL 1, retention 3, clock to 5:
  an event can be delivered, lose its record, expire, be canceled and be
  vacuumed. Two faults allow a lost record followed by another. New events
  stop TTL ticks before the horizon, so that each one reaches its deadline and
  the liveness part of the promise is not met by a stopped clock.
- *dispatch_overlap*: one event, since rows do not influence each other across
  runs; two runs, one fault, three copies.
- *rate_check_serial*: two subscriptions of one source, so that one fires
  without the other; three prices and threshold 2 give changes below, at and
  above it; one edit and one fault. *rate_check_overlap*: one subscription, two
  runs, one request, two rates, no fault: the trouble there is the order.
- *schedule*: days of eight ticks and starts every three, so that starts fall
  differently on each day; three days; a run writes up to two ticks late; two
  edits; two starts missed or writes failed. The daily times of `MCConditions`
  are those that some start follows on every day (section 5 says why).
- *collector*: two rates scraped from one page and a third rendered from it;
  interval 2 with a grace of 1, run of at most one tick; two versions of the
  page; one toggle and one fault. `SuccessBacked` and `AskedOnce` are proved
  for any number of overlapping runs, which is why the run has one slot.
- *digest*: five subscriptions on five sources and three rows, a BID and an ASK row
  that two sources each compete for, two rows with the same label, a row that is
  shown with and without a change, and a limit that gives one to three parts.
- *rulegen*: two sources, one of an unknown kind, and a name without a row; two
  processes, so that `--all` meets a single command on one source; one attempt
  with each model; one toggle; one redesign of a page, so that rules made before
  it and after it compete. Faults are not bounded: every call may fail. Windows of
  four tokens around two structural anchors in bodies of up to six, with a limit of
  five: a window is cut at both ends, and a body is too large. `MaxHits` is 1 in place
  of 1000, so that the second occurrence of an anchor is already past the cap while
  the other anchor may still be found.
- *editor*: a provider with both directions and one with a single direction; two
  goroutines, two rows on two pages of the list, two forms and two visits: a save
  may overlap a delete, another save of its form or the filling of the next.
- *chart_screen*: two providers, two pairs and three series; seven rows with
  seconds shared within a provider and across providers, all their subsets for the
  answers and one set of five for the visits; two rows a history page,
  one pair a guest's page; two goroutines and three requests after the first, so
  that a period or a filter is changed there and back and the first answer comes
  last; one row stored and one source withdrawn meanwhile. Three buckets a series,
  four instants a second, and periods that start before, in and after the rows.
  `SparklineAssumption` leaves out the instants at which the code divides by zero,
  and says what the proof needs of the rest: a second, an hour and a period have as
  many instants (nanoseconds) as there are buckets (twelve).

**Deadlock** is not checked where the horizon really stops the model (`schedule`,
`digest`), and where users and commands may simply stop (`rulegen`, `editor`,
`chart_screen`, `history_unreachable`).

**Fairness.** Only weak fairness is assumed, and only of steps the code takes by
itself: time passes, and a process takes its next step where its calls have a timeout.
Nothing is assumed of operators, users or faults, nor of Telegram.

- *Notifier.* Its Telegram client has no timeout and ignores the context, and a run
  whose first call to Telegram fails ends before the vacuum. `Dispatch` therefore has
  no fairness for starts, for `Connect` or for an attempt that sends: `OwnStep` is
  what waits for nothing but the database (`busy_timeout`). What it promises is
  conditional on `RunsGetThrough`, that runs get to the pool again and again:
  `EventuallySettled` is `RunsGetThrough => <>[](Unprocessed = {})`, and
  `KeepsPromise` asks for `Settles` under the same condition. With one slot that
  implies that no send hangs for ever; with two a hanging run does not keep the
  other from settling the event. `EventuallyInformed` of `RateCheck` is conditional on
  `RunsBegin` in the same way, since a check comes after the call to Telegram.
- *Collector.* Cron keeps starting runs (`Begin`) and a run takes its next step: HTTP
  clients have timeouts, a rendered page 30 s. A step that can succeed or fail is one
  action, here and in `RateCheck`: that it succeeds in the end follows from the bound
  on faults, not from fairness.
- *RuleGen.* A doctor process takes its next step: the fetchers and both model clients
  have timeouts.
- `Editor` and `ChartScreen` state safety only; "in the end" is said of states in which
  no request is in flight, so that no fairness of the network is needed.

## 4. What is proved

TLAPS proves these for every value of the constants; the assumptions are the
named ASSUMEs of the modules (TLC evaluates them in each run) and, where it
says so, a hypothesis: `Serial`, the set of slots has at most one element;
`Matching`, every cron expression matches some date; `Reachable`, a start follows
each daily time before midnight. Every safety property of a passing run is stated
by a theorem; what the runs add is liveness.

**The agents and the pool**

| Theorem | Statement | Argument |
|---|---|---|
| `TypeCorrect` of `DispatchProofs`, `RateCheckProofs`, `CollectorProofs`, `RuleGenProofs`, `EditorProofs`, `ScheduleProofs` | `Spec => []TypeOK` | inductive; one lemma for each step that needs one |
| `DispatchProofs!StatusHonest`, `CanceledIsExpired` | sent means delivered, canceled only past the TTL; any number of runs | `Honest`: the same two facts about the *copies* runs hold, because a stale copy becomes a row again. Without them the invariant is not inductive |
| `DispatchProofs!SerialDuplicates` | duplicates only by loss (`Serial`) | `Accounted`: for each event, copies in the chat equal lost records, plus one if the row says sent or the run has a sent copy in hand; copies in hand agree with the table |
| `DispatchProofs!SerialVacuum` | a vacuumed event stays gone (`Serial`) | the same invariant: the run's copies are rows that exist |
| `DispatchProofs!SerialKeepsPromise` | `Dispatch` implements `DeliveryPromise!Spec`, the promise without `Settles` (`Serial`) | step simulation under the mapping `FateOf`; Purge takes several rows at once because the DELETE does |
| `RateCheckProofs!BaselinesVoiced` | no baseline moves in silence; any number of runs and requests | the same is shown of every baseline a run or a request holds and may write back |
| `RateCheckProofs!SerialNoRefire` | no alert twice on one rate (`Serial`) | `Current`: unless the baseline was spoiled, the rate in the row and in the run's copies is the one last fired |
| `CollectorProofs!HistoryIsBacked` | no success without its value; overlapping runs too | `Backed`: an ok result of a run in progress has a value at least as new as the run's execution, which stamps the row |
| `CollectorProofs!PagesAskedOnce` | a page is asked for once a run | `Answered`: a URL asked for is cached or tombstoned |
| `CollectorProofs!SerialOneVersion` | rates of one page come from one version of it (`Serial`) | `FromCache`: every ok result and the page in hand are what the run's cache has |
| `CollectorProofs!SerialSpaced` | successes keep their distance (`Serial`) | `Waited`: a source a run has decided on was old enough then, and its age and the run's own grow together until the row is stamped; `Phases` ties lists and results to the run's phase |
| `DigestProofs!RowsAreHonest`, `RowsAreExtreme` | coherent, extremal rows in every order | induction over `Fold`, winner and loser apart |
| `DigestProofs!NobodyIsDropped` | every reason is in the tags of its row's part | `Voiced`, `Laid`, `Tiled`: rows are the keys, each once, and parts tile them from the first on |
| `DigestProofs!GreedyIsBest` | no way to cut the rows in order needs fewer parts | `Greedy`: a part stops only where one more row does not fit. Any other cutting has then a cut inside each part (`CutInEachPart`), and these cuts differ |

**Schedules**

| Theorem | Statement | Argument |
|---|---|---|
| `ScheduleProofs!NoneTwice` | a run notifies only with an occurrence since the last run that notified, or, when that run's write failed, since the last row written (`Matching`) | `Written`: what was told and what the row answers for differ only after a failed write; `Stamped`: what the row answers for and its stamp are at most the lag of a write apart; `DueOccurs` for the three kinds of condition |
| `ScheduleProofs!NoneLost` | a run that finds an occurrence notifies, but for the listed cases | the same, from the other side |
| `ScheduleProofs!EveryDayTold` | a day does not end with its notification to come (`Reachable`) | `StartsSeen`: no start passes uncounted; `ToldToday`: after the first start past the day's time the day is answered for; `FromEditOrRun`: what the row answers for is an edit, or a run after that day's time |

**The rule generator**

| Theorem | Statement | Argument |
|---|---|---|
| `RuleGenProofs!LostOnlyToOldCopy` | flag and rules are as last asked, but for old copies; any number of doctors and toggles | `Held`: every copy in hand is `Older`, so a copy with the row's version has its flag and rules, and writing it back changes only what the writer was asked for |
| `RuleGenProofs!RulesMoveOn` | rules never go back to an older layout, but for old copies | `Held`: rules <= a process's page <= the site's; the copy was read before the page was fetched |
| `RuleGenProofs!AttemptsAreOneSequence` | attempts of both loops are numbered as one | `Tries`: outside the loops nothing was tried, and the transcript is as long as the attempts made |
| `RuleGenProofs!SummaryNeverLies` | the summary and the exit codes are true | `BooksKept`: counters, visited sources and sources written add up during the loop |
| `RuleGenProofs!TableIsSent`, `ModelsSeeTheTable` | of a page of any size, the part that is sent has a currency if the page has, and a rate table if one of the first `MaxHits` occurrences of an anchor is in one | the smallest offsets of anchors, and where a slice has the tokens of a page (`SliceIs`, `WindowHolds`); the cap cuts nothing off a window |

The types of `RuleGen` need `Held` too: a page is fetched, and a row written, of a
source that has a row.

**The Mini App, histories and charts**

| Theorem | Statement | Argument |
|---|---|---|
| `EditorProofs!SavedIsShown` | the source saved is the one shown | `FormRight`: the directions on offer are the chosen provider's |
| `EditorProofs!FormMakesOneRow` | one form, one subscription, but for Save pressed again while awaited, a save without an answer and a 201 whose reload failed | `FormsCounted`: where a form is, before and after it has become a row; `GoneUnsaved`: a stray request's form is excused, or gone from the screen with nothing else carrying it |
| `EditorProofs!QuietListIsFresh` | the list of a quiet screen is the server's | `ListKnown`: an operation that never overlapped carries the rows of now; `Roles` |
| `ChartScreenProofs!ChartOfTheChip` | the chart left is that of the lit chip | `ChartOnItsWay`: the chart is of the chip, or a request for it is in flight |
| `ChartScreenProofs!HistoryOfTheTitle` | the history is of the title, chip and page around it | `ItemsOnTheirWay`, likewise |
| `ChartScreenProofs!MarksEnd` | no loading mark outlives its requests | inductive with the types |
| `ChartScreenProofs!LockGoesWithModal` | the page scrolls when it should | `SamePairs`: as long as no subscription goes, every chart has all the pairs; `DrawnWhenOpen` |
| `ChartScreenProofs!PagesMissNothing` | no row is skipped from page to page, whatever is stored between | rows stored later move the rest back in the order, never forward; pages tile the order (`PagesTile`, `PageIs`) |
| `ChartScreenProofs!PagesTellTheRows` | every page tells its rows right | entries follow the first rows of their groups (`GroupedIs`), and rows the order; the entry a delta is taken against is the first that qualifies (`PreviousIs`) |
| `ChartScreenProofs!PointsTellTheRows` | every point is the newest rate known at its bucket's edge | the query returns all rows in order (`ValuesAre`), the series of a direction keeps the newest of each second (`DedupedIs`), a step is never 0 (`StepIsPositive`), so a row is in a bucket or before it when it is before the edge (`BucketIs`) |

The last three and `TableIsSent` are about functions of stored data, for data of any
size. They rest on one lemma about orders, proved without induction: in a finite set
with a strict total order the number of elements before one is a bijection onto the
numbers below the cardinality (`Ranks`), so a sorted set, a filtered sequence and a
page of either are known place by place (`RanksSort`, `PickedIs`, `PageIs`).

**Only model-checked**: all liveness (`EventuallySettled`, `EventuallyInformed`,
`EventuallyCurrent`, `ProcessEnds`, and the liveness part of `KeepsPromise`; the first
two and the last under the conditions of section 3), which is out of the prover's
reach, and the two expected violations. The theorems marked
`Serial` say nothing of overlapping runs; there the runs with two slots do.

## 5. What the checks found

1. *Acknowledged edits are undone* (`acked_overwritten`): the check agent writes
   whole rows back from copies; an update answered 204 in between is overwritten
   and a deleted subscription is inserted again.
2. *The oldest rates of a history are out of reach* (`history_unreachable`):
   pages are cut from stored rows, the total counts merged entries, and Next stops
   when page times limit reaches the total. With BID and ASK of one second, up to
   half of the rows are on no page on offer.

Disagreements with a doc that the models show when a bound is set to meet them,
without a run of their own:

- *Canceled may have been delivered.* `internal/domain/rateuserevent.go:37`:
  "canceled indicates the notification was abandoned without delivery". The TTL
  cancels any unsettled row, also one whose delivery record was lost.
- *A daily time may never come.* `internal/domain/rateusersubscription.go:206`:
  "ConditionTypeDaily triggers once per day at a configured time-of-day". Only the
  current UTC date's fire time is compared, so one that no start follows before
  midnight is never seen (`DailyEveryDay` with `Daily(7)`).
- *A cron expression without a date fires always.* Line 86 of the same file: "reports
  whether the cron schedule has fired at least once". The zero time that stands
  for never is before every instant (`OncePerOccurrence` with `Cron({})`).
- *A daily time just after midnight may be swallowed.* The run that answers for a day
  too late writes after midnight; a time between midnight and that write then counts
  as answered (`DailyEveryDay`, found with two faults while its invariant was being
  sought, excuses it).
- *A form saved may be saved again.*
  `src/cmd/wasm/application/me_subscriptions_edit.go:481`: "On server error, FormError
  holds the server's message". When the row was made (201) and the reload after it
  fails, `SaveDraft` returns with the draft in place and no FormError, and Save makes
  a second row (`OnePerForm` names this case).
- *An event is bound to the winner.*
  `internal/application/notification/ratecheckagent.go:219`: "Bind the event to a
  source only when delivery covers exactly one". The fold forgets the sources that
  lost a row.
- *Latest may be old.* `internal/application/chart/service.go:87`: "Latest is the
  last known price for this direction within the window". The query orders by
  time ascending and its LIMIT of 2000 rows a source keeps the oldest
  (`PointsTrue` with `RowsPerKey = 1` and without its condition on the count).

Seen in passing:

- *Telegram out of reach*: every notifier run ends at its first call
  (`src/cmd/notifier/main.go:79-82`), before the vacuum, the check and the dispatch, so
  pending events outlive their TTL uncanceled until Telegram is back; a call that
  is never answered keeps a run for ever, since the client has no timeout.
- *A failed write repeats a notification*: `ratecheckagent.go:153-155` goes on to
  alert after the write of the row failed, and the next run finds the same change or
  the same occurrence (`NoRefire` and `OncePerOccurrence` name this case).
- *Overlapping runs*: an older copy with status failed may replace a row that says
  sent, and the message is sent again; no property forbids it.
- *Agents*: a threshold of 0 fires on every run; a cron occurrence between a run's
  start and its write is skipped (`NoneOverlooked` excludes it); an empty page
  with status 200 is asked for again by every source; a source name with HTML
  characters could never be stored in an event, because it is escaped before it
  meets a foreign key (no seeded source has one).
- *Sanitizer*: only the first 1000 occurrences of an anchor are examined
  (`sanitizer.go:99`); a table behind more of them is missed, the window is then
  around the first currency, and the table may not be in it. A window of less than
  two bytes, or a radius of 0, would lose the rate table too; `SanitizeAssumption`
  keeps them above, as the code's constants are.
- *Rule generator*: `UndoneOnlyByRace` and `NoOlderRules` hold with their escape
  clause only. A toggle that falls into the minutes of a generation is undone by
  it, rules written between the two transactions of a toggle are lost, and the
  slower of two doctors may put rules for an older layout back. Rules are accepted
  on the sanitized window and later applied to the whole page.
- *Chart*: a first sample less than 12 ns old makes the step 0 and divides by it;
  rows of one second are ordered by ids whose nanoseconds are not padded, so the
  highest is not always the latest.
- *Chart screen*: a row opened with the keyboard behind an open history shows the
  old pair's entries below the new title (`over`). An abandoned chart request that
  fails replaces a good chart by an error, and with it the period chips. A modal
  whose pair leaves the chart stays drawn until the next click, and Escape no longer
  reaches it. After a 401 or a guest's page turn the modal goes and the page behind
  stays locked (`LockedShowsModal` lists these).
- *History*: of Next and Prev answered in reverse order the page that is left is the one
  that answered last, with its own number (`HistorySettled` holds of it). The first
  answer of several takes the loading mark away.
- *Editor*: Save pressed again while awaited, or after a save without an answer, makes
  two rows (`OnePerForm` excuses it); of two overlapping reloads the older may come last
  (`ListFresh` excuses it); a save that comes back wipes a draft begun meanwhile.

## 6. Not modelled, and the plan

Built so far, in the order of importance, each with its proofs: the event pool
(DeliveryPromise, Dispatch), the check agent (RateCheck), conditions (Schedule), the
collector (Collector), messages (Digest), the rule generator (RuleGen, Sanitize), the
editor (Editor), charts and histories with their screens (RateHistory, Sparkline,
ChartScreen).

Next modules:

1. `Notifier`: RateCheck and Dispatch composed over one pool; a rate a user
   subscribed to is delivered or canceled in the end.
2. The Mini App's admin screen: sections that load independently and the toggle with
   its confirmation. (Seen while reading: an error text replaces a section
   together with its paging buttons.)
3. `TelegramLoop` and the shutdown of `cmd/web`, which does not wait for the handler
   in progress; `Migrator`; `Inspector`.
4. Overlapping collector runs on a smaller instance (an older page may get a
   newer stamp).

Next theorems: what of `Serial` can be given up (which of the pool's promises two
overlapping runs still keep, and a weaker promise they refine); types of `ChartScreen`
and `Digest` as theorems of their own.

Left out for good: text formatting, regular expressions, number grouping, AI request
mapping, static assets, logging, command-line reports: no state, no order, and
unit tests reach them.
