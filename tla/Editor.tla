------------------------------- MODULE Editor -------------------------------
(***************************************************************************)
(* The Mini App's subscription editor (runRenderMeSubscriptionsEdit and    *)
(* its controller MeSubscriptionsEditPage) over the server's table.        *)
(*                                                                         *)
(* WASM runs one goroutine at a time, so a handler is atomic up to the     *)
(* point where it awaits a request; while a save or a delete awaits,       *)
(* every other control can be used and further requests can be sent.  Each *)
(* element of Job is a goroutine that does so, one save or one delete at a *)
(* time.  A request is processed by the server some time after it was sent *)
(* and its answer arrives some time after that; when the caller gives up   *)
(* (15 seconds, or the screen left) the browser's request lives on, and    *)
(* the server may still process it (stray).                                *)
(*                                                                         *)
(* Search fields and the pages of the pickers only narrow what a picker    *)
(* offers; they are not state here.                                        *)
(***************************************************************************)
EXTENDS Naturals, FiniteSets

CONSTANTS
    Source,         \* active sources
    NoSource,       \* no source chosen
    Title,          \* provider title of each source
    NoTitle,        \* no provider chosen
    Pair,           \* currency pair of each source
    Job,            \* goroutines that save or delete
    PageSize,       \* SubscriptionListPageSize
    MaxRows,        \* bound: rows the server ever creates
    MaxFills,       \* bound: times the form is started anew
    MaxMounts       \* bound: visits of the screen

ASSUME EditorAssumption ==
    /\ NoSource \notin Source
    /\ DOMAIN Title = Source /\ DOMAIN Pair = Source
    /\ NoTitle \notin {Title[s] : s \in Source}
    /\ PageSize \in Nat \ {0}
    /\ MaxRows \in Nat /\ MaxFills \in Nat /\ MaxMounts \in Nat

VARIABLES
    rows,           \* the user's subscriptions on the server
    nextId,         \* id of the next row
    screen,         \* the editor: away, loading, loaded, ready, failed, locked
    items,          \* Items, the list as shown
    view,           \* ActiveView
    listPage,       \* ListPage
    provider,       \* SelectedProviderTitle
    providerOpen,   \* ProviderPickerOpen
    pairOpen,       \* PairPickerOpen
    directions,     \* the sources of PairDirections
    draft,          \* Draft: the source, and whether the condition is valid
    asking,         \* the id whose delete confirmation is open, or 0
    job,            \* the goroutines
    stray,          \* requests nobody waits for any more
    mounts,         \* visits of the screen so far
    fill,           \* history: number of the form being filled in
    pressedTwice,   \* history: forms whose Save was pressed while a save of the
                    \*   same form was awaited
    unfinished,     \* history: forms a save of which ended half way: no answer came,
                    \*   or it was 201 and the list was not reloaded
    doubt           \* history: the list may be behind the server

form == <<view, listPage, provider, providerOpen, pairOpen, directions, draft, fill>>
server == <<rows, nextId>>
excepted == <<pressedTwice, unfinished>>
vars == <<rows, nextId, screen, items, view, listPage, provider, providerOpen, pairOpen,
          directions, draft, asking, job, stray, mounts, fill, pressedTwice, unfinished,
          doubt>>

\* A row, by the form it came from; which source it names makes no difference here.
RowOf == [id : 1..MaxRows, fill : 0..MaxFills]
Draft == [source : Source \cup {NoSource}, valid : BOOLEAN]
Stray == [op : {"create", "delete"}, fill : 0..MaxFills, id : 0..MaxRows]
EmptyDraft == [source |-> NoSource, valid |-> FALSE]
JobStage == {"idle", "create", "created", "refused", "delete", "deleted", "missing",
             "reload", "reloaded"}
\* A save has the fill of its form, a delete the id of its row.
Goroutine(stage, n, id) ==
    [stage |-> stage, fill |-> n, id |-> id, answer |-> {}, alone |-> TRUE]
Idle == Goroutine("idle", 0, 0)
Busy == {j \in Job : job[j].stage # "idle"}

TypeOK ==
    /\ rows \subseteq RowOf /\ nextId \in 1..(MaxRows + 1)
    /\ screen \in {"away", "loading", "loaded", "ready", "failed", "locked"}
    /\ items \subseteq RowOf
    /\ view \in {"list", "form"} /\ listPage \in 1..(MaxRows + 1)
    /\ provider \in {Title[s] : s \in Source} \cup {NoTitle}
    /\ providerOpen \in BOOLEAN /\ pairOpen \in BOOLEAN
    /\ directions \subseteq Source
    /\ draft \in Draft
    /\ asking \in 0..MaxRows
    /\ job \in [Job -> [stage : JobStage, fill : 0..MaxFills, id : 0..MaxRows,
                        answer : SUBSET RowOf, alone : BOOLEAN]]
    /\ stray \subseteq Stray
    /\ mounts \in 0..MaxMounts /\ fill \in 0..MaxFills
    /\ pressedTwice \subseteq 0..MaxFills /\ unfinished \subseteq 0..MaxFills
    /\ doubt \in BOOLEAN

\* The controller NewMeSubscriptionsEditPage makes.
NewPage ==
    /\ items' = {}
    /\ view' = "list" /\ listPage' = 1
    /\ provider' = NoTitle /\ providerOpen' = FALSE /\ pairOpen' = FALSE
    /\ directions' = {} /\ draft' = EmptyDraft

Init ==
    /\ rows = {} /\ nextId = 1
    /\ screen = "away" /\ items = {}
    /\ view = "list" /\ listPage = 1
    /\ provider = NoTitle /\ providerOpen = FALSE /\ pairOpen = FALSE
    /\ directions = {} /\ draft = EmptyDraft
    /\ asking = 0
    /\ job = [j \in Job |-> Idle]
    /\ stray = {} /\ mounts = 0
    /\ fill = 0 /\ pressedTwice = {} /\ unfinished = {} /\ doubt = FALSE
-----------------------------------------------------------------------------
(* Opening and leaving the screen                                          *)

\* A form started anew, counted within its bound.
NewFill == fill < MaxFills /\ fill' = fill + 1

Enter ==
    /\ screen = "away" /\ mounts < MaxMounts
    /\ mounts' = mounts + 1
    /\ screen' = "loading"
    /\ NewFill
    /\ doubt' = (stray # {})
    /\ UNCHANGED <<server, items, view, listPage, provider, providerOpen, pairOpen,
                   directions, draft, asking, job, stray, excepted>>

\* LoadInitial: the server answers with the rows, then with the sources.
LoadRead ==
    /\ screen = "loading"
    /\ screen' = "loaded"
    /\ items' = rows
    /\ UNCHANGED <<server, form, asking, job, stray, mounts, excepted, doubt>>

\* The first error aborts both; a 401 leaves only the "open from the bot" text.
LoadEnd ==
    /\ \/ screen = "loaded" /\ screen' = "ready" /\ UNCHANGED items
       \/ screen \in {"loading", "loaded"} /\ screen' \in {"failed", "locked"} /\ items' = {}
    /\ UNCHANGED <<server, form, asking, job, stray, mounts, excepted, doubt>>

\* The request a goroutine is waiting for, when the server has not seen it.
Unprocessed(j) ==
    CASE job[j].stage = "create" ->
            {[op |-> "create", fill |-> job[j].fill, id |-> 0]}
      [] job[j].stage = "delete" ->
            {[op |-> "delete", fill |-> 0, id |-> job[j].id]}
      [] OTHER -> {}

Fills(set) == {job[j].fill : j \in set}


\* What a click needs: handlers are bound once loading is over, and Telegram's
\* confirmation covers the screen.
Clickable == screen = "ready" /\ asking = 0

\* Back in the list view: the screen is unmounted, its context cancelled, and the
\* controller gone.
Leave ==
    /\ screen = "failed" \/ (Clickable /\ view = "list")
    /\ screen' = "away"
    /\ stray' = stray \cup UNION {Unprocessed(j) : j \in Job}
    /\ job' = [j \in Job |-> Idle]
    /\ NewPage
    /\ UNCHANGED <<server, fill, asking, mounts, excepted, doubt>>
-----------------------------------------------------------------------------
(* The form                                                                *)

FormOnly == UNCHANGED <<server, screen, items, asking, job, stray, mounts, excepted, doubt>>

ShowFormView ==
    /\ Clickable /\ view = "list"
    /\ view' = "form"
    /\ FormOnly
    /\ UNCHANGED <<listPage, provider, providerOpen, pairOpen, directions, draft, fill>>

\* Back in the form view; both pickers are closed.
ShowListView ==
    /\ Clickable /\ view = "form"
    /\ view' = "list" /\ providerOpen' = FALSE /\ pairOpen' = FALSE
    /\ FormOnly
    /\ UNCHANGED <<listPage, provider, directions, draft, fill>>

\* The two triggers and the backdrop.
OpenProviderPicker ==
    /\ Clickable /\ view = "form"
    /\ providerOpen' = TRUE /\ pairOpen' = FALSE
    /\ FormOnly
    /\ UNCHANGED <<view, listPage, provider, directions, draft, fill>>

OpenPairPicker ==
    /\ Clickable /\ view = "form" /\ provider # NoTitle
    /\ providerOpen' = FALSE /\ pairOpen' = TRUE
    /\ FormOnly
    /\ UNCHANGED <<view, listPage, provider, directions, draft, fill>>

ClosePickers ==
    /\ Clickable /\ view = "form" /\ (providerOpen \/ pairOpen)
    /\ providerOpen' = FALSE /\ pairOpen' = FALSE
    /\ FormOnly
    /\ UNCHANGED <<view, listPage, provider, directions, draft, fill>>

\* distinctProviderTitles
ProviderTitles == {Title[s] : s \in Source}

\* mutant of ChooseProvider: the pair chosen before stays
ChangeProvider(title) ==
    /\ Clickable /\ view = "form" /\ providerOpen /\ title \in ProviderTitles
    /\ provider' = title /\ directions' = {}
    /\ providerOpen' = FALSE /\ pairOpen' = TRUE
    /\ FormOnly
    /\ UNCHANGED <<view, listPage, draft, fill>>

\* A provider clears the pair chosen before it and opens the pair picker.
ChooseProvider(title) ==
    /\ Clickable /\ view = "form" /\ providerOpen /\ title \in ProviderTitles
    /\ provider' = title /\ directions' = {}
    /\ draft' = [draft EXCEPT !.source = NoSource]
    /\ providerOpen' = FALSE /\ pairOpen' = TRUE
    /\ FormOnly
    /\ UNCHANGED <<view, listPage, fill>>

\* resolvePairDirections: the sources of the same provider and pair.
PairDirections(s) == {t \in Source : Title[t] = Title[s] /\ Pair[t] = Pair[s]}

\* pairsForProvider: one anchor for each pair of the provider.
PairsForProvider(title) == {s \in Source : Title[s] = title}

\* With one direction the source is set at once, with more the user must choose.
ChoosePair(s) ==
    /\ Clickable /\ view = "form" /\ pairOpen /\ s \in PairsForProvider(provider)
    /\ directions' = PairDirections(s)
    /\ draft' = [draft EXCEPT !.source =
                    IF PairDirections(s) = {s} THEN s ELSE NoSource]
    /\ pairOpen' = FALSE
    /\ FormOnly
    /\ UNCHANGED <<view, listPage, provider, providerOpen, fill>>

\* The radios are there when there is a choice.
SetDraftDirection(s) ==
    /\ Clickable /\ view = "form" /\ Cardinality(directions) >= 2 /\ s \in directions
    /\ draft' = [draft EXCEPT !.source = s]
    /\ FormOnly
    /\ UNCHANGED <<view, listPage, provider, providerOpen, pairOpen, directions, fill>>

\* SetDraftConditionType and SetDraftConditionValue, as far as validation tells.
SetDraftCondition(valid) ==
    /\ Clickable /\ view = "form" /\ draft.valid # valid
    /\ draft' = [draft EXCEPT !.valid = valid]
    /\ FormOnly
    /\ UNCHANGED <<view, listPage, provider, providerOpen, pairOpen, directions, fill>>

Cleared ==
    /\ draft' = EmptyDraft /\ provider' = NoTitle /\ directions' = {}
    /\ NewFill

ClearDraft ==
    /\ Clickable /\ view = "form"
    /\ Cleared
    /\ providerOpen' = FALSE /\ pairOpen' = FALSE
    /\ FormOnly
    /\ UNCHANGED <<view, listPage>>
-----------------------------------------------------------------------------
(* The list                                                                *)

TotalPages == IF items = {} THEN 1 ELSE (Cardinality(items) + PageSize - 1) \div PageSize
Before(r) == Cardinality({q \in items : q.id < r.id})
ClampedPage == IF listPage > TotalPages THEN TotalPages ELSE listPage

\* The rows of the page RenderEditListResultsSlot shows.
Shown == {r \in items : Before(r) \div PageSize + 1 = ClampedPage}

\* Prev and Next lead from the page that is shown.
SetListPage(page) ==
    /\ Clickable /\ view = "list"
    /\ page \in {ClampedPage - 1, ClampedPage + 1} /\ page \in 1..TotalPages
    /\ listPage' = page
    /\ FormOnly
    /\ UNCHANGED <<view, provider, providerOpen, pairOpen, directions, draft, fill>>
-----------------------------------------------------------------------------
(* Saving and deleting                                                     *)

Alone == Busy = {} /\ stray = {}
\* A goroutine that starts beside others is not alone, and neither are they.
Crowded(j, state) ==
    [i \in Job |-> IF i = j THEN [state EXCEPT !.alone = Alone]
                   ELSE [job[i] EXCEPT !.alone = FALSE]]

\* SaveDraft: an invalid draft makes no request.
SaveDraft(j) ==
    /\ Clickable /\ view = "form" /\ job[j] = Idle
    /\ draft.source # NoSource /\ draft.valid
    /\ job' = Crowded(j, Goroutine("create", fill, 0))
    /\ pressedTwice' = pressedTwice \cup (Fills(Busy) \cap {fill})
    /\ UNCHANGED <<server, screen, items, form, asking, stray, mounts, unfinished, doubt>>

\* A delete button asks first; the answer comes by callback.
AskDelete(r) ==
    /\ Clickable /\ view = "list" /\ r \in Shown
    /\ asking' = r.id
    /\ UNCHANGED <<server, screen, items, form, job, stray, mounts, excepted, doubt>>

ConfirmDelete(j) ==
    /\ asking # 0 /\ job[j] = Idle
    /\ asking' = 0
    /\ job' = Crowded(j, Goroutine("delete", 0, asking))
    /\ UNCHANGED <<server, screen, items, form, stray, mounts, excepted, doubt>>

DeclineDelete ==
    /\ asking # 0
    /\ asking' = 0
    /\ UNCHANGED <<server, screen, items, form, job, stray, mounts, excepted, doubt>>

To(j, stage) == job' = [job EXCEPT ![j].stage = stage]

Create(n) ==
    /\ nextId <= MaxRows
    /\ rows' = rows \cup {[id |-> nextId, fill |-> n]}
    /\ nextId' = nextId + 1

\* The server: CreateMeSubscription may refuse (a cron expression, a vanished
\* source, an expired login), DeleteMeSubscription may find no row or refuse,
\* ListMeSubscriptionsRaw answers.
Serve(j) ==
    /\ \/ /\ job[j].stage = "create"
          /\ \/ Create(job[j].fill) /\ To(j, "created")
             \/ To(j, "refused") /\ UNCHANGED server
       \/ /\ job[j].stage = "delete"
          /\ \/ /\ rows' = {r \in rows : r.id # job[j].id}
                /\ To(j, IF rows' = rows THEN "missing" ELSE "deleted")
             \/ To(j, "missing") /\ UNCHANGED rows
          /\ UNCHANGED nextId
       \/ /\ job[j].stage = "reload"
          /\ job' = [job EXCEPT ![j].stage = "reloaded", ![j].answer = rows]
          /\ UNCHANGED server
    /\ UNCHANGED <<screen, items, form, asking, stray, mounts, excepted, doubt>>

\* mutant of Answered: the list is not reloaded
NoReload(j) ==
    /\ job[j].stage \in {"created", "deleted"}
    /\ job' = [job EXCEPT ![j] = Idle]
    /\ UNCHANGED <<server, screen, items, form, asking, stray, mounts, excepted, doubt>>

\* The answer to the first request: both operations reload the list next.
Answered(j) ==
    /\ job[j].stage \in {"created", "deleted"}
    /\ To(j, "reload")
    /\ UNCHANGED <<server, screen, items, form, asking, stray, mounts, excepted, doubt>>

\* mutant of Finished: the draft that was saved stays in the form
KeepForm(j) == UNCHANGED <<view, listPage, provider, directions, draft, fill>>

\* What a successful save leaves of the form: nothing, whatever it holds by now.
Finished(j) ==
    \/ job[j].id = 0 /\ Cleared /\ view' = "list" /\ UNCHANGED listPage
    \/ /\ job[j].id # 0
       /\ UNCHANGED <<view, listPage, provider, directions, draft, fill>>

\* reloadList stores whatever answer comes, and the goroutine is done.
Reloaded(j) ==
    /\ job[j].stage = "reloaded"
    /\ items' = job[j].answer
    /\ Finished(j)
    /\ job' = [job EXCEPT ![j] = Idle]
    /\ doubt' = IF job[j].alone /\ stray = {} THEN FALSE ELSE TRUE
    /\ UNCHANGED <<server, screen, providerOpen, pairOpen, asking, stray, mounts, excepted>>

\* An error answer, a 401, a lost answer or the 15 seconds: the goroutine stops,
\* and the browser's request may still reach the server.  The draft stays, also
\* when the row was made and only the reload of the list failed.
Fail(j) ==
    /\ job[j].stage # "idle"
    /\ \/ UNCHANGED screen
       \/ job[j].stage \in {"refused", "missing", "reload"} /\ screen' = "locked"
    /\ stray' = stray \cup Unprocessed(j)
    /\ job' = [job EXCEPT ![j] = Idle]
    /\ doubt' = (doubt \/ job[j].stage \notin {"refused", "missing"})
    /\ unfinished' = IF job[j].id = 0 /\ job[j].stage # "refused"
                     THEN unfinished \cup {job[j].fill} ELSE unfinished
    /\ UNCHANGED <<server, items, form, asking, mounts, pressedTwice>>

\* A request nobody waits for reaches the server after all, or never.
ServeStray(r) ==
    /\ stray' = stray \ {r}
    /\ \/ r.op = "create" /\ Create(r.fill)
       \/ r.op = "delete" /\ rows' = {q \in rows : q.id # r.id} /\ UNCHANGED nextId
       \/ UNCHANGED server
    /\ doubt' = TRUE
    /\ job' = [j \in Job |-> [job[j] EXCEPT !.alone = job[j] = Idle]]
    /\ UNCHANGED <<screen, items, form, asking, mounts, excepted>>

FormStep ==
    \/ ShowFormView \/ ShowListView \/ OpenProviderPicker \/ OpenPairPicker
    \/ ClosePickers \/ ClearDraft
    \/ \E title \in ProviderTitles : ChooseProvider(title)
    \/ \E s \in Source : ChoosePair(s) \/ SetDraftDirection(s)
    \/ \E valid \in BOOLEAN : SetDraftCondition(valid)

JobStep(j) == Serve(j) \/ Answered(j) \/ Reloaded(j) \/ Fail(j)

Next ==
    \/ Enter \/ LoadRead \/ LoadEnd \/ Leave
    \/ FormStep
    \/ \E page \in 1..MaxRows : SetListPage(page)
    \/ \E r \in items : AskDelete(r)
    \/ DeclineDelete
    \/ \E j \in Job : SaveDraft(j) \/ ConfirmDelete(j) \/ JobStep(j)
    \/ \E r \in stray : ServeStray(r)

Spec == Init /\ [][Next]_vars
-----------------------------------------------------------------------------
(* Properties                                                              *)

\* The source a save would subscribe to is the one the form shows: it is of the
\* provider and among the directions that are shown, whatever was chosen, cleared
\* by a save that came back meanwhile, or left half done before.
PickedAsShown == draft.source # NoSource =>
    /\ draft.source \in directions
    /\ Title[draft.source] = provider

\* When nothing is under way, the list is the server's, unless an operation failed
\* half way, two overlapped, or the server got a request that nobody waited for
\* (reloadList has no way to tell an old answer from a new one).
ListFresh == screen = "ready" /\ Busy = {} /\ ~doubt => items = rows

\* A form filled in once makes one subscription, with three exceptions, in which
\* the draft stays and a second Save makes a second row: Save was pressed again
\* while a save was awaited; a save was given up without an answer, and the
\* request had reached the server or still does; or a save was answered with 201
\* and the reload of the list failed, of which SaveDraft tells the form nothing.
OnePerForm == \A q, r \in rows :
    q.id # r.id /\ q.fill = r.fill => q.fill \in pressedTwice \cup unfinished
=============================================================================
