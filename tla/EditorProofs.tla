---------------------------- MODULE EditorProofs ----------------------------
(***************************************************************************)
(* Proofs about Editor for any sources, any number of goroutines, forms,   *)
(* rows and visits: the source that is saved is the one shown, a form      *)
(* makes one subscription, and the list is fresh when nothing is under way.*)
(***************************************************************************)
EXTENDS Editor, TLAPS

\* The types, by who writes the variables.
FormTypes ==
    /\ view \in {"list", "form"} /\ listPage \in 1..(MaxRows + 1)
    /\ provider \in {Title[s] : s \in Source} \cup {NoTitle}
    /\ providerOpen \in BOOLEAN /\ pairOpen \in BOOLEAN
    /\ directions \subseteq Source
    /\ draft \in Draft
    /\ fill \in 0..MaxFills
ServerTypes ==
    /\ rows \subseteq RowOf /\ nextId \in 1..(MaxRows + 1)
    /\ stray \subseteq Stray
JobState == [stage : JobStage, fill : 0..MaxFills, id : 0..MaxRows,
             answer : SUBSET RowOf, alone : BOOLEAN]
ScreenTypes ==
    /\ screen \in {"away", "loading", "loaded", "ready", "failed", "locked"}
    /\ items \subseteq RowOf
    /\ asking \in 0..MaxRows
    /\ mounts \in 0..MaxMounts
    /\ pressedTwice \subseteq 0..MaxFills /\ unfinished \subseteq 0..MaxFills
    /\ doubt \in BOOLEAN
JobTypes == job \in [Job -> JobState]

LEMMA TypesSplit == TypeOK <=> FormTypes /\ ServerTypes /\ ScreenTypes /\ JobTypes
BY DEF TypeOK, FormTypes, ServerTypes, ScreenTypes, JobTypes, JobState

LEMMA TypesJoin ==
    ASSUME FormTypes', ServerTypes', ScreenTypes', JobTypes'
    PROVE  TypeOK'
BY DEF TypeOK, FormTypes, ServerTypes, ScreenTypes, JobTypes, JobState

\* What has no request yet.
LEMMA IdleIs ==
    /\ Idle \in JobState
    /\ Idle.stage = "idle" /\ Idle.fill = 0 /\ Idle.id = 0
BY EditorAssumption DEF EditorAssumption, Idle, Goroutine, JobState, JobStage
-----------------------------------------------------------------------------
(* The inductive invariant                                                 *)

\* The directions on offer are the chosen provider's, and the source is one of them.
FormRight ==
    /\ \A t \in directions : Title[t] = provider
    /\ PickedAsShown

\* A goroutine saves a form, or deletes a row.
Saves(j) == job[j].fill \in 1..fill /\ job[j].id = 0
Deletes(j) == job[j].fill = 0 /\ job[j].id \in 1..MaxRows
Roles == \A j \in Job :
    /\ job[j].stage = "idle" => job[j].fill = 0
    /\ job[j].stage \in {"create", "created", "refused"} => Saves(j)
    /\ job[j].stage \in {"delete", "deleted", "missing"} => Deletes(j)
    /\ job[j].stage \in {"reload", "reloaded"} => Saves(j) \/ Deletes(j)

\* Forms that may make a second row.
Repeatable == pressedTwice \cup unfinished

\* A form that is gone: it has no row, and no goroutine saves it or will.
GoneUnsaved(n) ==
    /\ \A r \in rows : r.fill # n
    /\ \A j \in Job : job[j].fill # n
    /\ n = fill => screen = "away"

\* Where a form is, before and after it has become a row.
Saved == {"created", "reload", "reloaded"}
FormsCounted ==
    /\ screen # "away" => fill >= 1
    /\ \A r \in rows : r.fill \in 1..fill
    /\ \A r \in stray : r.op = "create" =>
          r.id = 0 /\ r.fill \in 1..fill /\ (r.fill \in Repeatable \/ GoneUnsaved(r.fill))
    /\ \A r \in rows : r.fill = fill /\ fill \notin Repeatable /\ screen # "away" =>
          \E j \in Job : job[j].stage \in Saved /\ job[j].fill = fill
    /\ \A j \in Job : job[j].stage = "create" /\ job[j].fill \notin Repeatable =>
          /\ \A r \in rows : r.fill # job[j].fill
          /\ \A k \in Job \ {j} : job[k].fill # job[j].fill
    /\ OnePerForm

\* What is known of the list, and of the answers on their way.
Behind == {"created", "deleted", "reload", "reloaded"}
ListKnown ==
    /\ screen \in {"away", "loading", "loaded", "failed"} =>
          asking = 0 /\ \A j \in Job : job[j].stage = "idle"
    /\ \A j \in Job : job[j].stage # "idle" /\ job[j].alone =>
          \A k \in Job \ {j} : job[k].stage = "idle"
    /\ \A j \in Job : job[j].stage = "reloaded" /\ job[j].alone => job[j].answer = rows
    /\ screen \in {"loaded", "ready"} /\ ~doubt
          /\ (\A j \in Job : job[j].stage \notin Behind) => items = rows

IInv == TypeOK /\ FormRight /\ Roles /\ FormsCounted /\ ListKnown
-----------------------------------------------------------------------------
(* What the steps do to the goroutines                                     *)

LEMMA ToIs ==
    ASSUME JobTypes, NEW j \in Job, NEW stage \in JobStage, To(j, stage)
    PROVE  /\ JobTypes'
           /\ job'[j].stage = stage /\ job'[j].fill = job[j].fill
           /\ job'[j].id = job[j].id /\ job'[j].answer = job[j].answer
           /\ job'[j].alone = job[j].alone
           /\ \A k \in Job \ {j} : job'[k] = job[k]
BY DEF JobTypes, JobState, To

LEMMA StopIs ==
    ASSUME JobTypes, NEW j \in Job, job' = [job EXCEPT ![j] = Idle]
    PROVE  /\ JobTypes'
           /\ job'[j].stage = "idle" /\ job'[j].fill = 0
           /\ \A k \in Job \ {j} : job'[k] = job[k]
<1>1. Idle \in JobState /\ Idle.stage = "idle" /\ Idle.fill = 0
  BY IdleIs
<1> QED
  BY <1>1 DEF JobTypes

LEMMA AnswerIs ==
    ASSUME JobTypes, ServerTypes, NEW j \in Job,
           job' = [job EXCEPT ![j].stage = "reloaded", ![j].answer = rows]
    PROVE  /\ JobTypes'
           /\ job'[j].stage = "reloaded" /\ job'[j].fill = job[j].fill
           /\ job'[j].id = job[j].id /\ job'[j].answer = rows
           /\ job'[j].alone = job[j].alone
           /\ \A k \in Job \ {j} : job'[k] = job[k]
BY DEF JobTypes, JobState, JobStage, ServerTypes

LEMMA StartIs ==
    ASSUME JobTypes, NEW j \in Job, NEW state \in JobState, job' = Crowded(j, state)
    PROVE  /\ JobTypes'
           /\ job'[j].stage = state.stage /\ job'[j].fill = state.fill
           /\ job'[j].id = state.id /\ job'[j].alone = Alone
           /\ \A k \in Job \ {j} :
                 /\ job'[k].stage = job[k].stage /\ job'[k].fill = job[k].fill
                 /\ job'[k].id = job[k].id /\ job'[k].answer = job[k].answer
                 /\ job'[k].alone = FALSE
<1>1. Alone \in BOOLEAN
  BY DEF Alone
<1>2. [state EXCEPT !.alone = Alone] \in JobState
  BY <1>1 DEF JobState
<1>3. \A k \in Job : [job[k] EXCEPT !.alone = FALSE] \in JobState
  BY DEF JobTypes, JobState
<1>4. JobTypes'
  BY <1>2, <1>3 DEF JobTypes, Crowded
<1>5. /\ job'[j] = [state EXCEPT !.alone = Alone]
      /\ \A k \in Job \ {j} : job'[k] = [job[k] EXCEPT !.alone = FALSE]
  BY DEF Crowded
<1> QED
  BY <1>4, <1>5 DEF JobTypes, JobState

LEMMA NewIs ==
    ASSUME NEW stage \in JobStage, NEW n \in 0..MaxFills, NEW id \in 0..MaxRows
    PROVE  /\ Goroutine(stage, n, id) \in JobState
           /\ Goroutine(stage, n, id).stage = stage
           /\ Goroutine(stage, n, id).fill = n
           /\ Goroutine(stage, n, id).id = id
BY DEF Goroutine, JobState

LEMMA StrayIs ==
    ASSUME JobTypes, NEW j \in Job
    PROVE  /\ Unprocessed(j) \subseteq Stray
           /\ \A r \in Unprocessed(j) : r.op = "create" =>
                 r.fill = job[j].fill /\ r.id = 0 /\ job[j].stage = "create"
<1>1. job[j].fill \in 0..MaxFills /\ job[j].id \in 0..MaxRows
      /\ 0 \in 0..MaxFills /\ 0 \in 0..MaxRows
  BY EditorAssumption DEF EditorAssumption, JobTypes, JobState
<1>2. CASE job[j].stage = "create"
  BY <1>1, <1>2 DEF Unprocessed, Stray
<1>3. CASE job[j].stage = "delete"
  BY <1>1, <1>3 DEF Unprocessed, Stray
<1>4. CASE job[j].stage \notin {"create", "delete"}
  BY <1>4 DEF Unprocessed
<1> QED
  BY <1>2, <1>3, <1>4

LEMMA CreateIs ==
    ASSUME ServerTypes, NEW n \in 0..MaxFills, Create(n)
    PROVE  /\ rows' \subseteq RowOf /\ nextId' \in 1..(MaxRows + 1)
           /\ \E q : q.fill = n /\ rows' = rows \cup {q}
<1> DEFINE q == [id |-> nextId, fill |-> n]
<1>1. nextId \in 1..MaxRows /\ nextId + 1 \in 1..(MaxRows + 1)
  BY EditorAssumption DEF EditorAssumption, ServerTypes, Create
<1>2. q \in RowOf /\ q.fill = n
  BY <1>1 DEF RowOf
<1>3. rows' = rows \cup {q} /\ nextId' = nextId + 1
  BY DEF Create
<1> QED
  BY <1>1, <1>2, <1>3 DEF ServerTypes
-----------------------------------------------------------------------------
(* Types                                                                   *)

LEMMA Least ==
    /\ 1 \in 1..(MaxRows + 1) /\ 0 \in 0..MaxRows
    /\ 0 \in 0..MaxFills /\ 0 \in 0..MaxMounts
    /\ EmptyDraft \in Draft
<1>1. EmptyDraft \in Draft
  BY DEF EmptyDraft, Draft
<1> QED
  BY <1>1, EditorAssumption DEF EditorAssumption

LEMMA InitTypes == Init => TypeOK
<1> SUFFICES ASSUME Init PROVE TypeOK
  OBVIOUS
<1>1. FormTypes
  BY Least DEF Init, FormTypes
<1>2. ServerTypes /\ ScreenTypes
  BY Least DEF Init, ServerTypes, ScreenTypes
<1>3. JobTypes
  BY IdleIs DEF Init, JobTypes
<1> QED
  BY <1>1, <1>2, <1>3, TypesSplit

\* A step of the form leaves everything else alone.
FormSteps == FormStep \/ \E page \in 1..MaxRows : SetListPage(page)

LEMMA FormStepOnly ==
    ASSUME FormSteps
    PROVE  FormOnly
BY DEF FormSteps, FormStep, ShowFormView, ShowListView, OpenProviderPicker, OpenPairPicker,
       ClosePickers, ClearDraft, ChooseProvider, ChoosePair, SetDraftDirection,
       SetDraftCondition, SetListPage

LEMMA ClearedTypes ==
    ASSUME FormTypes, Cleared
    PROVE  /\ draft' \in Draft /\ provider' = NoTitle /\ directions' = {}
           /\ fill' \in 0..MaxFills /\ fill' = fill + 1 /\ draft'.source = NoSource
<1>1. EmptyDraft \in Draft /\ EmptyDraft.source = NoSource
  BY DEF EmptyDraft, Draft
<1> QED
  BY <1>1, EditorAssumption DEF EditorAssumption, Cleared, NewFill, FormTypes

LEMMA FormStepTypes ==
    ASSUME TypeOK, FormSteps
    PROVE  TypeOK'
<1> USE TypesSplit
<1>1. ServerTypes' /\ ScreenTypes' /\ JobTypes'
  BY FormStepOnly DEF FormOnly, ServerTypes, ScreenTypes, JobTypes, server, excepted
<1>2. FormTypes'
  <2>1. ASSUME NEW page \in 1..MaxRows, SetListPage(page) PROVE FormTypes'
    BY <2>1, EditorAssumption DEF EditorAssumption, SetListPage, FormTypes
  <2>2. CASE ShowFormView \/ ShowListView \/ OpenProviderPicker \/ OpenPairPicker
             \/ ClosePickers
    BY <2>2 DEF ShowFormView, ShowListView, OpenProviderPicker, OpenPairPicker,
                ClosePickers, FormTypes
  <2>3. CASE ClearDraft
    BY <2>3, ClearedTypes DEF ClearDraft, FormTypes
  <2>4. ASSUME NEW title \in ProviderTitles, ChooseProvider(title) PROVE FormTypes'
    <3>1. draft' \in Draft
      BY <2>4 DEF ChooseProvider, FormTypes, Draft
    <3> QED
      BY <2>4, <3>1 DEF ChooseProvider, FormTypes, ProviderTitles
  <2>5. ASSUME NEW s \in Source, ChoosePair(s) PROVE FormTypes'
    <3>1. draft' \in Draft
      BY <2>5 DEF ChoosePair, FormTypes, Draft
    <3> QED
      BY <2>5, <3>1 DEF ChoosePair, FormTypes, PairDirections
  <2>6. ASSUME NEW s \in Source, SetDraftDirection(s) PROVE FormTypes'
    <3>1. draft' \in Draft
      BY <2>6 DEF SetDraftDirection, FormTypes, Draft
    <3> QED
      BY <2>6, <3>1 DEF SetDraftDirection, FormTypes
  <2>7. ASSUME NEW valid \in BOOLEAN, SetDraftCondition(valid) PROVE FormTypes'
    <3>1. draft' \in Draft
      BY <2>7 DEF SetDraftCondition, FormTypes, Draft
    <3> QED
      BY <2>7, <3>1 DEF SetDraftCondition, FormTypes
  <2> QED
    BY <2>1, <2>2, <2>3, <2>4, <2>5, <2>6, <2>7 DEF FormSteps, FormStep
<1> QED
  BY <1>1, <1>2, TypesJoin

\* The steps of the screen as a whole.
ScreenStep ==
    \/ Enter \/ LoadRead \/ LoadEnd \/ Leave
    \/ (\E r \in items : AskDelete(r)) \/ DeclineDelete

LEMMA ScreenStepTypes ==
    ASSUME TypeOK, ScreenStep
    PROVE  TypeOK'
<1> USE TypesSplit
<1>1. CASE Enter
  <2>1. fill' \in 0..MaxFills /\ mounts' \in 0..MaxMounts
    BY <1>1, EditorAssumption
       DEF EditorAssumption, Enter, NewFill, FormTypes, ScreenTypes
  <2>2. FormTypes'
    BY <1>1, <2>1 DEF Enter, FormTypes
  <2>3. ServerTypes' /\ ScreenTypes' /\ JobTypes'
    BY <1>1, <2>1 DEF Enter, ServerTypes, ScreenTypes, JobTypes, server, excepted
  <2> QED
    BY <2>2, <2>3, TypesJoin
<1>2. CASE LoadRead \/ LoadEnd
  <2>1. FormTypes' /\ ServerTypes' /\ JobTypes'
    BY <1>2 DEF LoadRead, LoadEnd, FormTypes, ServerTypes, JobTypes, server, form
  <2>2. ScreenTypes'
    BY <1>2 DEF LoadRead, LoadEnd, ScreenTypes, ServerTypes, excepted
  <2> QED
    BY <2>1, <2>2, TypesJoin
<1>3. CASE Leave
  <2>1. FormTypes'
    BY <1>3, Least DEF Leave, NewPage, FormTypes
  <2>2. stray' \subseteq Stray
    BY <1>3, StrayIs DEF Leave, ServerTypes
  <2>4. ServerTypes' /\ ScreenTypes'
    BY <1>3, <2>2 DEF Leave, NewPage, ServerTypes, ScreenTypes, server, excepted
  <2>5. JobTypes'
    BY <1>3, IdleIs DEF Leave, JobTypes
  <2> QED
    BY <2>1, <2>4, <2>5, TypesJoin
<1>4. CASE (\E r \in items : AskDelete(r)) \/ DeclineDelete
  <2>1. FormTypes' /\ ServerTypes' /\ JobTypes'
    BY <1>4 DEF AskDelete, DeclineDelete, FormTypes, ServerTypes, JobTypes, server, form
  <2>2. asking' \in 0..MaxRows
    <3>1. ASSUME NEW r \in items PROVE r.id \in 0..MaxRows
      BY EditorAssumption DEF EditorAssumption, ScreenTypes, RowOf
    <3> QED
      BY <1>4, <3>1, EditorAssumption DEF EditorAssumption, AskDelete, DeclineDelete
  <2>3. ScreenTypes'
    BY <1>4, <2>2 DEF AskDelete, DeclineDelete, ScreenTypes, excepted
  <2> QED
    BY <2>1, <2>3, TypesJoin
<1> QED
  BY <1>1, <1>2, <1>3, <1>4 DEF ScreenStep

LEMMA StartTypes ==
    ASSUME TypeOK, NEW j \in Job, SaveDraft(j) \/ ConfirmDelete(j)
    PROVE  TypeOK'
<1> USE TypesSplit
<1>1. FormTypes' /\ ServerTypes'
  BY DEF SaveDraft, ConfirmDelete, FormTypes, ServerTypes, server, form
<1>2. JobTypes'
  <2>1. CASE SaveDraft(j)
    <3>1. Goroutine("create", fill, 0) \in JobState
      BY NewIs, EditorAssumption DEF EditorAssumption, FormTypes, JobStage
    <3> QED
      BY <2>1, <3>1, StartIs DEF SaveDraft
  <2>2. CASE ConfirmDelete(j)
    <3>1. Goroutine("delete", 0, asking) \in JobState
      BY NewIs, EditorAssumption DEF EditorAssumption, ScreenTypes, JobStage
    <3> QED
      BY <2>2, <3>1, StartIs DEF ConfirmDelete
  <2> QED
    BY <2>1, <2>2
<1>3. ScreenTypes'
  BY EditorAssumption DEF EditorAssumption, SaveDraft, ConfirmDelete, ScreenTypes, FormTypes, excepted
<1> QED
  BY <1>1, <1>2, <1>3, TypesJoin

LEMMA JobStepTypes ==
    ASSUME TypeOK, NEW j \in Job, JobStep(j)
    PROVE  TypeOK'
<1> USE TypesSplit
<1>0. job[j] \in JobState
  BY DEF JobTypes
<1>1. CASE Serve(j)
  <2>1. FormTypes' /\ ScreenTypes'
    BY <1>1 DEF Serve, FormTypes, ScreenTypes, form, excepted
  <2>2. CASE Create(job[j].fill) /\ To(j, "created")
    <3>1. job[j].fill \in 0..MaxFills
      BY <1>0 DEF JobState
    <3>2. ServerTypes'
      BY <1>1, <2>2, <3>1, CreateIs DEF Serve, ServerTypes
    <3>3. JobTypes'
      BY <2>2, ToIs DEF JobStage
    <3> QED
      BY <2>1, <3>2, <3>3, TypesJoin
  <2>3. CASE To(j, "refused") /\ UNCHANGED server
    <3>1. ServerTypes'
      BY <1>1, <2>3 DEF Serve, ServerTypes, server
    <3>2. JobTypes'
      BY <2>3, ToIs DEF JobStage
    <3> QED
      BY <2>1, <3>1, <3>2, TypesJoin
  <2>4. CASE /\ \/ /\ rows' = {r \in rows : r.id # job[j].id}
                   /\ To(j, IF rows' = rows THEN "missing" ELSE "deleted")
                \/ To(j, "missing") /\ UNCHANGED rows
             /\ UNCHANGED nextId
    <3>1. ServerTypes'
      BY <1>1, <2>4 DEF Serve, ServerTypes
    <3>2. JobTypes'
      BY <2>4, ToIs DEF JobStage
    <3> QED
      BY <2>1, <3>1, <3>2, TypesJoin
  <2>5. CASE /\ job' = [job EXCEPT ![j].stage = "reloaded", ![j].answer = rows]
             /\ UNCHANGED server
    <3>1. ServerTypes'
      BY <1>1, <2>5 DEF Serve, ServerTypes, server
    <3>2. JobTypes'
      BY <2>5, AnswerIs
    <3> QED
      BY <2>1, <3>1, <3>2, TypesJoin
  <2> QED
    BY <1>1, <2>2, <2>3, <2>4, <2>5 DEF Serve
<1>2. CASE Answered(j)
  <2>1. FormTypes' /\ ScreenTypes' /\ ServerTypes'
    BY <1>2 DEF Answered, FormTypes, ScreenTypes, ServerTypes, form, server, excepted
  <2>2. JobTypes'
    BY <1>2, ToIs DEF Answered, JobStage
  <2> QED
    BY <2>1, <2>2, TypesJoin
<1>3. CASE Reloaded(j)
  <2>1. FormTypes'
    BY <1>3, ClearedTypes DEF Reloaded, Finished, FormTypes
  <2>2. JobTypes'
    BY <1>3, StopIs DEF Reloaded
  <2>3. job[j].answer \subseteq RowOf
    BY <1>0 DEF JobState
  <2>4. ServerTypes' /\ ScreenTypes'
    BY <1>3, <2>3 DEF Reloaded, ServerTypes, ScreenTypes, server, excepted
  <2> QED
    BY <2>1, <2>2, <2>4, TypesJoin
<1>4. CASE Fail(j)
  <2>1. FormTypes' /\ JobTypes'
    BY <1>4, StopIs DEF Fail, FormTypes, form
  <2>2. stray' \subseteq Stray
    BY <1>4, StrayIs DEF Fail, ServerTypes
  <2>3. job[j].fill \in 0..MaxFills
    BY <1>0 DEF JobState
  <2>4. /\ pressedTwice' \subseteq 0..MaxFills /\ unfinished' \subseteq 0..MaxFills
        /\ doubt' \in BOOLEAN
    BY <1>4, <2>3 DEF Fail, ScreenTypes
  <2>5. ServerTypes' /\ ScreenTypes'
    BY <1>4, <2>2, <2>4 DEF Fail, ServerTypes, ScreenTypes, server
  <2> QED
    BY <2>1, <2>5, TypesJoin
<1> QED
  BY <1>1, <1>2, <1>3, <1>4 DEF JobStep

LEMMA ServeStrayIs ==
    ASSUME TypeOK, NEW r \in stray, ServeStray(r)
    PROVE  /\ TypeOK'
           /\ \A k \in Job :
                 /\ job'[k].stage = job[k].stage /\ job'[k].fill = job[k].fill
                 /\ job'[k].id = job[k].id /\ job'[k].answer = job[k].answer
                 /\ job[k].stage # "idle" => job'[k].alone = FALSE
           /\ \/ r.op = "create" /\ \E q : q.fill = r.fill /\ rows' = rows \cup {q}
              \/ rows' \subseteq rows
<1> USE TypesSplit
<1>1. r \in Stray /\ r.fill \in 0..MaxFills
  BY DEF ServerTypes, Stray
<1>2. rows' \subseteq RowOf /\ nextId' \in 1..(MaxRows + 1)
      /\ \/ r.op = "create" /\ \E q : q.fill = r.fill /\ rows' = rows \cup {q}
         \/ rows' \subseteq rows
  <2>1. CASE r.op = "create" /\ Create(r.fill)
    BY <1>1, <2>1, CreateIs
  <2>2. CASE (rows' = {q \in rows : q.id # r.id} /\ UNCHANGED nextId) \/ UNCHANGED server
    BY <2>2 DEF ServerTypes, server
  <2> QED
    BY <2>1, <2>2 DEF ServeStray
<1>3. ASSUME NEW k \in Job
      PROVE  /\ job'[k] \in JobState
             /\ job'[k].stage = job[k].stage /\ job'[k].fill = job[k].fill
             /\ job'[k].id = job[k].id /\ job'[k].answer = job[k].answer
             /\ job[k].stage # "idle" => job'[k].alone = FALSE
  <2>1. job[k] \in JobState
    BY DEF JobTypes
  <2>2. (job[k] = Idle) \in BOOLEAN /\ (job[k].stage # "idle" => job[k] # Idle)
    BY IdleIs
  <2>3. job'[k] = [job[k] EXCEPT !.alone = job[k] = Idle]
    BY DEF ServeStray
  <2> QED
    BY <2>1, <2>2, <2>3 DEF JobState
<1>4. JobTypes'
  BY <1>3 DEF ServeStray, JobTypes
<1>5. FormTypes' /\ ServerTypes' /\ ScreenTypes'
  BY <1>2 DEF ServeStray, FormTypes, ServerTypes, ScreenTypes, form, excepted
<1> QED
  BY <1>2, <1>3, <1>4, <1>5, TypesJoin
-----------------------------------------------------------------------------
(* The form                                                                *)

LEMMA InitFormRight == Init => FormRight
BY DEF Init, FormRight, PickedAsShown, EmptyDraft

LEMMA FormStaysRight ==
    ASSUME FormRight, UNCHANGED <<directions, provider>>, draft'.source = draft.source
    PROVE  FormRight'
BY DEF FormRight, PickedAsShown

LEMMA EmptyIsRight ==
    ASSUME directions' = {}, draft'.source = NoSource
    PROVE  FormRight'
BY DEF FormRight, PickedAsShown

LEMMA FormStepRight ==
    ASSUME TypeOK, FormRight, FormSteps
    PROVE  FormRight'
<1>0. draft \in Draft
  BY DEF TypeOK
<1>1. CASE \/ \E page \in 1..MaxRows : SetListPage(page)
           \/ ShowFormView \/ ShowListView \/ OpenProviderPicker \/ OpenPairPicker
           \/ ClosePickers
  BY <1>1, FormStaysRight DEF SetListPage, ShowFormView, ShowListView, OpenProviderPicker,
                              OpenPairPicker, ClosePickers
<1>2. CASE ClearDraft
  <2>1. EmptyDraft.source = NoSource
    BY DEF EmptyDraft
  <2> QED
    BY <1>2, <2>1, EmptyIsRight DEF ClearDraft, Cleared
<1>3. ASSUME NEW title \in ProviderTitles, ChooseProvider(title) PROVE FormRight'
  <2>1. draft'.source = NoSource
    BY <1>0, <1>3 DEF ChooseProvider, Draft
  <2> QED
    BY <1>3, <2>1, EmptyIsRight DEF ChooseProvider
<1>4. ASSUME NEW s \in Source, ChoosePair(s) PROVE FormRight'
  <2>1. Title[s] = provider /\ s \in PairDirections(s)
    BY <1>4 DEF ChoosePair, PairsForProvider, PairDirections
  <2>2. \A t \in PairDirections(s) : Title[t] = provider
    BY <2>1 DEF PairDirections
  <2>3. draft'.source \in {s, NoSource}
    BY <1>0, <1>4 DEF ChoosePair, Draft
  <2>4. directions' = PairDirections(s) /\ provider' = provider
    BY <1>4 DEF ChoosePair
  <2> QED
    BY <2>1, <2>2, <2>3, <2>4 DEF FormRight, PickedAsShown
<1>5. ASSUME NEW s \in Source, SetDraftDirection(s) PROVE FormRight'
  <2>1. draft'.source = s
    BY <1>0, <1>5 DEF SetDraftDirection, Draft
  <2> QED
    BY <1>5, <2>1 DEF SetDraftDirection, FormRight, PickedAsShown
<1>6. ASSUME NEW valid \in BOOLEAN, SetDraftCondition(valid) PROVE FormRight'
  <2>1. draft'.source = draft.source
    BY <1>0, <1>6 DEF SetDraftCondition, Draft
  <2> QED
    BY <1>6, <2>1, FormStaysRight DEF SetDraftCondition
<1> QED
  BY <1>1, <1>2, <1>3, <1>4, <1>5, <1>6 DEF FormSteps, FormStep

LEMMA OtherStepRight ==
    ASSUME TypeOK, FormRight, Next, ~FormSteps
    PROVE  FormRight'
<1>1. EmptyDraft.source = NoSource
  BY DEF EmptyDraft
<1>2. CASE UNCHANGED <<directions, provider, draft>>
  BY <1>2, FormStaysRight
<1>3. CASE directions' = {} /\ draft' = EmptyDraft
  BY <1>1, <1>3, EmptyIsRight
<1>4. \/ UNCHANGED <<directions, provider, draft>>
      \/ directions' = {} /\ draft' = EmptyDraft
  <2>1. CASE Enter \/ LoadRead \/ LoadEnd \/ Leave \/ (\E r \in items : AskDelete(r))
             \/ DeclineDelete
    BY <2>1 DEF Enter, LoadRead, LoadEnd, Leave, NewPage, AskDelete, DeclineDelete, form
  <2>2. ASSUME NEW j \in Job, SaveDraft(j) \/ ConfirmDelete(j) \/ JobStep(j)
        PROVE  \/ UNCHANGED <<directions, provider, draft>>
               \/ directions' = {} /\ draft' = EmptyDraft
    BY <2>2 DEF SaveDraft, ConfirmDelete, JobStep, Serve, Answered, Reloaded, Finished,
                Cleared, Fail, form
  <2>3. ASSUME NEW r \in stray, ServeStray(r)
        PROVE  UNCHANGED <<directions, provider, draft>>
    BY <2>3 DEF ServeStray, form
  <2> QED
    BY <2>1, <2>2, <2>3 DEF Next, FormSteps
<1> QED
  BY <1>2, <1>3, <1>4
-----------------------------------------------------------------------------
(* Goroutines and their roles                                              *)

\* A goroutine keeps what it is for.
Keeps(k) == job'[k].fill = job[k].fill /\ job'[k].id = job[k].id
SameStage(k) == job'[k].stage = job[k].stage /\ Keeps(k)

LEMMA RolesKept ==
    ASSUME Roles, TypeOK, TypeOK', fill <= fill', NEW k \in Job, SameStage(k)
    PROVE  /\ job'[k].stage = "idle" => job'[k].fill = 0
           /\ job'[k].stage \in {"create", "created", "refused"} => Saves(k)'
           /\ job'[k].stage \in {"delete", "deleted", "missing"} => Deletes(k)'
           /\ job'[k].stage \in {"reload", "reloaded"} => Saves(k)' \/ Deletes(k)'
<1>1. fill \in Nat /\ fill' \in Nat /\ job[k].fill \in Nat
  BY DEF TypeOK
<1> QED
  BY <1>1 DEF Roles, SameStage, Keeps, Saves, Deletes

\* How a step of goroutine j moves it.
Moved(j) ==
    \/ job[j].stage = "idle" /\ job'[j].stage = "create"
          /\ job'[j].fill = fill /\ job'[j].id = 0 /\ fill >= 1
    \/ job[j].stage = "idle" /\ job'[j].stage = "delete"
          /\ job'[j].fill = 0 /\ job'[j].id \in 1..MaxRows
    \/ job[j].stage = "create" /\ job'[j].stage \in {"created", "refused"} /\ Keeps(j)
    \/ job[j].stage = "delete" /\ job'[j].stage \in {"deleted", "missing"} /\ Keeps(j)
    \/ job[j].stage \in {"created", "deleted"} /\ job'[j].stage = "reload" /\ Keeps(j)
    \/ job[j].stage = "reload" /\ job'[j].stage = "reloaded" /\ Keeps(j)
    \/ job[j].stage # "idle" /\ job'[j].stage = "idle" /\ job'[j].fill = 0

\* A goroutine that starts is alone, or it and the others know that they are not.
LEMMA StartsAs ==
    ASSUME TypeOK, FormsCounted, NEW j \in Job, SaveDraft(j) \/ ConfirmDelete(j)
    PROVE  /\ job[j].stage = "idle"
           /\ \/ /\ SaveDraft(j) /\ job'[j].stage = "create"
                 /\ job'[j].fill = fill /\ job'[j].id = 0 /\ fill >= 1
              \/ /\ ConfirmDelete(j) /\ job'[j].stage = "delete"
                 /\ job'[j].fill = 0 /\ job'[j].id \in 1..MaxRows
           /\ job'[j].alone = Alone
           /\ \A k \in Job \ {j} : SameStage(k) /\ job'[k].alone = FALSE
<1> USE TypesSplit
<1>0. JobTypes /\ ServerTypes /\ FormTypes /\ ScreenTypes /\ Idle.stage = "idle"
  BY IdleIs
<1>1. CASE SaveDraft(j)
  <2>1. "create" \in JobStage /\ fill \in 0..MaxFills /\ 0 \in 0..MaxRows /\ fill >= 1
    BY <1>1, Least DEF FormTypes, JobStage, SaveDraft, Clickable, FormsCounted
  <2> DEFINE g == Goroutine("create", fill, 0)
  <2>2. g \in JobState /\ g.stage = "create" /\ g.fill = fill /\ g.id = 0
    BY <2>1, NewIs
  <2>3. job' = Crowded(j, g) /\ job[j].stage = "idle"
    BY <1>0, <1>1 DEF SaveDraft
  <2> HIDE DEF g
  <2> QED
    BY <1>0, <1>1, <2>1, <2>2, <2>3, StartIs DEF SameStage, Keeps
<1>2. CASE ConfirmDelete(j)
  <2>1. "delete" \in JobStage /\ 0 \in 0..MaxFills /\ asking \in 1..MaxRows
        /\ asking \in 0..MaxRows
    BY <1>2, Least DEF ScreenTypes, JobStage, ConfirmDelete
  <2> DEFINE g == Goroutine("delete", 0, asking)
  <2>2. g \in JobState /\ g.stage = "delete" /\ g.fill = 0 /\ g.id = asking
    BY <2>1, NewIs
  <2>3. job' = Crowded(j, g) /\ job[j].stage = "idle"
    BY <1>0, <1>2 DEF ConfirmDelete
  <2> HIDE DEF g
  <2> QED
    BY <1>0, <1>2, <2>1, <2>2, <2>3, StartIs DEF SameStage, Keeps
<1> QED
  BY <1>1, <1>2

LEMMA JobMoves ==
    ASSUME TypeOK, Roles, FormsCounted, NEW j \in Job,
           SaveDraft(j) \/ ConfirmDelete(j) \/ JobStep(j)
    PROVE  /\ Moved(j)
           /\ \A k \in Job \ {j} : SameStage(k)
<1> USE TypesSplit
<1>0. JobTypes /\ ServerTypes /\ FormTypes /\ ScreenTypes /\ Idle.stage = "idle"
  BY IdleIs
<1>1. CASE SaveDraft(j) \/ ConfirmDelete(j)
  BY <1>1, StartsAs DEF Moved
<1>3. CASE Serve(j)
  <2>1. CASE job[j].stage = "create" /\ (To(j, "created") \/ To(j, "refused"))
    BY <1>0, <2>1, ToIs DEF JobStage, Moved, SameStage, Keeps
  <2>2. CASE job[j].stage = "delete" /\ (To(j, "missing") \/ To(j, "deleted"))
    BY <1>0, <2>2, ToIs DEF JobStage, Moved, SameStage, Keeps
  <2>3. CASE job[j].stage = "reload"
             /\ job' = [job EXCEPT ![j].stage = "reloaded", ![j].answer = rows]
    BY <1>0, <2>3, AnswerIs DEF Moved, SameStage, Keeps
  <2> QED
    BY <1>3, <2>1, <2>2, <2>3 DEF Serve
<1>4. CASE Answered(j)
  BY <1>0, <1>4, ToIs DEF Answered, JobStage, Moved, SameStage, Keeps
<1>5. CASE Reloaded(j) \/ Fail(j)
  BY <1>0, <1>5, StopIs DEF Reloaded, Fail, Moved, SameStage, Keeps
<1> QED
  BY <1>1, <1>3, <1>4, <1>5 DEF JobStep

LEMMA FillGrows ==
    ASSUME TypeOK, Next
    PROVE  fill' \in {fill, fill + 1}
<1>1. CASE FormSteps
  BY <1>1 DEF FormSteps, FormStep, ShowFormView, ShowListView, OpenProviderPicker,
       OpenPairPicker, ClosePickers, ClearDraft, ChooseProvider, ChoosePair,
       SetDraftDirection, SetDraftCondition, SetListPage, Cleared, NewFill
<1>2. CASE Enter \/ LoadRead \/ LoadEnd \/ Leave \/ (\E r \in items : AskDelete(r))
           \/ DeclineDelete
  BY <1>2 DEF Enter, NewFill, LoadRead, LoadEnd, Leave, AskDelete, DeclineDelete, form
<1>3. ASSUME NEW j \in Job, SaveDraft(j) \/ ConfirmDelete(j) \/ JobStep(j)
      PROVE  fill' \in {fill, fill + 1}
  BY <1>3 DEF SaveDraft, ConfirmDelete, JobStep, Serve, Answered, Reloaded, Finished,
              Cleared, NewFill, Fail, form
<1>4. ASSUME NEW r \in stray, ServeStray(r) PROVE fill' = fill
  BY <1>4 DEF ServeStray, form
<1> QED
  BY <1>1, <1>2, <1>3, <1>4 DEF Next, FormSteps

LEMMA RolesStep ==
    ASSUME TypeOK, TypeOK', Roles, FormsCounted, Next
    PROVE  Roles'
<1>1. fill <= fill' /\ fill \in Nat /\ fill' \in Nat
  BY FillGrows DEF TypeOK
<1>2. CASE \A k \in Job : SameStage(k)
  BY <1>1, <1>2, RolesKept DEF Roles
<1>3. CASE FormSteps \/ Enter \/ LoadRead \/ LoadEnd \/ (\E r \in items : AskDelete(r))
           \/ DeclineDelete
  <2>1. UNCHANGED job
    BY <1>3, FormStepOnly
       DEF FormOnly, Enter, LoadRead, LoadEnd, AskDelete, DeclineDelete
  <2> QED
    BY <1>2, <2>1 DEF SameStage, Keeps
<1>4. CASE Leave
  <2>1. \A k \in Job : job'[k].stage = "idle" /\ job'[k].fill = 0
    BY <1>4, IdleIs DEF Leave
  <2> QED
    BY <2>1 DEF Roles
<1>5. ASSUME NEW j \in Job, SaveDraft(j) \/ ConfirmDelete(j) \/ JobStep(j)
      PROVE  Roles'
  <2>1. Moved(j) /\ \A k \in Job \ {j} : SameStage(k)
    BY <1>5, JobMoves
  <2>2. ASSUME NEW k \in Job, k # j
        PROVE  /\ job'[k].stage = "idle" => job'[k].fill = 0
               /\ job'[k].stage \in {"create", "created", "refused"} => Saves(k)'
               /\ job'[k].stage \in {"delete", "deleted", "missing"} => Deletes(k)'
               /\ job'[k].stage \in {"reload", "reloaded"} => Saves(k)' \/ Deletes(k)'
    BY <1>1, <2>1, <2>2, RolesKept
  <2>3. /\ job'[j].stage = "idle" => job'[j].fill = 0
        /\ job'[j].stage \in {"create", "created", "refused"} => Saves(j)'
        /\ job'[j].stage \in {"delete", "deleted", "missing"} => Deletes(j)'
        /\ job'[j].stage \in {"reload", "reloaded"} => Saves(j)' \/ Deletes(j)'
    <3>1. job[j].fill \in Nat
      BY DEF TypeOK
    <3> QED
      BY <1>1, <2>1, <3>1 DEF Moved, Keeps, Roles, Saves, Deletes
  <2> QED
    BY <2>2, <2>3 DEF Roles
<1>6. ASSUME NEW r \in stray, ServeStray(r) PROVE Roles'
  BY <1>2, <1>6, ServeStrayIs DEF SameStage, Keeps
<1> QED
  BY <1>3, <1>4, <1>5, <1>6 DEF Next, FormSteps
-----------------------------------------------------------------------------
(* Forms and the rows they become                                          *)

\* Steps that store no row and start no save.
LEMMA NoNewRow ==
    ASSUME TypeOK, TypeOK', Roles, Roles', FormsCounted,
           fill' \in {fill, fill + 1},
           screen' # "away" => fill' >= 1,
           fill' = fill /\ screen = "away" => screen' = "away",
           rows' \subseteq rows,
           Repeatable \subseteq Repeatable',
           \A r \in stray' : r.op = "create" =>
              r \in stray \/ (r.id = 0 /\ r.fill \in Repeatable' /\ r.fill \in 1..fill),
           \A k \in Job :
              /\ job'[k].stage = "create" => job[k].stage = "create" /\ Keeps(k)
              /\ job'[k].fill \in {job[k].fill, 0}
              /\ (job[k].stage \in Saved /\ job[k].fill = fill /\ fill \notin Repeatable'
                    /\ fill' = fill /\ fill >= 1) =>
                    job'[k].stage \in Saved /\ job'[k].fill = fill
    PROVE  FormsCounted'
<1>0. fill \in Nat /\ fill' \in Nat /\ \A k \in Job : job[k].fill \in Nat
  BY DEF TypeOK
<1>1. \A r \in rows' : r.fill \in 1..fill'
  BY <1>0 DEF FormsCounted
<1>2. ASSUME NEW r \in stray', r.op = "create"
      PROVE  r.id = 0 /\ r.fill \in 1..fill' /\ (r.fill \in Repeatable' \/ GoneUnsaved(r.fill)')
  <2>1. r.id = 0 /\ r.fill \in 1..fill
    BY <1>2 DEF FormsCounted
  <2>2. ASSUME r.fill \notin Repeatable' PROVE GoneUnsaved(r.fill)'
    <3>1. GoneUnsaved(r.fill)
      BY <1>2, <2>2 DEF FormsCounted
    <3>2. r.fill >= 1 /\ r.fill <= fill
      BY <2>1
    <3>3. \A k \in Job : job'[k].fill # r.fill
      BY <3>1, <3>2 DEF GoneUnsaved
    <3>4. r.fill = fill' => fill' = fill
      BY <1>0, <2>1
    <3> QED
      BY <3>1, <3>3, <3>4 DEF GoneUnsaved
  <2> QED
    BY <1>0, <2>1, <2>2
<1>3. ASSUME NEW r \in rows', r.fill = fill', fill' \notin Repeatable', screen' # "away"
      PROVE  \E j \in Job : job'[j].stage \in Saved /\ job'[j].fill = fill'
  <2>1. r \in rows /\ r.fill \in 1..fill
    BY DEF FormsCounted
  <2>2. fill' = fill /\ fill >= 1 /\ fill \notin Repeatable' /\ screen # "away"
    BY <1>0, <1>3, <2>1
  <2>3. PICK j \in Job : job[j].stage \in Saved /\ job[j].fill = fill
    BY <1>3, <2>1, <2>2 DEF FormsCounted
  <2> QED
    BY <2>2, <2>3
<1>4. ASSUME NEW j \in Job, job'[j].stage = "create", job'[j].fill \notin Repeatable'
      PROVE  /\ \A r \in rows' : r.fill # job'[j].fill
             /\ \A k \in Job \ {j} : job'[k].fill # job'[j].fill
  <2>1. job[j].stage = "create" /\ job'[j].fill = job[j].fill /\ job[j].fill \notin Repeatable
    BY <1>4 DEF Keeps
  <2>2. job'[j].fill >= 1
    BY <1>4, <1>0 DEF Roles, Saves
  <2>3. /\ \A r \in rows : r.fill # job[j].fill
        /\ \A k \in Job \ {j} : job[k].fill # job[j].fill
    BY <2>1 DEF FormsCounted
  <2> QED
    BY <2>1, <2>2, <2>3
<1>5. OnePerForm'
  BY DEF FormsCounted, OnePerForm, Repeatable
<1> QED
  BY <1>1, <1>2, <1>3, <1>4, <1>5 DEF FormsCounted

LEMMA InitCounted == Init => FormsCounted /\ Roles
<1>1. Idle.stage = "idle" /\ Idle.fill = 0
  BY IdleIs
<1>2. Init => \A j \in Job : job[j].stage = "idle" /\ job[j].fill = 0
  BY <1>1 DEF Init
<1> QED
  BY <1>2 DEF Init, FormsCounted, OnePerForm, Roles

LEMMA StepCounted ==
    ASSUME TypeOK, TypeOK', Roles, Roles', FormsCounted, ListKnown, Next,
           ~ \E j \in Job : SaveDraft(j) \/ Serve(j),
           ~ \E r \in stray : ServeStray(r)
    PROVE  FormsCounted'
<1>0. fill' \in {fill, fill + 1} /\ fill \in Nat /\ fill' \in Nat
  BY FillGrows DEF TypeOK
<1>1. CASE FormSteps \/ Enter \/ LoadRead \/ LoadEnd \/ (\E r \in items : AskDelete(r))
           \/ DeclineDelete
  <2>1. UNCHANGED <<job, stray, Repeatable, rows>>
    BY <1>1, FormStepOnly
       DEF FormOnly, Enter, LoadRead, LoadEnd, AskDelete, DeclineDelete, server, excepted,
           Repeatable
  <2>2. CASE Enter
    <3>1. fill' >= 1 /\ fill' # fill
      BY <1>0, <2>2 DEF Enter, NewFill
    <3> QED
      BY <1>0, <2>1, <3>1, NoNewRow DEF Keeps
  <2>3. CASE ~Enter
    <3>1. screen' = "away" <=> screen = "away"
      BY <1>1, <2>3, FormStepOnly DEF FormOnly, LoadRead, LoadEnd, AskDelete, DeclineDelete
    <3>2. screen' # "away" => fill' >= 1
      BY <1>0, <3>1 DEF FormsCounted
    <3> QED
      BY <1>0, <2>1, <3>1, <3>2, NoNewRow DEF Keeps
  <2> QED
    BY <2>2, <2>3
<1>2. CASE Leave
  <2>1. \A k \in Job : job'[k].stage = "idle" /\ job'[k].fill = 0
    BY <1>2, IdleIs DEF Leave
  <2>2. screen' = "away" /\ UNCHANGED <<rows, fill, Repeatable>>
    BY <1>2 DEF Leave, server, excepted, Repeatable
  <2>3. ASSUME NEW r \in stray', r.op = "create"
        PROVE  r.id = 0 /\ r.fill \in 1..fill' /\ (r.fill \in Repeatable' \/ GoneUnsaved(r.fill)')
    <3>1. CASE r \in stray
      <4>1. r.id = 0 /\ r.fill \in 1..fill /\ (r.fill \in Repeatable \/ GoneUnsaved(r.fill))
        BY <2>3, <3>1 DEF FormsCounted
      <4>2. r.fill # 0
        BY <4>1
      <4> QED
        BY <2>1, <2>2, <4>1, <4>2 DEF GoneUnsaved
    <3>2. CASE \E j \in Job : r \in Unprocessed(j)
      <4>1. PICK j \in Job : r \in Unprocessed(j)
        BY <3>2
      <4>2. r.fill = job[j].fill /\ r.id = 0 /\ job[j].stage = "create"
        BY <2>3, <4>1, StrayIs, TypesSplit
      <4>3. r.fill \in 1..fill /\ r.fill # 0
        BY <4>2 DEF Roles, Saves
      <4>4. r.fill \notin Repeatable => \A q \in rows : q.fill # r.fill
        BY <4>2 DEF FormsCounted
      <4> QED
        BY <2>1, <2>2, <4>2, <4>3, <4>4 DEF GoneUnsaved
    <3> QED
      BY <1>2, <3>1, <3>2 DEF Leave
  <2>4. OnePerForm'
    BY <1>2 DEF Leave, server, excepted, FormsCounted, OnePerForm
  <2> QED
    BY <2>1, <2>2, <2>3, <2>4 DEF FormsCounted
<1>3. ASSUME NEW j \in Job, ConfirmDelete(j) \/ Answered(j)
      PROVE  FormsCounted'
  <2>1. Moved(j) /\ \A k \in Job \ {j} : SameStage(k)
    BY <1>3, JobMoves DEF JobStep
  <2>2. UNCHANGED <<screen, rows, stray, Repeatable, fill>>
    BY <1>3 DEF ConfirmDelete, Answered, server, form, excepted, Repeatable
  <2>3. screen' # "away" => fill' >= 1
    BY <2>2 DEF FormsCounted
  <2>4. /\ job'[j].stage # "create" /\ job'[j].fill \in {job[j].fill, 0}
        /\ job[j].stage \in Saved => job'[j].stage \in Saved /\ job'[j].fill = job[j].fill
    <3>1. CASE ConfirmDelete(j)
      BY <3>1, StartsAs DEF ConfirmDelete, SaveDraft, Clickable, Saved
    <3>2. CASE Answered(j)
      BY <3>2, ToIs, TypesSplit DEF Answered, JobStage, Saved
    <3> QED
      BY <1>3, <3>1, <3>2
  <2> QED
    BY <1>0, <2>1, <2>2, <2>3, <2>4, NoNewRow DEF SameStage, Keeps
<1>4. ASSUME NEW j \in Job, Reloaded(j)
      PROVE  FormsCounted'
  <2>1. Moved(j) /\ \A k \in Job \ {j} : SameStage(k)
    BY <1>4, JobMoves DEF JobStep
  <2>2. UNCHANGED <<screen, rows, stray, Repeatable>>
    BY <1>4 DEF Reloaded, server, excepted, Repeatable
  <2>3. screen' # "away" => fill' >= 1
    BY <1>0, <2>2 DEF FormsCounted
  <2>4. job'[j].stage = "idle" /\ job'[j].fill = 0
    BY <1>4, StopIs, TypesSplit DEF Reloaded
  <2>5. job[j].fill = fill /\ fill >= 1 => fill' = fill + 1
    <3>1. Saves(j) \/ Deletes(j)
      BY <1>4 DEF Reloaded, Roles
    <3> QED
      BY <1>0, <1>4, <3>1 DEF Reloaded, Finished, Cleared, NewFill, Saves, Deletes
  <2> QED
    BY <1>0, <2>1, <2>2, <2>3, <2>4, <2>5, NoNewRow DEF SameStage, Keeps
<1>5. ASSUME NEW j \in Job, Fail(j)
      PROVE  FormsCounted'
  <2>1. Moved(j) /\ \A k \in Job \ {j} : SameStage(k)
    BY <1>5, JobMoves DEF JobStep
  <2>2. UNCHANGED <<rows, fill>> /\ Repeatable \subseteq Repeatable'
        /\ (job[j].stage # "refused" /\ Saves(j) => job[j].fill \in Repeatable')
    BY <1>5 DEF Fail, server, form, Repeatable, Saves
  <2>3. screen # "away" /\ fill' >= 1
    <3>1. job[j].stage # "idle"
      BY <1>5 DEF Fail
    <3>2. screen # "away"
      BY <3>1 DEF ListKnown
    <3> QED
      BY <2>2, <3>2 DEF FormsCounted
  <2>4. job'[j].stage = "idle" /\ job'[j].fill = 0
    BY <1>5, StopIs, TypesSplit DEF Fail
  <2>5. ASSUME NEW r \in stray', r.op = "create"
        PROVE  r \in stray \/ (r.id = 0 /\ r.fill \in Repeatable' /\ r.fill \in 1..fill)
    <3>1. CASE r \in Unprocessed(j)
      <4>1. r.fill = job[j].fill /\ r.id = 0 /\ job[j].stage = "create"
        BY <2>5, <3>1, StrayIs, TypesSplit
      <4> QED
        BY <2>2, <4>1 DEF Roles, Saves
    <3> QED
      BY <1>5, <3>1 DEF Fail
  <2>6. job[j].stage \in Saved /\ job[j].fill = fill /\ fill >= 1 => fill \in Repeatable'
    <3>1. job[j].stage \in Saved /\ job[j].fill >= 1 => Saves(j) /\ job[j].stage # "refused"
      BY DEF Roles, Saves, Deletes, Saved
    <3> QED
      BY <2>2, <3>1
  <2> QED
    BY <1>0, <2>1, <2>2, <2>3, <2>4, <2>5, <2>6, NoNewRow DEF SameStage, Keeps, Saved
<1> QED
  BY <1>1, <1>2, <1>3, <1>4, <1>5 DEF Next, FormSteps, JobStep

\* A save that starts is the only one of its form, or the form may repeat.
LEMMA SaveCounted ==
    ASSUME TypeOK, TypeOK', Roles, Roles', FormsCounted, NEW j \in Job, SaveDraft(j)
    PROVE  FormsCounted'
<1>0. fill \in Nat /\ \A k \in Job : job[k].fill \in Nat
  BY DEF TypeOK
<1>1. /\ job[j].stage = "idle" /\ job'[j].stage = "create" /\ job'[j].fill = fill
      /\ fill >= 1
      /\ \A k \in Job \ {j} : SameStage(k)
  BY StartsAs DEF SaveDraft, ConfirmDelete, Clickable
<1>2. /\ UNCHANGED <<screen, rows, stray, fill>>
      /\ Repeatable' = Repeatable \cup (Fills(Busy) \cap {fill})
  BY DEF SaveDraft, server, form, Repeatable
<1>3. fill \notin Repeatable' => \A k \in Job : job[k].stage # "idle" => job[k].fill # fill
  BY <1>2 DEF Fills, Busy
<1>4. fill \notin Repeatable' => \A r \in rows : r.fill # fill
  BY <1>2, <1>3 DEF FormsCounted, Saved, SaveDraft, Clickable
<1>5. ASSUME NEW i \in Job, job'[i].stage = "create", job'[i].fill \notin Repeatable'
      PROVE  /\ \A r \in rows' : r.fill # job'[i].fill
             /\ \A k \in Job \ {i} : job'[k].fill # job'[i].fill
  <2>1. CASE i = j
    <3>1. ASSUME NEW k \in Job \ {j} PROVE job'[k].fill # fill
      <4>1. CASE job[k].stage = "idle"
        BY <1>0, <1>1, <4>1 DEF SameStage, Keeps, Roles
      <4>2. CASE job[k].stage # "idle"
        BY <1>1, <1>3, <1>5, <2>1, <4>2 DEF SameStage, Keeps
      <4> QED
        BY <4>1, <4>2
    <3> QED
      BY <1>1, <1>2, <1>4, <1>5, <2>1, <3>1
  <2>2. CASE i # j
    <3>1. job[i].stage = "create" /\ job'[i].fill = job[i].fill /\ job[i].fill \notin Repeatable
      BY <1>1, <1>2, <1>5, <2>2 DEF SameStage, Keeps
    <3>2. /\ \A r \in rows : r.fill # job[i].fill
          /\ \A k \in Job \ {i} : job[k].fill # job[i].fill
      BY <3>1 DEF FormsCounted
    <3>3. job[i].fill # fill
      BY <1>3, <1>5, <3>1
    <3> QED
      BY <1>1, <1>2, <3>1, <3>2, <3>3 DEF SameStage, Keeps
  <2> QED
    BY <2>1, <2>2
<1>6. ASSUME NEW r \in rows', r.fill = fill', fill' \notin Repeatable', screen' # "away"
      PROVE  \E k \in Job : job'[k].stage \in Saved /\ job'[k].fill = fill'
  BY <1>2, <1>4, <1>6
<1>7. OnePerForm'
  BY <1>2 DEF FormsCounted, OnePerForm, Repeatable
<1>8. ASSUME NEW r \in stray', r.op = "create"
      PROVE  r.id = 0 /\ r.fill \in 1..fill' /\ (r.fill \in Repeatable' \/ GoneUnsaved(r.fill)')
  <2>1. r.id = 0 /\ r.fill \in 1..fill /\ (r.fill \in Repeatable \/ GoneUnsaved(r.fill))
    BY <1>2, <1>8 DEF FormsCounted
  <2>2. ASSUME GoneUnsaved(r.fill) PROVE GoneUnsaved(r.fill)'
    <3>1. r.fill # fill
      BY <2>2 DEF GoneUnsaved, SaveDraft, Clickable
    <3> QED
      BY <1>1, <1>2, <2>2, <3>1 DEF GoneUnsaved, SameStage, Keeps
  <2> QED
    BY <1>2, <2>1, <2>2
<1> QED
  BY <1>0, <1>1, <1>2, <1>5, <1>6, <1>7, <1>8 DEF FormsCounted

LEMMA ServeCounted ==
    ASSUME TypeOK, TypeOK', Roles, Roles', FormsCounted, NEW j \in Job, Serve(j)
    PROVE  FormsCounted'
<1>0. fill \in Nat /\ job[j].fill \in 0..MaxFills
  BY DEF TypeOK
<1>1. Moved(j) /\ \A k \in Job \ {j} : SameStage(k)
  BY JobMoves DEF JobStep
<1>2. UNCHANGED <<screen, stray, Repeatable, fill>>
  BY DEF Serve, form, excepted, Repeatable
<1>3. screen' # "away" => fill' >= 1
  BY <1>2 DEF FormsCounted
<1>4. CASE job[j].stage # "create" \/ UNCHANGED server
  <2>1. rows' \subseteq rows
    BY <1>4 DEF Serve, server
  <2>2. Keeps(j) /\ job'[j].stage # "create"
        /\ (job[j].stage \in Saved => job'[j].stage \in Saved)
    <3>1. job'[j].stage # "idle"
      BY ToIs, AnswerIs, TypesSplit DEF Serve, JobStage
    <3> QED
      BY <1>1, <3>1 DEF Moved, Serve, Saved
  <2> QED
    BY <1>0, <1>1, <1>2, <1>3, <2>1, <2>2, NoNewRow DEF SameStage, Keeps
<1>5. CASE job[j].stage = "create" /\ Create(job[j].fill) /\ To(j, "created")
  <2> DEFINE n == job[j].fill
  <2>1. PICK q : q.fill = n /\ rows' = rows \cup {q}
    BY <1>0, <1>5, CreateIs, TypesSplit
  <2>2. job'[j].stage = "created" /\ job'[j].fill = n /\ n \in 1..fill
    BY <1>5, ToIs, TypesSplit DEF JobStage, Roles, Saves
  <2>3. n \notin Repeatable => /\ \A r \in rows : r.fill # n
                            /\ \A k \in Job \ {j} : job[k].fill # n
    BY <1>5 DEF FormsCounted
  <2>4. \A r \in rows' : r.fill \in 1..fill'
    BY <1>2, <2>1, <2>2 DEF FormsCounted
  <2>5. ASSUME NEW r \in rows', r.fill = fill', fill' \notin Repeatable', screen' # "away"
        PROVE  \E k \in Job : job'[k].stage \in Saved /\ job'[k].fill = fill'
    <3>1. CASE r \in rows
      <4>1. PICK k \in Job : job[k].stage \in Saved /\ job[k].fill = fill
        BY <1>2, <2>5, <3>1 DEF FormsCounted
      <4> QED
        BY <1>1, <1>2, <1>5, <4>1 DEF SameStage, Keeps, Saved
    <3>2. CASE r = q
      BY <1>2, <2>1, <2>2, <2>5, <3>2 DEF Saved
    <3> QED
      BY <2>1, <3>1, <3>2
  <2>6. ASSUME NEW i \in Job, job'[i].stage = "create", job'[i].fill \notin Repeatable'
        PROVE  /\ \A r \in rows' : r.fill # job'[i].fill
               /\ \A k \in Job \ {i} : job'[k].fill # job'[i].fill
    <3>1. i # j /\ job[i].stage = "create" /\ job'[i].fill = job[i].fill
      BY <1>1, <2>2, <2>6 DEF SameStage, Keeps
    <3>2. /\ \A r \in rows : r.fill # job[i].fill
          /\ \A k \in Job \ {i} : job[k].fill # job[i].fill
      BY <1>2, <2>6, <3>1 DEF FormsCounted
    <3>3. job[i].fill # n
      BY <3>1, <3>2
    <3> QED
      BY <1>1, <2>1, <2>2, <3>1, <3>2, <3>3 DEF SameStage, Keeps
  <2>7. OnePerForm'
    BY <1>2, <2>1, <2>3 DEF FormsCounted, OnePerForm, Repeatable
  <2>8. ASSUME NEW r \in stray', r.op = "create"
        PROVE  r.id = 0 /\ r.fill \in 1..fill' /\ (r.fill \in Repeatable' \/ GoneUnsaved(r.fill)')
    <3>1. r.id = 0 /\ r.fill \in 1..fill /\ (r.fill \in Repeatable \/ GoneUnsaved(r.fill))
      BY <1>2, <2>8 DEF FormsCounted
    <3>2. ASSUME GoneUnsaved(r.fill) PROVE GoneUnsaved(r.fill)'
      <4>1. r.fill # n
        BY <3>2 DEF GoneUnsaved
      <4> QED
        BY <1>1, <1>2, <2>1, <2>2, <3>2, <4>1 DEF GoneUnsaved, SameStage, Keeps
    <3> QED
      BY <1>2, <3>1, <3>2
  <2> QED
    BY <1>2, <1>3, <2>4, <2>5, <2>6, <2>7, <2>8 DEF FormsCounted
<1> QED
  BY <1>4, <1>5 DEF Serve

LEMMA StrayCounted ==
    ASSUME TypeOK, TypeOK', Roles, Roles', FormsCounted, NEW r \in stray, ServeStray(r)
    PROVE  FormsCounted'
<1>1. UNCHANGED <<screen, Repeatable, fill>> /\ stray' = stray \ {r}
  BY DEF ServeStray, form, excepted, Repeatable
<1>2. \A k \in Job : SameStage(k)
  BY ServeStrayIs DEF SameStage, Keeps
<1>3. screen' # "away" => fill' >= 1
  BY <1>1 DEF FormsCounted
<1>4. CASE rows' \subseteq rows
  BY <1>1, <1>2, <1>3, <1>4, NoNewRow DEF SameStage, Keeps
<1>5. CASE r.op = "create" /\ \E q : q.fill = r.fill /\ rows' = rows \cup {q}
  <2>1. PICK q : q.fill = r.fill /\ rows' = rows \cup {q}
    BY <1>5
  <2>2. /\ q.fill \in 1..fill /\ r.id = 0
        /\ q.fill \in Repeatable \/ GoneUnsaved(q.fill)
    BY <1>5, <2>1 DEF FormsCounted
  <2>3. \A x \in rows' : x.fill \in 1..fill'
    BY <1>1, <2>1, <2>2 DEF FormsCounted
  <2>4. ASSUME NEW x \in stray', x.op = "create"
        PROVE  x.id = 0 /\ x.fill \in 1..fill' /\ (x.fill \in Repeatable' \/ GoneUnsaved(x.fill)')
    <3>1. /\ x \in stray /\ x # r
          /\ x.id = 0 /\ x.fill \in 1..fill /\ (x.fill \in Repeatable \/ GoneUnsaved(x.fill))
      BY <1>1, <2>4 DEF FormsCounted
    <3>2. x.fill # q.fill
      <4>1. x \in Stray /\ r \in Stray
        BY <3>1 DEF TypeOK
      <4> QED
        BY <1>5, <2>1, <2>2, <2>4, <3>1, <4>1 DEF Stray
    <3>3. GoneUnsaved(x.fill) => GoneUnsaved(x.fill)'
      BY <1>1, <1>2, <2>1, <3>2 DEF GoneUnsaved, SameStage, Keeps
    <3> QED
      BY <1>1, <3>1, <3>3
  <2>5. ASSUME NEW x \in rows', x.fill = fill', fill' \notin Repeatable', screen' # "away"
        PROVE  \E k \in Job : job'[k].stage \in Saved /\ job'[k].fill = fill'
    <3>1. x \in rows
      BY <1>1, <2>1, <2>2, <2>5 DEF GoneUnsaved
    <3> QED
      BY <1>1, <1>2, <2>5, <3>1 DEF FormsCounted, SameStage, Keeps
  <2>6. ASSUME NEW i \in Job, job'[i].stage = "create", job'[i].fill \notin Repeatable'
        PROVE  /\ \A x \in rows' : x.fill # job'[i].fill
               /\ \A k \in Job \ {i} : job'[k].fill # job'[i].fill
    <3>1. job[i].stage = "create" /\ job'[i].fill = job[i].fill
      BY <1>2, <2>6 DEF SameStage, Keeps
    <3>2. /\ \A x \in rows : x.fill # job[i].fill
          /\ \A k \in Job \ {i} : job[k].fill # job[i].fill
      BY <1>1, <2>6, <3>1 DEF FormsCounted
    <3>3. job[i].fill # q.fill
      BY <1>1, <2>2, <2>6, <3>1 DEF GoneUnsaved
    <3> QED
      BY <1>1, <1>2, <2>1, <3>1, <3>2, <3>3 DEF SameStage, Keeps
  <2>7. OnePerForm'
    BY <1>1, <2>1, <2>2 DEF FormsCounted, OnePerForm, GoneUnsaved, Repeatable
  <2> QED
    BY <1>3, <2>3, <2>4, <2>5, <2>6, <2>7 DEF FormsCounted
<1> QED
  BY <1>4, <1>5, ServeStrayIs

LEMMA CountedStep ==
    ASSUME TypeOK, TypeOK', Roles, Roles', FormsCounted, ListKnown, Next
    PROVE  FormsCounted'
BY StepCounted, SaveCounted, ServeCounted, StrayCounted
-----------------------------------------------------------------------------
(* The list                                                                *)

LEMMA InitKnown == Init => ListKnown
<1>1. Idle.stage = "idle"
  BY IdleIs
<1>2. Init => \A j \in Job : job[j].stage = "idle"
  BY <1>1 DEF Init
<1> QED
  BY <1>2 DEF Init, ListKnown

\* Steps that leave the goroutines and the rows alone.
LEMMA QuietKnown ==
    ASSUME ListKnown, UNCHANGED <<job, rows>>,
           screen' \in {"away", "loading", "loaded", "failed"} =>
              asking' = 0 /\ screen \in {"away", "loading", "loaded", "failed"},
           screen' \in {"loaded", "ready"} /\ ~doubt' =>
              \/ items' = rows
              \/ screen \in {"loaded", "ready"} /\ ~doubt /\ UNCHANGED items
    PROVE  ListKnown'
BY DEF ListKnown

LEMMA ScreenKnown ==
    ASSUME TypeOK, ListKnown,
           FormSteps \/ Enter \/ LoadRead \/ LoadEnd \/ (\E r \in items : AskDelete(r))
           \/ DeclineDelete
    PROVE  ListKnown'
<1>1. CASE FormSteps
  BY <1>1, FormStepOnly, QuietKnown DEF FormOnly, server, ListKnown
<1>2. CASE Enter
  BY <1>2, QuietKnown DEF Enter, server, ListKnown
<1>3. CASE LoadRead
  BY <1>3, QuietKnown DEF LoadRead, server, ListKnown
<1>4. CASE LoadEnd
  BY <1>4, QuietKnown DEF LoadEnd, server, ListKnown
<1>5. CASE (\E r \in items : AskDelete(r)) \/ DeclineDelete
  BY <1>5, QuietKnown DEF AskDelete, DeclineDelete, Clickable, server, ListKnown
<1> QED
  BY <1>1, <1>2, <1>3, <1>4, <1>5

LEMMA LeaveKnown ==
    ASSUME TypeOK, ListKnown, Leave
    PROVE  ListKnown'
<1>1. \A k \in Job : job'[k].stage = "idle"
  BY IdleIs DEF Leave
<1>2. screen' = "away" /\ asking' = 0
  BY DEF Leave, Clickable, ListKnown
<1> QED
  BY <1>1, <1>2 DEF ListKnown

LEMMA StartKnown ==
    ASSUME TypeOK, FormsCounted, ListKnown, NEW j \in Job,
           SaveDraft(j) \/ ConfirmDelete(j)
    PROVE  ListKnown'
<1>1. /\ job[j].stage = "idle" /\ job'[j].stage \in {"create", "delete"}
      /\ job'[j].alone = Alone
      /\ \A k \in Job \ {j} : SameStage(k) /\ job'[k].alone = FALSE
  BY StartsAs
<1>2. UNCHANGED <<screen, rows, items, doubt>>
  BY DEF SaveDraft, ConfirmDelete, server
<1>3. screen \in {"ready", "locked"}
  BY DEF SaveDraft, ConfirmDelete, Clickable, ListKnown, TypeOK
<1>4. Alone => \A k \in Job : job[k].stage = "idle"
  BY DEF Alone, Busy
<1>5. ASSUME NEW i \in Job, job'[i].stage # "idle", job'[i].alone
      PROVE  \A k \in Job \ {i} : job'[k].stage = "idle"
  BY <1>1, <1>4, <1>5 DEF SameStage
<1>6. ASSUME NEW i \in Job, job'[i].stage = "reloaded", job'[i].alone
      PROVE  job'[i].answer = rows'
  BY <1>1, <1>6
<1>7. ASSUME screen' \in {"loaded", "ready"}, ~doubt',
             \A k \in Job : job'[k].stage \notin Behind
      PROVE  items' = rows'
  <2>1. \A k \in Job : job[k].stage \notin Behind
    BY <1>1, <1>7 DEF SameStage, Behind
  <2> QED
    BY <1>2, <1>7, <2>1 DEF ListKnown
<1> QED
  BY <1>2, <1>3, <1>5, <1>6, <1>7 DEF ListKnown

LEMMA ServeKnown ==
    ASSUME TypeOK, ListKnown, NEW j \in Job, Serve(j)
    PROVE  ListKnown'
<1>1. /\ job[j].stage # "idle" /\ job'[j].stage # "idle"
      /\ job'[j].alone = job[j].alone
      /\ job'[j].stage = "reloaded" => job'[j].answer = rows'
      /\ \A k \in Job \ {j} : job'[k] = job[k]
      /\ job[j].stage \in Behind => job'[j].stage \in Behind
      /\ rows' # rows => job'[j].stage \in Behind
  <2> USE TypesSplit
  <2>1. CASE job[j].stage = "create"
             /\ ((Create(job[j].fill) /\ To(j, "created")) \/ (To(j, "refused") /\ UNCHANGED server))
    <3>1. CASE To(j, "created")
      BY <2>1, <3>1, ToIs DEF JobStage, Behind, server
    <3>2. CASE To(j, "refused") /\ UNCHANGED server
      BY <2>1, <3>2, ToIs DEF JobStage, Behind, server
    <3> QED
      BY <2>1, <3>1, <3>2
  <2>2. CASE job[j].stage = "delete"
             /\ (To(j, IF rows' = rows THEN "missing" ELSE "deleted")
                   \/ (To(j, "missing") /\ UNCHANGED rows))
    <3>1. CASE rows' = rows /\ To(j, "missing")
      BY <2>2, <3>1, ToIs DEF JobStage, Behind
    <3>2. CASE rows' # rows /\ To(j, "deleted")
      BY <2>2, <3>2, ToIs DEF JobStage, Behind
    <3> QED
      BY <2>2, <3>1, <3>2
  <2>3. CASE job[j].stage = "reload"
             /\ job' = [job EXCEPT ![j].stage = "reloaded", ![j].answer = rows]
             /\ UNCHANGED server
    BY <2>3, AnswerIs DEF Behind, server
  <2>4. \/ /\ job[j].stage = "create"
           /\ ((Create(job[j].fill) /\ To(j, "created")) \/ (To(j, "refused") /\ UNCHANGED server))
        \/ /\ job[j].stage = "delete"
           /\ (To(j, IF rows' = rows THEN "missing" ELSE "deleted")
                 \/ (To(j, "missing") /\ UNCHANGED rows))
        \/ /\ job[j].stage = "reload"
           /\ job' = [job EXCEPT ![j].stage = "reloaded", ![j].answer = rows]
           /\ UNCHANGED server
    BY Zenon DEF Serve
  <2> QED
    BY <2>1, <2>2, <2>3, <2>4, Zenon
<1>2. UNCHANGED <<screen, items, asking, doubt>>
  BY DEF Serve
<1>3. screen \notin {"away", "loading", "loaded", "failed"}
  BY <1>1 DEF ListKnown
<1>4. ASSUME NEW i \in Job, job'[i].stage # "idle", job'[i].alone
      PROVE  \A k \in Job \ {i} : job'[k].stage = "idle"
  BY <1>1, <1>4 DEF ListKnown
<1>5. ASSUME NEW i \in Job, job'[i].stage = "reloaded", job'[i].alone
      PROVE  job'[i].answer = rows'
  <2>1. CASE i = j
    BY <1>1, <1>5, <2>1
  <2>2. CASE i # j
    BY <1>1, <1>5, <2>2 DEF ListKnown
  <2> QED
    BY <2>1, <2>2
<1>6. ASSUME screen' \in {"loaded", "ready"}, ~doubt',
             \A k \in Job : job'[k].stage \notin Behind
      PROVE  items' = rows'
  BY <1>1, <1>2, <1>6 DEF ListKnown
<1> QED
  BY <1>2, <1>3, <1>4, <1>5, <1>6 DEF ListKnown

LEMMA AnsweredKnown ==
    ASSUME TypeOK, ListKnown, NEW j \in Job, Answered(j)
    PROVE  ListKnown'
<1>1. /\ job[j].stage \in {"created", "deleted"} /\ job'[j].stage = "reload"
      /\ job'[j].alone = job[j].alone
      /\ \A k \in Job \ {j} : job'[k] = job[k]
  BY ToIs, TypesSplit DEF Answered, JobStage
<1>2. UNCHANGED <<screen, items, asking, doubt, rows>>
  BY DEF Answered, server
<1> QED
  BY <1>1, <1>2 DEF ListKnown, Behind

LEMMA EndKnown ==
    ASSUME TypeOK, ListKnown, NEW j \in Job, Reloaded(j) \/ Fail(j)
    PROVE  ListKnown'
<1>1. /\ job[j].stage # "idle" /\ job'[j].stage = "idle"
      /\ \A k \in Job \ {j} : job'[k] = job[k]
  BY StopIs, TypesSplit DEF Reloaded, Fail
<1>2. UNCHANGED <<asking, rows>> /\ screen' \in {screen, "locked"}
  BY DEF Reloaded, Fail, server
<1>3. screen \notin {"away", "loading", "loaded", "failed"}
  BY <1>1 DEF ListKnown
<1>4. ASSUME NEW i \in Job, job'[i].stage # "idle", job'[i].alone
      PROVE  /\ \A k \in Job \ {i} : job'[k].stage = "idle"
             /\ job'[i].stage = "reloaded" => job'[i].answer = rows'
  BY <1>1, <1>2, <1>4 DEF ListKnown
<1>5. ASSUME screen' \in {"loaded", "ready"}, ~doubt',
             \A k \in Job : job'[k].stage \notin Behind
      PROVE  items' = rows'
  <2>1. CASE Reloaded(j)
    <3>1. job[j].alone /\ job[j].stage = "reloaded" /\ items' = job[j].answer
      BY <1>5, <2>1 DEF Reloaded
    <3> QED
      BY <1>2, <3>1 DEF ListKnown
  <2>2. CASE Fail(j)
    <3>1. job[j].stage \in {"refused", "missing"} /\ ~doubt /\ UNCHANGED items
      BY <1>5, <2>2 DEF Fail
    <3>2. \A k \in Job : job[k].stage \notin Behind
      BY <1>1, <1>5, <3>1 DEF Behind
    <3> QED
      BY <1>2, <1>5, <3>1, <3>2 DEF ListKnown
  <2> QED
    BY <2>1, <2>2
<1> QED
  BY <1>2, <1>3, <1>4, <1>5 DEF ListKnown

LEMMA StrayKnown ==
    ASSUME TypeOK, ListKnown, NEW r \in stray, ServeStray(r)
    PROVE  ListKnown'
<1>1. \A k \in Job : /\ job'[k].stage = job[k].stage
                     /\ job[k].stage # "idle" => job'[k].alone = FALSE
  BY ServeStrayIs
<1>2. UNCHANGED <<screen, asking>> /\ doubt'
  BY DEF ServeStray
<1> QED
  BY <1>1, <1>2 DEF ListKnown

LEMMA KnownStep ==
    ASSUME TypeOK, FormsCounted, ListKnown, Next
    PROVE  ListKnown'
BY ScreenKnown, LeaveKnown, StartKnown, ServeKnown, AnsweredKnown, EndKnown, StrayKnown
   DEF Next, FormSteps, JobStep
-----------------------------------------------------------------------------
(* Theorems                                                                *)

LEMMA NextTypes == ASSUME TypeOK, Next PROVE TypeOK'
BY FormStepTypes, ScreenStepTypes, StartTypes, JobStepTypes, ServeStrayIs
   DEF Next, FormSteps, ScreenStep

LEMMA InvStutter == IInv /\ UNCHANGED vars => IInv'
<1> SUFFICES ASSUME IInv, UNCHANGED vars PROVE IInv'
  OBVIOUS
<1> USE DEF vars
<1>1. TypeOK'
  BY DEF IInv, TypeOK
<1>2. FormRight' /\ Roles'
  BY DEF IInv, FormRight, PickedAsShown, Roles, Saves, Deletes
<1>3. FormsCounted' /\ ListKnown'
  BY DEF IInv, FormsCounted, GoneUnsaved, Repeatable, OnePerForm, ListKnown
<1> QED
  BY <1>1, <1>2, <1>3 DEF IInv

\* The inductive invariant holds in every reachable state.
THEOREM Invariance == Spec => []IInv
<1>1. Init => IInv
  BY InitTypes, InitFormRight, InitCounted, InitKnown DEF IInv
<1>2. ASSUME IInv, Next PROVE IInv'
  <2>1. TypeOK'
    BY <1>2, NextTypes DEF IInv
  <2>2. FormRight'
    BY <1>2, FormStepRight, OtherStepRight DEF IInv
  <2>3. Roles'
    BY <1>2, <2>1, RolesStep DEF IInv
  <2>4. FormsCounted' /\ ListKnown'
    BY <1>2, <2>1, <2>3, CountedStep, KnownStep DEF IInv
  <2> QED
    BY <2>1, <2>2, <2>3, <2>4 DEF IInv
<1> QED
  BY <1>1, <1>2, InvStutter, PTL DEF Spec

\* Every variable keeps its type, for any number of goroutines, forms and rows.
THEOREM TypeCorrect == Spec => []TypeOK
<1>1. IInv => TypeOK
  BY DEF IInv
<1> QED
  BY <1>1, Invariance, PTL

\* Whatever sources, providers and pairs there are, and whatever was chosen or
\* cleared before, Save sends a source that is among the directions shown and of
\* the provider shown.
THEOREM SavedIsShown == Spec => []PickedAsShown
<1>1. IInv => PickedAsShown
  BY DEF IInv, FormRight
<1> QED
  BY <1>1, Invariance, PTL

\* A form makes one subscription, unless Save was pressed again while a save of it was
\* awaited, one was given up without an answer, or one was answered with 201 and the
\* reload of the list failed; any number of goroutines.  Leaving the screen while a
\* save is awaited is no exception.
THEOREM FormMakesOneRow == Spec => []OnePerForm
<1>1. IInv => OnePerForm
  BY DEF IInv, FormsCounted
<1> QED
  BY <1>1, Invariance, PTL

\* With nothing under way the list is the server's, unless two operations
\* overlapped, one failed half way, or the server got a request nobody waited for.
THEOREM QuietListIsFresh == Spec => []ListFresh
<1>1. IInv => ListFresh
  BY DEF IInv, ListKnown, ListFresh, Busy, Behind
<1> QED
  BY <1>1, Invariance, PTL
=============================================================================
