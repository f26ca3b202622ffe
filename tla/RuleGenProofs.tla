---------------------------- MODULE RuleGenProofs ----------------------------
(***************************************************************************)
(* Proofs about RuleGen for any number of sources, doctor processes and    *)
(* toggle requests: type correctness, that a field of a source is lost     *)
(* only to a writer with an old copy, that rules never go back to an older *)
(* layout otherwise, that attempts are counted as one sequence and the     *)
(* summary accounts for every source; and that the part of a page a model  *)
(* is shown keeps the rate table.                                          *)
(***************************************************************************)
EXTENDS RuleGen, FiniteSetTheorems, SequenceTheorems, WellFoundedInduction,
        NaturalsInduction, TLAPS

Holding == {"fetch", "ask", "persist"}

\* The types, by who writes the variables.
TableTypes ==
    /\ rows \in [Seeded -> Row]
    /\ asked \in [Seeded -> [active : BOOLEAN, rules : Layout]]
    /\ stale \in [Seeded -> SUBSET {"active", "rules"}]
GenerateTypes ==
    /\ name \in [Doctor -> Source]
    /\ copy \in [Doctor -> Row]
    /\ body \in [Doctor -> Layout] /\ chain \in [Doctor -> Layout]
    /\ prim \in [Doctor -> 0..MaxPrimary] /\ fall \in [Doctor -> 0..MaxFallback]
    /\ transcript \in [Doctor -> Seq(1..(MaxPrimary + MaxFallback))]
CommandTypes ==
    /\ pc \in [Doctor -> Stage]
    /\ all \in [Doctor -> BOOLEAN] /\ forced \in [Doctor -> BOOLEAN]
    /\ todo \in [Doctor -> SUBSET Seeded] /\ off \in [Doctor -> SUBSET Seeded]
    /\ tally \in [Doctor -> Tally]
    /\ exit \in [Doctor -> {"none", "0", "1", "2", "3"}]
    /\ wrote \in [Doctor -> SUBSET Seeded]
OtherTypes ==
    /\ page \in [Seeded -> Layout]
    /\ toggle \in [Admin -> Toggle \cup {NoToggle}]
    /\ runs \in Nat /\ toggles \in Nat

LEMMA TypesSplit == TypeOK <=> TableTypes /\ GenerateTypes /\ CommandTypes /\ OtherTypes
BY DEF TypeOK, TableTypes, GenerateTypes, CommandTypes, OtherTypes

LEMMA NoRowTyped == NoRow \in Row
<1>1. 0 \in Layout /\ 0 \in 0..(MaxPrimary + MaxFallback)
  BY RuleGenAssumption DEF RuleGenAssumption, Layout
<1>2. "" \in Kind /\ FALSE \in BOOLEAN /\ 0 \in Nat
  BY DEF Kind
<1> QED
  BY <1>1, <1>2 DEF NoRow, Row

LEMMA TypesJoin ==
    ASSUME TableTypes', GenerateTypes', CommandTypes', OtherTypes'
    PROVE  TypeOK'
BY DEF TypeOK, TableTypes, GenerateTypes, CommandTypes, OtherTypes

\* A process without a source in hand, and one that has just been given one.
LEMMA ForgetTypes ==
    ASSUME NEW d \in Doctor, GenerateTypes, Forget(d)
    PROVE  GenerateTypes'
<1>1. 1 \in Source /\ 0 \in Layout /\ NoRow \in Row
  BY NoRowTyped, RuleGenAssumption DEF RuleGenAssumption, Source, Layout
<1>2. 0 \in 0..MaxPrimary /\ 0 \in 0..MaxFallback
  BY RuleGenAssumption DEF RuleGenAssumption
<1>3. <<>> \in Seq(1..(MaxPrimary + MaxFallback))
  OBVIOUS
<1> QED
  BY <1>1, <1>2, <1>3 DEF GenerateTypes, Forget

LEMMA QuitTypes ==
    ASSUME NEW d \in Doctor, NEW code \in {"none", "0", "1", "2", "3"},
           GenerateTypes, CommandTypes, Quit(d, code),
           UNCHANGED <<all, forced>>, wrote' \in [Doctor -> SUBSET Seeded]
    PROVE  GenerateTypes' /\ CommandTypes'
<1>1. GenerateTypes'
  BY ForgetTypes DEF Quit
<1>2. Zero \in Tally /\ "idle" \in Stage
  BY DEF Zero, Tally, Stage
<1>3. CommandTypes'
  BY <1>2 DEF CommandTypes, Quit, Goto
<1> QED
  BY <1>1, <1>3

LEMMA CountedTypes ==
    ASSUME NEW t \in Tally, NEW ok \in BOOLEAN
    PROVE  Counted(t, ok) \in Tally
BY DEF Counted, Tally

LEMMA ReturnedTypes ==
    ASSUME NEW d \in Doctor, NEW ok \in BOOLEAN, NEW code \in {"0", "1", "2"},
           GenerateTypes, CommandTypes, Returned(d, ok, code),
           UNCHANGED <<all, forced>>, wrote' \in [Doctor -> SUBSET Seeded]
    PROVE  GenerateTypes' /\ CommandTypes'
<1>1. CASE all[d] /\ tally' = [tally EXCEPT ![d] = Counted(@, ok)]
           /\ Goto(d, "next") /\ Forget(d) /\ UNCHANGED <<todo, off, exit>>
  <2>1. GenerateTypes'
    BY <1>1, ForgetTypes
  <2>2. Counted(tally[d], ok) \in Tally
    BY CountedTypes DEF CommandTypes
  <2>3. CommandTypes'
    BY <1>1, <2>2 DEF CommandTypes, Goto, Stage
  <2> QED
    BY <2>1, <2>3
<1>2. CASE Quit(d, code)
  BY <1>2, QuitTypes
<1> QED
  BY <1>1, <1>2 DEF Returned
-----------------------------------------------------------------------------
(* Types, action by action                                                 *)

LEMMA TypesInit == Init => TypeOK
<1> SUFFICES ASSUME Init PROVE TypeOK
  OBVIOUS
<1>1. TableTypes
  <2>1. PICK kind \in Kinds :
          rows = [s \in Seeded |-> [NoRow EXCEPT !.active = TRUE, !.kind = kind[s]]]
    BY DEF Init
  <2>2. ASSUME NEW s \in Seeded PROVE rows[s] \in Row
    <3>1. kind[s] \in Kind
      BY <2>1, RuleGenAssumption DEF RuleGenAssumption
    <3>2. rows[s] = [active |-> TRUE, kind |-> kind[s], rules |-> 0, used |-> 0, ver |-> 0]
      BY <2>1 DEF NoRow
    <3>3. 0 \in Layout /\ 0 \in 0..(MaxPrimary + MaxFallback)
      BY RuleGenAssumption DEF RuleGenAssumption, Layout
    <3> QED
      BY <3>1, <3>2, <3>3 DEF Row
  <2>3. rows \in [Seeded -> Row]
    BY <2>1, <2>2
  <2>4. 0 \in Layout
    BY RuleGenAssumption DEF RuleGenAssumption, Layout
  <2> QED
    BY <2>3, <2>4 DEF Init, TableTypes
<1>2. GenerateTypes
  <2>1. 1 \in Source /\ 0 \in Layout
    BY RuleGenAssumption DEF RuleGenAssumption, Source, Layout
  <2>2. 0 \in 0..MaxPrimary /\ 0 \in 0..MaxFallback
    BY RuleGenAssumption DEF RuleGenAssumption
  <2>3. <<>> \in Seq(1..(MaxPrimary + MaxFallback))
    OBVIOUS
  <2> QED
    BY <2>1, <2>2, <2>3, NoRowTyped DEF Init, GenerateTypes
<1>3. CommandTypes
  BY DEF Init, CommandTypes, Stage, Zero, Tally
<1>4. OtherTypes
  <2>1. 0 \in Layout
    BY RuleGenAssumption DEF RuleGenAssumption, Layout
  <2> QED
    BY <2>1 DEF Init, OtherTypes
<1> QED
  BY <1>1, <1>2, <1>3, <1>4, TypesSplit

LEMMA RetainTypes ==
    ASSUME NEW s \in Seeded, NEW row \in Row, TableTypes, RetainRateSource(s, row)
    PROVE  rows' \in [Seeded -> Row]
<1>1. rows[s].ver + 1 \in Nat
  BY DEF TableTypes, Row
<1>2. Canonical(row.kind) \in Kind
  BY DEF Canonical, Kind, Row
<1>3. [active |-> row.active, kind |-> Canonical(row.kind), rules |-> row.rules,
       used |-> row.used, ver |-> rows[s].ver + 1] \in Row
  BY <1>1, <1>2 DEF Row
<1> QED
  BY <1>3 DEF RetainRateSource, TableTypes

\* What a step of one process leaves alone.
LEMMA FrameTypes ==
    ASSUME TableTypes, OtherTypes, UNCHANGED <<page, runs, tableVars, adminVars>>
    PROVE  TableTypes' /\ OtherTypes'
BY DEF TableTypes, OtherTypes, tableVars, adminVars

LEMMA CommandStepTypes ==
    ASSUME TypeOK, NEW d \in Doctor, Command(d)
    PROVE  TypeOK'
<1> USE TypesSplit
<1>1. GenerateTypes'
  BY DEF Command, GenerateTypes
<1>2. CommandTypes'
  BY DEF Command, CommandTypes, Goto, Stage
<1>3. TableTypes' /\ OtherTypes'
  BY DEF Command, TableTypes, OtherTypes, tableVars, adminVars
<1> QED
  BY <1>1, <1>2, <1>3, TypesJoin

LEMMA AllStepTypes ==
    ASSUME TypeOK, NEW d \in Doctor, List(d) \/ VisitNext(d) \/ Summarise(d)
    PROVE  TypeOK'
<1> USE TypesSplit
<1>0. TableTypes' /\ OtherTypes'
  BY FrameTypes DEF List, VisitNext, Summarise
<1>w. wrote' \in [Doctor -> SUBSET Seeded] /\ UNCHANGED <<all, forced>>
  BY DEF List, VisitNext, Summarise, CommandTypes
<1>1. CASE List(d)
  <2>1. CASE Quit(d, "0")
    BY <2>1, <1>0, <1>w, QuitTypes, TypesJoin
  <2>2. CASE ~Quit(d, "0")
    <3>1. GenerateTypes'
      BY <1>1, <2>2 DEF List, GenerateTypes
    <3>2. CommandTypes'
      BY <1>1, <2>2 DEF List, CommandTypes, Goto, Stage, Inactive
    <3> QED
      BY <3>1, <3>2, <1>0, TypesJoin
  <2> QED
    BY <2>1, <2>2
<1>2. CASE VisitNext(d)
  <2>1. PICK s \in todo[d] :
          /\ todo' = [todo EXCEPT ![d] = @ \ {s}]
          /\ \/ /\ s \in off[d]
                /\ tally' = [tally EXCEPT ![d].skipped = @ + 1]
                /\ UNCHANGED <<pc, name>>
             \/ /\ s \notin off[d]
                /\ name' = [name EXCEPT ![d] = s]
                /\ Goto(d, "load")
                /\ UNCHANGED tally
    BY <1>2 DEF VisitNext
  <2>2. s \in Source
    BY RuleGenAssumption DEF RuleGenAssumption, CommandTypes
  <2>3. GenerateTypes'
    <3>1. UNCHANGED <<copy, body, chain, prim, fall, transcript>>
      BY <1>2 DEF VisitNext
    <3>2. name' \in [Doctor -> Source]
      BY <2>1, <2>2 DEF GenerateTypes
    <3> QED
      BY <3>1, <3>2 DEF GenerateTypes
  <2>4. tally' \in [Doctor -> Tally]
    <3>1. tally \in [Doctor -> Tally] /\ tally[d] \in Tally
      BY DEF CommandTypes
    <3>2. [tally[d] EXCEPT !.skipped = @ + 1] \in Tally
      BY <3>1 DEF Tally
    <3>3. \/ tally' = tally
          \/ tally' = [tally EXCEPT ![d] = [tally[d] EXCEPT !.skipped = @ + 1]]
      BY <2>1
    <3> QED
      BY <3>1, <3>2, <3>3
  <2>5. pc' \in [Doctor -> Stage]
    BY <2>1 DEF CommandTypes, Goto, Stage
  <2>6. CommandTypes'
    BY <1>2, <2>1, <2>4, <2>5, <1>w DEF VisitNext, CommandTypes
  <2> QED
    BY <2>3, <2>6, <1>0, TypesJoin
<1>3. CASE Summarise(d)
  BY <1>3, <1>0, <1>w, QuitTypes, TypesJoin DEF Summarise
<1> QED
  BY <1>1, <1>2, <1>3

LEMMA ReadStepTypes ==
    ASSUME TypeOK, NEW d \in Doctor, pc[d] \in Holding => name[d] \in Seeded,
           Load(d) \/ Fetch(d)
    PROVE  TypeOK'
<1> USE TypesSplit
<1>0. TableTypes' /\ OtherTypes'
  BY FrameTypes DEF Load, Fetch
<1>w. wrote' \in [Doctor -> SUBSET Seeded] /\ UNCHANGED <<all, forced>>
  BY DEF Load, Fetch, CommandTypes
<1>1. ASSUME NEW code \in {"0", "1", "2"}, Returned(d, FALSE, code)
      PROVE  TypeOK'
  BY <1>1, <1>0, <1>w, ReturnedTypes, TypesJoin
<1>2. CASE Load(d)
  <2>1. Unusable(name[d]) \in {"0", "1", "2"}
    BY DEF Unusable
  <2>2. CASE /\ copy' = [copy EXCEPT ![d] = ObtainRateSourceByName(name[d])]
             /\ Goto(d, "fetch")
             /\ UNCHANGED <<todo, off, tally, name, body, chain, prim, fall,
                            transcript, exit>>
    <3>1. ObtainRateSourceByName(name[d]) \in Row
      BY NoRowTyped DEF ObtainRateSourceByName, TableTypes
    <3>2. GenerateTypes'
      BY <2>2, <3>1 DEF GenerateTypes
    <3>3. CommandTypes'
      BY <2>2, <1>w DEF CommandTypes, Goto, Stage
    <3> QED
      BY <3>2, <3>3, <1>0, TypesJoin
  <2> QED
    BY <1>1, <1>2, <2>1, <2>2 DEF Load
<1>3. CASE Fetch(d)
  <2>1. CASE /\ body' = [body EXCEPT ![d] = Served(name[d])]
             /\ Goto(d, "ask")
             /\ UNCHANGED <<todo, off, tally, name, copy, chain, prim, fall,
                            transcript, exit>>
    <3>1. Served(name[d]) \in Layout
      BY <1>3 DEF Fetch, Served, Holding, OtherTypes
    <3>2. GenerateTypes'
      BY <2>1, <3>1 DEF GenerateTypes
    <3>3. CommandTypes'
      BY <2>1, <1>w DEF CommandTypes, Goto, Stage
    <3> QED
      BY <3>2, <3>3, <1>0, TypesJoin
  <2> QED
    BY <1>1, <1>3, <2>1 DEF Fetch
<1> QED
  BY <1>2, <1>3

LEMMA AskStepTypes ==
    ASSUME TypeOK, NEW d \in Doctor, AskPrimary(d) \/ AskFallback(d)
    PROVE  TypeOK'
<1> USE TypesSplit, RuleGenAssumption DEF RuleGenAssumption
<1>0. TableTypes' /\ OtherTypes'
  BY FrameTypes DEF AskPrimary, AskFallback
<1>1. prim[d] \in 0..MaxPrimary /\ fall[d] \in 0..MaxFallback /\ body[d] \in Layout
  BY DEF GenerateTypes
<1>2. ASSUME NEW c, NEW number \in 1..(MaxPrimary + MaxFallback),
             Accept(d, c) \/ Reject(d, c, number)
      PROVE  /\ pc' \in [Doctor -> Stage] /\ chain' \in [Doctor -> Layout]
             /\ transcript' \in [Doctor -> Seq(1..(MaxPrimary + MaxFallback))]
  <2>1. CASE Accept(d, c)
    BY <1>1, <2>1 DEF Accept, Executes, Goto, Stage, CommandTypes, GenerateTypes
  <2>2. CASE Reject(d, c, number)
    <3>1. Append(transcript[d], number) \in Seq(1..(MaxPrimary + MaxFallback))
      BY DEF GenerateTypes
    <3> QED
      BY <2>2, <3>1 DEF Reject, CommandTypes, GenerateTypes
  <2> QED
    BY <1>2, <2>1, <2>2
<1>3. CASE AskPrimary(d)
  <2>1. prim[d] + 1 \in 0..MaxPrimary /\ prim[d] + 1 \in 1..(MaxPrimary + MaxFallback)
    BY <1>1, <1>3 DEF AskPrimary, InPrimary
  <2>2. /\ pc' \in [Doctor -> Stage] /\ chain' \in [Doctor -> Layout]
        /\ transcript' \in [Doctor -> Seq(1..(MaxPrimary + MaxFallback))]
    BY <1>2, <1>3, <2>1 DEF AskPrimary
  <2>3. prim' \in [Doctor -> 0..MaxPrimary]
    BY <1>3, <2>1 DEF AskPrimary, GenerateTypes
  <2>4. GenerateTypes'
    BY <1>3, <2>2, <2>3 DEF AskPrimary, GenerateTypes
  <2>5. CommandTypes'
    BY <1>3, <2>2 DEF AskPrimary, CommandTypes
  <2> QED
    BY <2>4, <2>5, <1>0, TypesJoin
<1>4. CASE AskFallback(d)
  <2>1. /\ fall[d] + 1 \in 0..MaxFallback
        /\ FallbackNumber(d) \in 1..(MaxPrimary + MaxFallback)
    BY <1>1, <1>4 DEF AskFallback, FallbackNumber, AttemptCount
  <2>2. /\ pc' \in [Doctor -> Stage] /\ chain' \in [Doctor -> Layout]
        /\ transcript' \in [Doctor -> Seq(1..(MaxPrimary + MaxFallback))]
    BY <1>2, <1>4, <2>1 DEF AskFallback
  <2>3. fall' \in [Doctor -> 0..MaxFallback]
    BY <1>4, <2>1 DEF AskFallback, GenerateTypes
  <2>4. GenerateTypes'
    BY <1>4, <2>2, <2>3 DEF AskFallback, GenerateTypes
  <2>5. CommandTypes'
    BY <1>4, <2>2 DEF AskFallback, CommandTypes
  <2> QED
    BY <2>4, <2>5, <1>0, TypesJoin
<1> QED
  BY <1>3, <1>4

LEMMA EndStepTypes ==
    ASSUME TypeOK, NEW d \in Doctor, Exhausted(d) \/ Panic(d) \/ Crash(d)
    PROVE  TypeOK'
<1> USE TypesSplit
<1>0. TableTypes' /\ OtherTypes'
  BY FrameTypes DEF Exhausted, Panic, Crash
<1>w. wrote' \in [Doctor -> SUBSET Seeded] /\ UNCHANGED <<all, forced>>
  BY DEF Exhausted, Panic, Crash, CommandTypes
<1>1. CASE Crash(d)
  BY <1>1, <1>0, <1>w, QuitTypes, TypesJoin DEF Crash
<1>2. CASE Exhausted(d) \/ Panic(d)
  <2>1. PICK code \in {"0", "1", "2"} : Returned(d, FALSE, code)
    BY <1>2 DEF Exhausted, Panic
  <2> QED
    BY <2>1, <1>0, <1>w, ReturnedTypes, TypesJoin
<1> QED
  BY <1>1, <1>2

\* The row a generation writes.
LEMMA GeneratedIs ==
    ASSUME TypeOK, NEW d \in Doctor
    PROVE  /\ Generated(d) \in Row
           /\ Generated(d).active = copy[d].active
           /\ Generated(d).rules = chain[d]
<1>1. copy[d] \in Row /\ chain[d] \in Layout
  BY DEF TypeOK
<1>2. AttemptCount(d) \in 0..(MaxPrimary + MaxFallback)
  BY RuleGenAssumption DEF RuleGenAssumption, TypeOK, AttemptCount
<1>3. PICK row \in Row : row = copy[d]
  BY <1>1
<1>4. Generated(d) = [[row EXCEPT !.rules = chain[d]] EXCEPT !.used = AttemptCount(d)]
  BY <1>3 DEF Generated
<1>5. [row EXCEPT !.rules = chain[d]] \in Row
  BY <1>1 DEF Row
<1> QED
  BY <1>2, <1>3, <1>4, <1>5 DEF Row

LEMMA PersistStepTypes ==
    ASSUME TypeOK, NEW d \in Doctor, name[d] \in Seeded, Persist(d)
    PROVE  TypeOK'
<1> USE TypesSplit
<1>1. OtherTypes' /\ UNCHANGED <<all, forced>>
  BY DEF Persist, OtherTypes, adminVars
<1>2. PICK ok \in BOOLEAN, code \in {"0", "1", "2"} : Returned(d, ok, code)
  BY DEF Persist
<1>3. wrote' \in [Doctor -> SUBSET Seeded]
  <2>1. wrote' = wrote \/ wrote' = [wrote EXCEPT ![d] = @ \cup {name[d]}]
    BY DEF Persist
  <2> QED
    BY <2>1 DEF CommandTypes
<1>4. GenerateTypes' /\ CommandTypes'
  BY <1>1, <1>2, <1>3, ReturnedTypes
<1>5. TableTypes'
  <2>1. CASE UNCHANGED tableVars
    BY <2>1 DEF tableVars, TableTypes
  <2>2. CASE /\ RetainRateSource(name[d], Generated(d))
             /\ asked' = [asked EXCEPT ![name[d]].rules = chain[d]]
             /\ stale' = [stale EXCEPT ![name[d]] =
                   (@ \ {"rules"}) \cup Rewritten(name[d], "active", copy[d])]
    <3>1. rows' \in [Seeded -> Row]
      BY <2>2, GeneratedIs, RetainTypes
    <3>2. asked' \in [Seeded -> [active : BOOLEAN, rules : Layout]]
      BY <2>2 DEF TableTypes, GenerateTypes
    <3>3. Rewritten(name[d], "active", copy[d]) \subseteq {"active"}
      BY DEF Rewritten
    <3>4. stale' \in [Seeded -> SUBSET {"active", "rules"}]
      BY <2>2, <3>3 DEF TableTypes
    <3> QED
      BY <3>1, <3>2, <3>4 DEF TableTypes
  <2> QED
    BY <2>1, <2>2 DEF Persist
<1> QED
  BY <1>1, <1>4, <1>5, TypesJoin

\* The row a toggle writes.
LEMMA ToggledIs ==
    ASSUME NEW t \in Toggle
    PROVE  /\ [t.copy EXCEPT !.active = t.active] \in Row
           /\ [t.copy EXCEPT !.active = t.active].active = t.active
           /\ [t.copy EXCEPT !.active = t.active].rules = t.copy.rules
BY DEF Toggle, Row

LEMMA AdminStepTypes ==
    ASSUME TypeOK, NEW a \in Admin, ToggleRead(a) \/ ToggleWrite(a)
    PROVE  TypeOK'
<1> USE TypesSplit
<1>1. GenerateTypes' /\ CommandTypes'
  BY DEF ToggleRead, ToggleWrite, GenerateTypes, CommandTypes, doctorVars
<1>2. CASE ToggleRead(a)
  <2>1. ASSUME NEW s \in Seeded, NEW want \in BOOLEAN
        PROVE  [source |-> s, active |-> want, copy |-> ObtainRateSourceByName(s)]
                  \in Toggle
    BY DEF ObtainRateSourceByName, Toggle, TableTypes
  <2>2. toggle' \in [Admin -> Toggle \cup {NoToggle}]
    BY <1>2, <2>1 DEF ToggleRead, OtherTypes
  <2>3. OtherTypes'
    BY <1>2, <2>2 DEF ToggleRead, OtherTypes
  <2>4. TableTypes'
    BY <1>2 DEF ToggleRead, TableTypes, tableVars
  <2> QED
    BY <1>1, <2>3, <2>4, TypesJoin
<1>3. CASE ToggleWrite(a)
  <2>1. OtherTypes'
    BY <1>3 DEF ToggleWrite, OtherTypes
  <2>2. toggle[a] \in Toggle
    BY <1>3 DEF ToggleWrite, OtherTypes
  <2>3. TableTypes'
    <3> DEFINE t == toggle[a]
    <3>1. CASE UNCHANGED tableVars
      BY <3>1 DEF tableVars, TableTypes
    <3>2. CASE /\ RetainRateSource(t.source, [t.copy EXCEPT !.active = t.active])
               /\ asked' = [asked EXCEPT ![t.source].active = t.active]
               /\ stale' = [stale EXCEPT ![t.source] =
                     (@ \ {"active"}) \cup Rewritten(t.source, "rules", t.copy)]
      <4>1. t.source \in Seeded /\ t.active \in BOOLEAN
        BY <2>2 DEF Toggle
      <4>2. rows' \in [Seeded -> Row]
        BY <2>2, <3>2, <4>1, ToggledIs, RetainTypes
      <4>3. asked' \in [Seeded -> [active : BOOLEAN, rules : Layout]]
        BY <3>2, <4>1 DEF TableTypes
      <4>4. Rewritten(t.source, "rules", t.copy) \subseteq {"rules"}
        BY DEF Rewritten
      <4>5. stale' \in [Seeded -> SUBSET {"active", "rules"}]
        BY <3>2, <4>4 DEF TableTypes
      <4> QED
        BY <4>2, <4>3, <4>5 DEF TableTypes
    <3> QED
      BY <1>3, <3>1, <3>2 DEF ToggleWrite
  <2> QED
    BY <1>1, <2>1, <2>3, TypesJoin
<1> QED
  BY <1>2, <1>3

LEMMA RedesignTypes ==
    ASSUME TypeOK, NEW s \in Redesigned, Redesign(s)
    PROVE  TypeOK'
<1> USE TypesSplit
<1>1. GenerateTypes' /\ CommandTypes' /\ TableTypes'
  BY DEF Redesign, GenerateTypes, CommandTypes, TableTypes, doctorVars, tableVars
<1>2. s \in Seeded /\ page[s] \in Layout
  BY RuleGenAssumption DEF RuleGenAssumption, OtherTypes
<1>3. page[s] + 1 \in Layout
  BY <1>2, RuleGenAssumption DEF RuleGenAssumption, Redesign, Layout
<1>4. OtherTypes'
  BY <1>3 DEF Redesign, OtherTypes, adminVars
<1> QED
  BY <1>1, <1>4, TypesJoin
-----------------------------------------------------------------------------
(* The inductive invariant                                                 *)

\* A copy of a row is the row, or older than it.
Older(row, s) ==
    /\ row.ver <= rows[s].ver
    /\ row.ver = rows[s].ver => row.active = rows[s].active /\ row.rules = rows[s].rules

\* What a process holds of its source: a copy no newer than the row, a page no
\* newer than the site's and no older than the copy's rules.
InHand(d) ==
    /\ pc[d] \in Holding => /\ name[d] \in Seeded
                            /\ Older(copy[d], name[d])
                            /\ copy[d].rules <= page[name[d]]
    /\ pc[d] \in {"ask", "persist"} => /\ copy[d].rules <= body[d]
                                       /\ body[d] <= page[name[d]]
    /\ pc[d] = "persist" => chain[d] = body[d]

\* The attempts of a process: none unless it is asking or has just been answered.
Tries(d) ==
    /\ pc[d] \notin {"ask", "persist"} =>
          transcript[d] = <<>> /\ prim[d] = 0 /\ fall[d] = 0
    /\ \A i \in DOMAIN transcript[d] : transcript[d][i] = i
    /\ pc[d] = "ask" => Len(transcript[d]) = prim[d] + fall[d]
    /\ pc[d] = "persist" => Len(transcript[d]) + 1 = prim[d] + fall[d]
    /\ fall[d] > 0 /\ ~forced[d] => prim[d] = MaxPrimary

\* What a toggle request holds between its transactions.
Waiting(a) == toggle[a] # NoToggle =>
    /\ Older(toggle[a].copy, toggle[a].source)
    /\ toggle[a].copy.rules <= page[toggle[a].source]

NoneAhead == \A s \in Seeded : rows[s].rules <= page[s]

Held == /\ \A d \in Doctor : InHand(d)
        /\ \A a \in Admin : Waiting(a)
        /\ NoneAhead

IInv == TypeOK /\ Held /\ UndoneOnlyByRace /\ (\A d \in Doctor : Tries(d))

\* A step of process d leaves the other processes alone.
Alone(d) == \A e \in Doctor \ {d} :
    /\ pc'[e] = pc[e] /\ name'[e] = name[e] /\ copy'[e] = copy[e]
    /\ body'[e] = body[e] /\ chain'[e] = chain[e]
    /\ prim'[e] = prim[e] /\ fall'[e] = fall[e] /\ transcript'[e] = transcript[e]
    /\ forced'[e] = forced[e]

\* Pages and rows only move on.
Grows == \A s \in Seeded :
    /\ page[s] <= page'[s]
    /\ rows'[s] = rows[s] \/ rows'[s].ver = rows[s].ver + 1

\* A process whose generation has ended holds nothing.
Ended(d) ==
    /\ Alone(d)
    /\ pc'[d] \in {"idle", "next"}
    /\ prim'[d] = 0 /\ fall'[d] = 0 /\ transcript'[d] = <<>>

LEMMA QuitEnds ==
    ASSUME TypeOK, NEW d \in Doctor, NEW code, Quit(d, code), UNCHANGED forced
    PROVE  Ended(d)
BY DEF TypeOK, Quit, Goto, Forget, Ended, Alone

LEMMA ReturnedEnds ==
    ASSUME TypeOK, NEW d \in Doctor, NEW ok, NEW code, Returned(d, ok, code),
           UNCHANGED forced
    PROVE  Ended(d)
<1>1. CASE Goto(d, "next") /\ Forget(d)
  BY <1>1 DEF TypeOK, Goto, Forget, Ended, Alone
<1>2. CASE Quit(d, code)
  BY <1>2, QuitEnds
<1> QED
  BY <1>1, <1>2 DEF Returned

\* What each step of a process can come to: an end, or its own progress.
Progress(d) ==
    \/ Ended(d)
    \/ /\ Alone(d) /\ pc'[d] \in {"idle", "list", "next", "load"}
       /\ UNCHANGED <<prim, fall, transcript>>
       /\ pc[d] \notin {"ask", "persist"}
    \/ /\ Load(d) /\ pc'[d] = "fetch" /\ Unusable(name[d]) = "0"
       /\ copy' = [copy EXCEPT ![d] = ObtainRateSourceByName(name[d])]
       /\ Goto(d, "fetch")
       /\ UNCHANGED <<name, body, chain, prim, fall, transcript, forced>>
    \/ /\ Fetch(d)
       /\ body' = [body EXCEPT ![d] = Served(name[d])]
       /\ Goto(d, "ask")
       /\ UNCHANGED <<name, copy, chain, prim, fall, transcript, forced>>
    \/ AskPrimary(d) \/ AskFallback(d)

LEMMA StepsProgress ==
    ASSUME TypeOK, NEW d \in Doctor, Command(d) \/ DoctorStep(d) \/ Crash(d)
    PROVE  /\ Progress(d)
           /\ UNCHANGED <<page, toggle>>
           /\ ~Persist(d) => UNCHANGED tableVars
<1>1. UNCHANGED <<page, toggle>>
  BY DEF Command, DoctorStep, List, VisitNext, Summarise, Load, Fetch, AskPrimary,
         AskFallback, Exhausted, Persist, Panic, Crash, adminVars
<1>2. ~Persist(d) => UNCHANGED tableVars
  BY DEF Command, DoctorStep, List, VisitNext, Summarise, Load, Fetch, AskPrimary,
         AskFallback, Exhausted, Panic, Crash
<1>3. Progress(d)
  <2>1. CASE Command(d)
    BY <2>1 DEF Command, Goto, Alone, Progress, TypeOK
  <2>2. CASE List(d)
    <3>1. CASE Quit(d, "0")
      BY <2>2, <3>1, QuitEnds DEF List, Progress
    <3>2. CASE ~Quit(d, "0")
      BY <2>2, <3>2 DEF List, Goto, Alone, Progress, TypeOK
    <3> QED
      BY <3>1, <3>2
  <2>3. CASE VisitNext(d)
    BY <2>3 DEF VisitNext, Goto, Alone, Progress, TypeOK
  <2>4. CASE Summarise(d)
    BY <2>4, QuitEnds DEF Summarise, Progress
  <2>5. CASE Load(d)
    <3>1. CASE \E code : Returned(d, FALSE, code)
      BY <2>5, <3>1, ReturnedEnds DEF Load, Progress
    <3>2. CASE ~\E code : Returned(d, FALSE, code)
      BY <2>5, <3>2 DEF Load, Goto, Progress, TypeOK
    <3> QED
      BY <3>1, <3>2
  <2>6. CASE Fetch(d)
    <3>1. CASE Returned(d, FALSE, "1")
      BY <2>6, <3>1, ReturnedEnds DEF Fetch, Progress
    <3>2. CASE ~Returned(d, FALSE, "1")
      BY <2>6, <3>2 DEF Fetch, Progress
    <3> QED
      BY <3>1, <3>2
  <2>7. CASE AskPrimary(d) \/ AskFallback(d)
    BY <2>7 DEF Progress
  <2>8. CASE Exhausted(d) \/ Panic(d)
    BY <2>8, ReturnedEnds DEF Exhausted, Panic, Progress
  <2>9. CASE Persist(d)
    <3>1. PICK ok, code : Returned(d, ok, code)
      BY <2>9 DEF Persist
    <3>2. UNCHANGED forced
      BY <2>9 DEF Persist
    <3> QED
      BY <3>1, <3>2, ReturnedEnds DEF Progress
  <2>10. CASE Crash(d)
    BY <2>10, QuitEnds DEF Crash, Progress
  <2> QED
    BY <2>1, <2>2, <2>3, <2>4, <2>5, <2>6, <2>7, <2>8, <2>9, <2>10 DEF DoctorStep
<1> QED
  BY <1>1, <1>2, <1>3

LEMMA ProgressAlone ==
    ASSUME TypeOK, NEW d \in Doctor, Progress(d)
    PROVE  Alone(d)
<1>1. CASE AskPrimary(d) \/ AskFallback(d)
  BY <1>1 DEF AskPrimary, AskFallback, Accept, Reject, Goto, Alone, TypeOK
<1>2. CASE ~(AskPrimary(d) \/ AskFallback(d))
  BY <1>2 DEF Progress, Ended, Goto, Alone, TypeOK
<1> QED
  BY <1>1, <1>2

\* An answer that extracts the rate comes with the page's own chain.
LEMMA AnswerAccepted ==
    ASSUME TypeOK, NEW d \in Doctor, AskPrimary(d) \/ AskFallback(d)
    PROVE  /\ UNCHANGED <<name, copy, body>>
           /\ pc'[d] \in {"ask", "persist"}
           /\ pc'[d] = "persist" => chain'[d] = body[d]
BY DEF AskPrimary, AskFallback, Accept, Reject, Executes, Goto, TypeOK

\* An old copy stays one when rows move on.
LEMMA OlderKept ==
    ASSUME TypeOK, Grows, NEW s \in Seeded, NEW row \in Row, Older(row, s)
    PROVE  /\ row.ver <= rows'[s].ver
           /\ row.ver = rows'[s].ver =>
                 row.active = rows'[s].active /\ row.rules = rows'[s].rules
<1>1. row.ver \in Nat /\ rows[s].ver \in Nat
  BY DEF TypeOK, Row
<1> QED
  BY <1>1 DEF Older, Grows

LEMMA OthersHold ==
    ASSUME TypeOK, TypeOK', Held, Grows, NEW e \in Doctor,
           pc'[e] = pc[e], name'[e] = name[e], copy'[e] = copy[e],
           body'[e] = body[e], chain'[e] = chain[e]
    PROVE  InHand(e)'
<1>1. InHand(e) /\ copy[e] \in Row /\ copy[e].rules \in Nat /\ body[e] \in Nat
  BY DEF Held, TypeOK, Row, Layout
<1>2. \A s \in Seeded : page[s] \in Nat /\ page'[s] \in Nat /\ page[s] <= page'[s]
  BY DEF TypeOK, Layout, Grows
<1>3. pc[e] \in Holding => /\ name[e] \in Seeded
                           /\ Older(copy[e], name[e])'
                           /\ copy[e].rules <= page'[name[e]]
  <2> SUFFICES ASSUME pc[e] \in Holding
               PROVE  /\ name[e] \in Seeded /\ Older(copy[e], name[e])'
                      /\ copy[e].rules <= page'[name[e]]
    OBVIOUS
  <2>1. name[e] \in Seeded /\ Older(copy[e], name[e]) /\ copy[e].rules <= page[name[e]]
    BY <1>1 DEF InHand
  <2>2. Older(copy[e], name[e])'
    BY <1>1, <2>1, OlderKept DEF Older
  <2> QED
    BY <1>1, <1>2, <2>1, <2>2
<1>4. pc[e] \in {"ask", "persist"} =>
         copy[e].rules <= body[e] /\ body[e] <= page'[name[e]]
  BY <1>1, <1>2, <1>3 DEF InHand, Holding
<1> QED
  BY <1>1, <1>3, <1>4 DEF InHand

LEMMA WaitingKept ==
    ASSUME TypeOK, TypeOK', Held, Grows, NEW a \in Admin, toggle'[a] = toggle[a]
    PROVE  Waiting(a)'
<1> SUFFICES ASSUME toggle[a] # NoToggle
             PROVE  /\ Older(toggle[a].copy, toggle[a].source)'
                    /\ toggle[a].copy.rules <= page'[toggle[a].source]
  BY DEF Waiting
<1>1. toggle[a] \in Toggle /\ Waiting(a)
  BY DEF TypeOK, Held
<1>2. toggle[a].copy \in Row /\ toggle[a].source \in Seeded
      /\ toggle[a].copy.rules \in Nat
  BY <1>1 DEF Toggle, Row, Layout
<1>3. Older(toggle[a].copy, toggle[a].source)'
  BY <1>1, <1>2, OlderKept DEF Waiting, Older
<1>4. page[toggle[a].source] \in Nat /\ page'[toggle[a].source] \in Nat
      /\ page[toggle[a].source] <= page'[toggle[a].source]
  BY <1>2 DEF TypeOK, Layout, Grows
<1> QED
  BY <1>1, <1>2, <1>3, <1>4 DEF Waiting

\* A write that takes the row on: by a generation, or by a toggle.
LEMMA PersistWrites ==
    ASSUME TypeOK, Held, NEW d \in Doctor, Persist(d)
    PROVE  /\ Grows /\ NoneAhead'
           /\ UndoneOnlyByRace => UndoneOnlyByRace'
           /\ \A s \in Seeded : rows'[s].rules < rows[s].rules => stale'[s] # {}
<1> DEFINE s == name[d]
<1>1. s \in Seeded /\ UNCHANGED page
  BY DEF Persist, Held, InHand, Holding
<1>2. CASE UNCHANGED tableVars
  <2>1. UNCHANGED <<rows, asked, stale, page>>
    BY <1>1, <1>2 DEF tableVars
  <2>2. Grows
    BY <2>1 DEF Grows, TypeOK, Layout
  <2>3. NoneAhead'
    BY <2>1 DEF Held, NoneAhead
  <2>4. UndoneOnlyByRace => UndoneOnlyByRace'
    BY <2>1 DEF UndoneOnlyByRace
  <2>5. \A t \in Seeded : ~(rows'[t].rules < rows[t].rules)
    BY <2>1 DEF TypeOK, TableTypes, Layout, Row
  <2>6. QED BY <2>2, <2>3, <2>4, <2>5
<1>3. CASE /\ RetainRateSource(s, Generated(d))
           /\ asked' = [asked EXCEPT ![s].rules = chain[d]]
           /\ stale' = [stale EXCEPT ![s] =
                 (@ \ {"rules"}) \cup Rewritten(s, "active", copy[d])]
  <2>1. /\ rows'[s].active = copy[d].active /\ rows'[s].rules = chain[d]
        /\ rows'[s].ver = rows[s].ver + 1
        /\ \A x \in Seeded \ {s} : rows'[x] = rows[x]
    BY <1>1, <1>3, GeneratedIs DEF RetainRateSource, TypeOK
  <2>2. /\ asked'[s].rules = chain[d] /\ asked'[s].active = asked[s].active
        /\ \A x \in Seeded \ {s} : asked'[x] = asked[x]
    BY <1>1, <1>3 DEF TypeOK
  <2>3. /\ stale'[s] = (stale[s] \ {"rules"}) \cup Rewritten(s, "active", copy[d])
        /\ \A x \in Seeded \ {s} : stale'[x] = stale[x]
    BY <1>1, <1>3 DEF TypeOK
  <2>4. /\ Older(copy[d], s) /\ copy[d].rules <= body[d] /\ body[d] <= page[s]
        /\ chain[d] = body[d]
    BY DEF Persist, Held, InHand, Holding
  <2>5. /\ copy[d].ver # rows[s].ver => "active" \in stale'[s]
        /\ copy[d].ver = rows[s].ver =>
              /\ copy[d].active = rows[s].active /\ copy[d].rules = rows[s].rules
              /\ "active" \in stale[s] => "active" \in stale'[s]
    BY <2>3, <2>4 DEF Rewritten, Older
  <2>6. Grows
    BY <1>1, <2>1 DEF Grows, TypeOK, Layout
  <2>7. NoneAhead'
    BY <1>1, <2>1, <2>4 DEF NoneAhead, Held
  <2>8. UndoneOnlyByRace => UndoneOnlyByRace'
    <3> SUFFICES ASSUME UndoneOnlyByRace, NEW x \in Seeded
                 PROVE  /\ rows'[x].active # asked'[x].active => "active" \in stale'[x]
                        /\ rows'[x].rules # asked'[x].rules => "rules" \in stale'[x]
      BY DEF UndoneOnlyByRace
    <3>1. CASE x = s
      BY <3>1, <2>1, <2>2, <2>5, <1>1 DEF UndoneOnlyByRace
    <3>2. CASE x # s
      BY <3>2, <2>1, <2>2, <2>3 DEF UndoneOnlyByRace
    <3> QED
      BY <3>1, <3>2
  <2>9. ASSUME NEW x \in Seeded, rows'[x].rules < rows[x].rules
        PROVE  stale'[x] # {}
    <3>1. rows[x].rules \in Nat /\ copy[d].rules \in Nat /\ body[d] \in Nat
      BY DEF TypeOK, Row, Layout
    <3>2. x = s
      BY <2>1, <2>9, <3>1
    <3>3. copy[d].ver # rows[s].ver
      BY <2>1, <2>4, <2>5, <2>9, <3>1, <3>2
    <3> QED
      BY <2>5, <3>2, <3>3
  <2> QED
    BY <2>6, <2>7, <2>8, <2>9
<1>4. \/ /\ RetainRateSource(s, Generated(d))
         /\ asked' = [asked EXCEPT ![s].rules = chain[d]]
         /\ stale' = [stale EXCEPT ![s] =
               (@ \ {"rules"}) \cup Rewritten(s, "active", copy[d])]
      \/ UNCHANGED tableVars
  BY Zenon DEF Persist
<1> HIDE DEF s
<1> QED
  BY <1>2, <1>3, <1>4, Zenon

LEMMA ToggleWrites ==
    ASSUME TypeOK, Held, NEW a \in Admin, ToggleWrite(a)
    PROVE  /\ Grows /\ NoneAhead'
           /\ UndoneOnlyByRace => UndoneOnlyByRace'
           /\ \A s \in Seeded : rows'[s].rules < rows[s].rules => stale'[s] # {}
<1> DEFINE t == toggle[a]
           s == t.source
<1>1. t \in Toggle /\ Waiting(a) /\ UNCHANGED page
  BY DEF ToggleWrite, TypeOK, Held
<1>2. s \in Seeded /\ t.copy \in Row /\ t.active \in BOOLEAN
  BY <1>1 DEF Toggle
<1>3. CASE UNCHANGED tableVars
  BY <1>1, <1>3 DEF tableVars, Grows, Held, NoneAhead, UndoneOnlyByRace, TypeOK, Layout, Row
<1>4. CASE /\ RetainRateSource(s, [t.copy EXCEPT !.active = t.active])
           /\ asked' = [asked EXCEPT ![s].active = t.active]
           /\ stale' = [stale EXCEPT ![s] =
                 (@ \ {"active"}) \cup Rewritten(s, "rules", t.copy)]
  <2>1. /\ rows'[s].active = t.active /\ rows'[s].rules = t.copy.rules
        /\ rows'[s].ver = rows[s].ver + 1
        /\ \A x \in Seeded \ {s} : rows'[x] = rows[x]
    BY <1>1, <1>2, <1>4, ToggledIs DEF RetainRateSource, TypeOK
  <2>2. /\ asked'[s].active = t.active /\ asked'[s].rules = asked[s].rules
        /\ \A x \in Seeded \ {s} : asked'[x] = asked[x]
    BY <1>2, <1>4 DEF TypeOK
  <2>3. /\ stale'[s] = (stale[s] \ {"active"}) \cup Rewritten(s, "rules", t.copy)
        /\ \A x \in Seeded \ {s} : stale'[x] = stale[x]
    BY <1>2, <1>4 DEF TypeOK
  <2>4. Older(t.copy, s) /\ t.copy.rules <= page[s]
    BY <1>1 DEF Waiting, ToggleWrite
  <2>5. /\ t.copy.ver # rows[s].ver => "rules" \in stale'[s]
        /\ t.copy.ver = rows[s].ver =>
              /\ t.copy.rules = rows[s].rules
              /\ "rules" \in stale[s] => "rules" \in stale'[s]
    BY <2>3, <2>4 DEF Rewritten, Older
  <2>6. Grows
    BY <1>1, <2>1 DEF Grows, TypeOK, Layout
  <2>7. NoneAhead'
    BY <1>1, <2>1, <2>4 DEF NoneAhead, Held
  <2>8. UndoneOnlyByRace => UndoneOnlyByRace'
    <3> SUFFICES ASSUME UndoneOnlyByRace, NEW x \in Seeded
                 PROVE  /\ rows'[x].active # asked'[x].active => "active" \in stale'[x]
                        /\ rows'[x].rules # asked'[x].rules => "rules" \in stale'[x]
      BY DEF UndoneOnlyByRace
    <3>1. CASE x = s
      BY <3>1, <2>1, <2>2, <2>5, <1>2 DEF UndoneOnlyByRace
    <3>2. CASE x # s
      BY <3>2, <2>1, <2>2, <2>3 DEF UndoneOnlyByRace
    <3> QED
      BY <3>1, <3>2
  <2>9. ASSUME NEW x \in Seeded, rows'[x].rules < rows[x].rules
        PROVE  stale'[x] # {}
    <3>1. rows[x].rules \in Nat /\ t.copy.rules \in Nat
      BY <1>2 DEF TypeOK, Row, Layout
    <3>2. x = s
      BY <2>1, <2>9, <3>1
    <3>3. t.copy.ver # rows[s].ver
      BY <2>1, <2>5, <2>9, <3>1, <3>2
    <3> QED
      BY <2>5, <3>2, <3>3
  <2> QED
    BY <2>6, <2>7, <2>8, <2>9
<1> QED
  BY <1>3, <1>4 DEF ToggleWrite
-----------------------------------------------------------------------------
(* Every step keeps the invariant                                          *)

LEMMA ProcessTypes ==
    ASSUME TypeOK, Held, NEW d \in Doctor, Command(d) \/ DoctorStep(d) \/ Crash(d)
    PROVE  TypeOK'
<1>1. pc[d] \in Holding => name[d] \in Seeded
  BY DEF Held, InHand
<1>2. CASE Persist(d)
  BY <1>1, <1>2, PersistStepTypes DEF Persist, Holding
<1>3. CASE ~Persist(d)
  BY <1>1, <1>3, CommandStepTypes, AllStepTypes, ReadStepTypes, AskStepTypes, EndStepTypes
     DEF DoctorStep
<1> QED
  BY <1>2, <1>3

LEMMA ProcessHolds ==
    ASSUME TypeOK, TypeOK', Held, NEW d \in Doctor,
           Command(d) \/ DoctorStep(d) \/ Crash(d)
    PROVE  Held'
<1>1. Progress(d) /\ Alone(d) /\ UNCHANGED <<page, toggle>>
      /\ (~Persist(d) => UNCHANGED tableVars)
  BY StepsProgress, ProgressAlone
<1>2. Grows /\ NoneAhead'
  <2>1. CASE Persist(d)
    BY <2>1, PersistWrites
  <2>2. CASE UNCHANGED <<page, rows>>
    BY <2>2 DEF Grows, Held, NoneAhead, TypeOK, Layout
  <2> QED
    BY <1>1, <2>1, <2>2 DEF tableVars
<1>3. ASSUME NEW a \in Admin PROVE Waiting(a)'
  BY <1>1, <1>2, WaitingKept
<1>4. ASSUME NEW e \in Doctor, e # d PROVE InHand(e)'
  BY <1>1, <1>2, <1>4, OthersHold DEF Alone
<1>5. InHand(d)'
  <2>1. CASE pc'[d] \in {"idle", "list", "next", "load"}
    BY <2>1 DEF InHand, Holding
  <2>2. CASE /\ Load(d) /\ pc'[d] = "fetch" /\ Unusable(name[d]) = "0"
             /\ copy' = [copy EXCEPT ![d] = ObtainRateSourceByName(name[d])]
             /\ UNCHANGED name
    <3>1. name[d] \in Seeded
      BY <2>2 DEF Unusable
    <3>2. UNCHANGED <<rows, page>>
      BY <2>2, <1>1 DEF Load, tableVars
    <3>3. copy'[d] = rows[name[d]]
      BY <2>2, <3>1 DEF ObtainRateSourceByName, TypeOK
    <3>4. rows[name[d]].rules <= page[name[d]] /\ rows[name[d]].ver <= rows[name[d]].ver
      <4>1. rows[name[d]] \in Row
        BY <3>1 DEF TypeOK
      <4>2. rows[name[d]].ver \in Nat
        BY <4>1 DEF Row
      <4>3. rows[name[d]].rules <= page[name[d]]
        BY <3>1 DEF Held, NoneAhead
      <4> QED
        BY <4>2, <4>3
    <3> QED
      BY <2>2, <3>1, <3>2, <3>3, <3>4 DEF InHand, Older
  <2>3. CASE /\ Fetch(d)
             /\ body' = [body EXCEPT ![d] = Served(name[d])]
             /\ Goto(d, "ask")
             /\ UNCHANGED <<name, copy>>
    <3>1. UNCHANGED <<rows, page>>
      BY <2>3 DEF Fetch, tableVars
    <3>2. pc[d] = "fetch" /\ pc'[d] = "ask" /\ body'[d] = page[name[d]]
      BY <2>3 DEF Fetch, Goto, Served, TypeOK
    <3>3. InHand(d) /\ page[name[d]] \in Nat
      BY <3>2 DEF Held, InHand, Holding, TypeOK, Layout
    <3> QED
      BY <2>3, <3>1, <3>2, <3>3 DEF InHand, Older, Holding
  <2>4. CASE AskPrimary(d) \/ AskFallback(d)
    <3>1. UNCHANGED <<rows, page, name, copy, body>> /\ pc[d] = "ask"
      BY <2>4, AnswerAccepted DEF AskPrimary, AskFallback, tableVars
    <3>2. pc'[d] \in {"ask", "persist"} /\ (pc'[d] = "persist" => chain'[d] = body[d])
      BY <2>4, AnswerAccepted
    <3> QED
      BY <3>1, <3>2 DEF Held, InHand, Older, Holding
  <2> QED
    BY <1>1, <2>1, <2>2, <2>3, <2>4 DEF Progress, Ended
<1> QED
  BY <1>2, <1>3, <1>4, <1>5 DEF Held

LEMMA AdminHolds ==
    ASSUME TypeOK, TypeOK', Held, NEW a \in Admin, ToggleRead(a) \/ ToggleWrite(a)
    PROVE  Held'
<1>1. Grows /\ NoneAhead'
  <2>1. CASE ToggleWrite(a)
    BY <2>1, ToggleWrites
  <2>2. CASE ToggleRead(a)
    BY <2>2 DEF ToggleRead, tableVars, Grows, Held, NoneAhead, TypeOK, Layout
  <2> QED
    BY <2>1, <2>2
<1>2. ASSUME NEW d \in Doctor PROVE InHand(d)'
  BY <1>1, OthersHold DEF ToggleRead, ToggleWrite, doctorVars
<1>3. ASSUME NEW b \in Admin PROVE Waiting(b)'
  <2>1. CASE toggle'[b] = toggle[b]
    BY <1>1, <2>1, WaitingKept
  <2>2. CASE toggle'[b] # toggle[b] /\ toggle'[b] # NoToggle
    <3>1. PICK s \in Seeded, want \in BOOLEAN :
             toggle' = [toggle EXCEPT ![a] =
                [source |-> s, active |-> want, copy |-> ObtainRateSourceByName(s)]]
      BY <2>2 DEF ToggleRead, ToggleWrite, TypeOK
    <3>2. ToggleRead(a) /\ b = a
      BY <2>2, <3>1 DEF ToggleWrite, TypeOK
    <3>3. toggle'[b].copy = rows[s] /\ toggle'[b].source = s
      BY <3>1, <3>2 DEF ObtainRateSourceByName, TypeOK
    <3>4. UNCHANGED <<rows, page>>
      BY <3>2 DEF ToggleRead, tableVars
    <3>5. rows[s].ver <= rows[s].ver /\ rows[s].rules <= page[s]
      BY DEF TypeOK, Row, Held, NoneAhead
    <3> QED
      BY <3>3, <3>4, <3>5 DEF Waiting, Older
  <2>3. CASE toggle'[b] = NoToggle
    BY <2>3 DEF Waiting
  <2> QED
    BY <2>1, <2>2, <2>3
<1> QED
  BY <1>1, <1>2, <1>3 DEF Held

LEMMA RedesignHolds ==
    ASSUME TypeOK, TypeOK', Held, NEW s \in Redesigned, Redesign(s)
    PROVE  Held'
<1>1. Grows /\ NoneAhead'
  <2>1. UNCHANGED rows /\ page' = [page EXCEPT ![s] = @ + 1]
    BY DEF Redesign, tableVars
  <2>2. \A x \in Seeded : /\ page[x] \in Nat /\ rows[x].rules \in Nat
                          /\ rows[x].rules <= page[x] /\ page'[x] \in {page[x], page[x] + 1}
    BY <2>1 DEF TypeOK, Row, Layout, Held, NoneAhead
  <2> QED
    BY <2>1, <2>2 DEF Grows, NoneAhead
<1>2. ASSUME NEW d \in Doctor PROVE InHand(d)'
  BY <1>1, OthersHold DEF Redesign, doctorVars
<1>3. ASSUME NEW a \in Admin PROVE Waiting(a)'
  BY <1>1, WaitingKept DEF Redesign, adminVars
<1> QED
  BY <1>1, <1>2, <1>3 DEF Held

\* A failed attempt takes the next number of the transcript.
LEMMA AttemptCounted ==
    ASSUME TypeOK, NEW d \in Doctor, Tries(d), pc[d] = "ask", NEW c,
           Accept(d, c) \/ Reject(d, c, prim[d] + fall[d] + 1)
    PROVE  /\ \A i \in DOMAIN transcript'[d] : transcript'[d][i] = i
           /\ pc'[d] = "ask" => Len(transcript'[d]) = prim[d] + fall[d] + 1
           /\ pc'[d] = "persist" => Len(transcript'[d]) = prim[d] + fall[d]
           /\ pc'[d] \in {"ask", "persist"}
<1>1. /\ transcript[d] \in Seq(1..(MaxPrimary + MaxFallback))
      /\ Len(transcript[d]) = prim[d] + fall[d]
      /\ \A i \in DOMAIN transcript[d] : transcript[d][i] = i
      /\ prim[d] \in Nat /\ fall[d] \in Nat
  BY DEF TypeOK, Tries
<1>2. CASE Accept(d, c)
  BY <1>1, <1>2 DEF Accept, Goto, TypeOK
<1>3. CASE Reject(d, c, prim[d] + fall[d] + 1)
  <2> DEFINE n == prim[d] + fall[d] + 1
  <2>1. transcript'[d] = Append(transcript[d], n) /\ pc'[d] = "ask"
    BY <1>3 DEF Reject, TypeOK
  <2>2. /\ Len(Append(transcript[d], n)) = Len(transcript[d]) + 1
        /\ DOMAIN Append(transcript[d], n) = 1..n
        /\ \A i \in 1..n : Append(transcript[d], n)[i] = i
    BY <1>1
  <2> QED
    BY <1>1, <2>1, <2>2
<1> QED
  BY <1>2, <1>3

\* A process without attempts.
LEMMA NoTries ==
    ASSUME NEW d \in Doctor, pc[d] \notin {"ask", "persist"}, transcript[d] = <<>>,
           prim[d] = 0, fall[d] = 0
    PROVE  Tries(d)
<1>1. DOMAIN transcript[d] = {} /\ ~(fall[d] > 0)
  OBVIOUS
<1>2. pc[d] # "ask" /\ pc[d] # "persist"
  OBVIOUS
<1> QED
  BY <1>1, <1>2 DEF Tries

LEMMA EndedTries ==
    ASSUME NEW d \in Doctor, Ended(d)
    PROVE  Tries(d)'
<1>1. /\ pc'[d] \in {"idle", "next"} /\ prim'[d] = 0 /\ fall'[d] = 0
      /\ transcript'[d] = <<>>
  BY DEF Ended
<1>2. DOMAIN transcript'[d] = {} /\ ~(fall'[d] > 0)
  BY <1>1
<1> QED
  BY <1>1, <1>2 DEF Tries

LEMMA ProcessTries ==
    ASSUME TypeOK, TypeOK', \A e \in Doctor : Tries(e), NEW d \in Doctor,
           Command(d) \/ DoctorStep(d) \/ Crash(d)
    PROVE  \A e \in Doctor : Tries(e)'
<1>1. Progress(d) /\ Alone(d)
  BY StepsProgress, ProgressAlone
<1>2. ASSUME NEW e \in Doctor, e # d PROVE Tries(e)'
  BY <1>1, <1>2 DEF Alone, Tries
<1>3. Tries(d)'
  <2>1. CASE Ended(d)
    BY <2>1, EndedTries
  <2>2. CASE /\ pc'[d] \notin {"ask", "persist"} /\ pc[d] \notin {"ask", "persist"}
             /\ UNCHANGED <<prim, fall, transcript>>
    BY <2>2 DEF Tries
  <2>3. CASE Fetch(d) /\ Goto(d, "ask") /\ UNCHANGED <<prim, fall, transcript>>
    BY <2>3 DEF Fetch, Goto, Tries, TypeOK
  <2>4. CASE AskPrimary(d)
    <3>1. /\ pc[d] = "ask" /\ prim'[d] = prim[d] + 1 /\ fall'[d] = fall[d]
          /\ forced'[d] = forced[d] /\ prim[d] \in Nat /\ fall[d] \in Nat
          /\ ~forced[d] /\ prim[d] < MaxPrimary
      BY <2>4 DEF AskPrimary, InPrimary, TypeOK
    <3>3. fall[d] = 0
      BY <3>1 DEF Tries
    <3>2. PICK c \in PrimaryReply : Accept(d, c) \/ Reject(d, c, prim[d] + fall[d] + 1)
      BY <2>4, <3>1, <3>3 DEF AskPrimary
    <3>4. /\ \A i \in DOMAIN transcript'[d] : transcript'[d][i] = i
          /\ pc'[d] = "ask" => Len(transcript'[d]) = prim[d] + fall[d] + 1
          /\ pc'[d] = "persist" => Len(transcript'[d]) = prim[d] + fall[d]
          /\ pc'[d] \in {"ask", "persist"}
      BY <3>1, <3>2, AttemptCounted
    <3> QED
      BY <3>1, <3>3, <3>4 DEF Tries
  <2>5. CASE AskFallback(d)
    <3>1. /\ pc[d] = "ask" /\ fall'[d] = fall[d] + 1 /\ prim'[d] = prim[d]
          /\ forced'[d] = forced[d]
          /\ prim[d] \in 0..MaxPrimary /\ fall[d] \in Nat
          /\ ~forced[d] => prim[d] = MaxPrimary
      BY <2>5, RuleGenAssumption
         DEF RuleGenAssumption, AskFallback, InPrimary, TypeOK
    <3>2. PICK c \in FallbackReply : Accept(d, c) \/ Reject(d, c, prim[d] + fall[d] + 1)
      BY <2>5 DEF AskFallback, FallbackNumber, AttemptCount
    <3>4. /\ \A i \in DOMAIN transcript'[d] : transcript'[d][i] = i
          /\ pc'[d] = "ask" => Len(transcript'[d]) = prim[d] + fall[d] + 1
          /\ pc'[d] = "persist" => Len(transcript'[d]) = prim[d] + fall[d]
          /\ pc'[d] \in {"ask", "persist"}
      BY <3>1, <3>2, AttemptCounted
    <3> QED
      BY <3>1, <3>4 DEF Tries
  <2> QED
    BY <1>1, <2>1, <2>2, <2>3, <2>4, <2>5 DEF Progress, Load, Goto, TypeOK
<1> QED
  BY <1>2, <1>3

\* The first state.
LEMMA InvInit == Init => IInv
<1> SUFFICES ASSUME Init PROVE IInv
  OBVIOUS
<1>1. TypeOK
  BY TypesInit
<1>2. PICK kind \in Kinds :
        rows = [s \in Seeded |-> [NoRow EXCEPT !.active = TRUE, !.kind = kind[s]]]
  BY DEF Init
<1>3. ASSUME NEW s \in Seeded
      PROVE  rows[s].active = TRUE /\ rows[s].rules = 0 /\ page[s] = 0
  BY <1>2 DEF Init, NoRow
<1>4. Held
  <2>1. ASSUME NEW d \in Doctor PROVE InHand(d)
    BY DEF Init, InHand, Holding
  <2>2. ASSUME NEW a \in Admin PROVE Waiting(a)
    BY DEF Init, Waiting
  <2>3. NoneAhead
    <3>1. 0 <= 0
      OBVIOUS
    <3>2. ASSUME NEW s \in Seeded PROVE rows[s].rules <= page[s]
      <4>1. rows[s].rules = 0 /\ page[s] = 0
        BY <1>3
      <4> QED
        BY <3>1, <4>1, Zenon
    <3> QED
      BY <3>2 DEF NoneAhead
  <2> QED
    BY <2>1, <2>2, <2>3 DEF Held
<1>5. UndoneOnlyByRace
  BY <1>3 DEF Init, UndoneOnlyByRace
<1>6. ASSUME NEW d \in Doctor PROVE Tries(d)
  <2>1. pc[d] = "idle" /\ transcript[d] = <<>> /\ prim[d] = 0 /\ fall[d] = 0
    BY DEF Init
  <2> QED
    BY <2>1, NoTries
<1> QED
  BY <1>1, <1>4, <1>5, <1>6 DEF IInv

LEMMA InvStutter == IInv /\ UNCHANGED vars => IInv'
<1> SUFFICES ASSUME IInv, UNCHANGED vars PROVE IInv'
  OBVIOUS
<1> USE DEF vars
<1>1. TypeOK'
  BY DEF IInv, TypeOK
<1>2. Held'
  BY DEF IInv, Held, InHand, Waiting, NoneAhead, Older
<1>3. UndoneOnlyByRace' /\ \A d \in Doctor : Tries(d)'
  BY DEF IInv, UndoneOnlyByRace, Tries
<1> QED
  BY <1>1, <1>2, <1>3 DEF IInv

\* A step that leaves the table alone undoes nothing.
LEMMA TableStill ==
    ASSUME TypeOK, UndoneOnlyByRace, UNCHANGED tableVars
    PROVE  /\ UndoneOnlyByRace'
           /\ \A s \in Seeded : rows'[s].rules < rows[s].rules => stale'[s] # {}
BY DEF tableVars, UndoneOnlyByRace, TypeOK, Row, Layout

LEMMA InvNext ==
    ASSUME IInv, Next
    PROVE  /\ IInv'
           /\ \A s \in Seeded : rows'[s].rules < rows[s].rules => stale'[s] # {}
<1>1. TypeOK /\ Held /\ UndoneOnlyByRace /\ \A d \in Doctor : Tries(d)
  BY DEF IInv
<1>2. ASSUME NEW d \in Doctor, Command(d) \/ DoctorStep(d) \/ Crash(d)
      PROVE  /\ IInv'
             /\ \A s \in Seeded : rows'[s].rules < rows[s].rules => stale'[s] # {}
  <2>1. TypeOK'
    BY <1>1, <1>2, ProcessTypes
  <2>2. Held' /\ \A e \in Doctor : Tries(e)'
    BY <1>1, <1>2, <2>1, ProcessHolds, ProcessTries
  <2>3. UNCHANGED toggle /\ (~Persist(d) => UNCHANGED tableVars)
    BY <1>1, <1>2, StepsProgress
  <2>4. /\ UndoneOnlyByRace'
        /\ \A s \in Seeded : rows'[s].rules < rows[s].rules => stale'[s] # {}
    BY <1>1, <2>3, PersistWrites, TableStill
  <2> QED
    BY <2>1, <2>2, <2>4 DEF IInv
<1>3. ASSUME NEW a \in Admin, ToggleRead(a) \/ ToggleWrite(a)
      PROVE  /\ IInv'
             /\ \A s \in Seeded : rows'[s].rules < rows[s].rules => stale'[s] # {}
  <2>1. TypeOK' /\ Held'
    BY <1>1, <1>3, AdminStepTypes, AdminHolds
  <2>2. \A d \in Doctor : Tries(d)'
    BY <1>1, <1>3 DEF ToggleRead, ToggleWrite, doctorVars, Tries
  <2>3. /\ UndoneOnlyByRace'
        /\ \A s \in Seeded : rows'[s].rules < rows[s].rules => stale'[s] # {}
    BY <1>1, <1>3, ToggleWrites, TableStill DEF ToggleRead
  <2> QED
    BY <2>1, <2>2, <2>3 DEF IInv
<1>4. ASSUME NEW s \in Redesigned, Redesign(s)
      PROVE  /\ IInv'
             /\ \A x \in Seeded : rows'[x].rules < rows[x].rules => stale'[x] # {}
  <2>1. TypeOK' /\ Held'
    BY <1>1, <1>4, RedesignTypes, RedesignHolds
  <2>2. \A d \in Doctor : Tries(d)'
    BY <1>1, <1>4 DEF Redesign, doctorVars, Tries
  <2>3. UNCHANGED tableVars
    BY <1>4 DEF Redesign
  <2> QED
    BY <1>1, <2>1, <2>2, <2>3, TableStill DEF IInv
<1> QED
  BY <1>2, <1>3, <1>4 DEF Next

\* The inductive invariant holds in every reachable state.
THEOREM Invariance == Spec => []IInv
<1>1. IInv /\ [Next]_vars => IInv'
  BY InvNext, InvStutter
<1> QED
  BY InvInit, <1>1, PTL DEF Spec
-----------------------------------------------------------------------------
(* Theorems                                                                *)

\* Every variable keeps its type, for any number of sources, processes and toggle
\* requests.
THEOREM TypeCorrect == Spec => []TypeOK
<1>1. IInv => TypeOK
  BY DEF IInv
<1> QED
  BY <1>1, Invariance, PTL

\* The flag and the rules of a source are what was last asked for, unless a writer
\* with an old copy of the row put them back (UpdateRateSourceActive, Generate).
THEOREM LostOnlyToOldCopy == Spec => []UndoneOnlyByRace
<1>1. IInv => UndoneOnlyByRace
  BY DEF IInv
<1> QED
  BY <1>1, Invariance, PTL

\* Rules never go back to an older layout of the page, unless by such a writer.
THEOREM RulesMoveOn == Spec => NoOlderRules
<1>1. IInv /\ [Next]_vars =>
        [\A s \in Seeded : rows'[s].rules < rows[s].rules => stale'[s] # {}]_vars
  BY InvNext
<1> QED
  BY <1>1, Invariance, PTL DEF Spec, NoOlderRules

\* The attempts of both loops of Generate are one sequence without a gap, and the
\* fallback comes after the primary.
THEOREM AttemptsAreOneSequence == Spec => []AttemptsInOrder
<1>1. IInv => AttemptsInOrder
  BY DEF IInv, Tries, AttemptsInOrder, Prompt, AttemptCount
<1> QED
  BY <1>1, Invariance, PTL
-----------------------------------------------------------------------------
(* The books of --all: every source it has come to is counted once, and    *)
(* counted as succeeded exactly when it is written.                        *)

Visited(d) == Seeded \ todo[d]

Balanced(d) ==
    /\ tally[d].ok = Cardinality(wrote[d])
    /\ wrote[d] \subseteq Visited(d)
    /\ pc[d] = "next" => Accounted(d) = Cardinality(Visited(d))
    /\ pc[d] \in Generating => /\ Accounted(d) + 1 = Cardinality(Visited(d))
                               /\ name[d] \in Visited(d) \ wrote[d]

Books(d) ==
    /\ pc[d] \in {"list", "next"} => all[d]
    /\ pc[d] \in {"idle", "list"} => tally[d] = Zero /\ todo[d] = {}
    /\ pc[d] = "list" => wrote[d] = {}
    /\ all[d] /\ pc[d] \notin {"idle", "list"} => Balanced(d)

BooksKept == \A d \in Doctor : Books(d)

\* A step of process d leaves the books of the others alone.
Private(d) == \A e \in Doctor \ {d} :
    /\ pc'[e] = pc[e] /\ name'[e] = name[e] /\ all'[e] = all[e]
    /\ todo'[e] = todo[e] /\ tally'[e] = tally[e] /\ wrote'[e] = wrote[e]

LEMMA SeededFinite == IsFiniteSet(Seeded)
<1>1. NumSource \in Int /\ 1 \in Int /\ Seeded \subseteq 1..NumSource
  BY RuleGenAssumption DEF Source
<1>2. IsFiniteSet(1..NumSource)
  BY <1>1, FS_Interval
<1> QED
  BY <1>1, <1>2, FS_Subset

LEMMA CountOneMore ==
    ASSUME NEW S \in SUBSET Seeded, NEW s \in Seeded, s \notin S
    PROVE  /\ Cardinality(S) \in Nat
           /\ Cardinality(S \cup {s}) = Cardinality(S) + 1
<1>1. IsFiniteSet(S)
  BY SeededFinite, FS_Subset
<1> QED
  BY <1>1, FS_AddElement, FS_CardinalityType

LEMMA QuitBooks ==
    ASSUME TypeOK, NEW d \in Doctor, NEW code, Quit(d, code), UNCHANGED <<all, wrote>>
    PROVE  Books(d)' /\ Private(d)
<1>1. /\ pc'[d] = "idle" /\ tally'[d] = Zero /\ todo'[d] = {}
  BY DEF Quit, Goto, TypeOK
<1>2. Books(d)'
  BY <1>1 DEF Books, Zero
<1>3. Private(d)
  BY DEF Quit, Goto, Forget, Private, TypeOK
<1> QED
  BY <1>2, <1>3

LEMMA ReturnedBooks ==
    ASSUME TypeOK, NEW d \in Doctor, Books(d), pc[d] \in Generating, NEW ok \in BOOLEAN,
           NEW code, Returned(d, ok, code), UNCHANGED all,
           wrote' = IF ok THEN [wrote EXCEPT ![d] = @ \cup {name[d]}] ELSE wrote
    PROVE  Books(d)' /\ Private(d)
<1>1. CASE ~all[d]
  <2>1. Quit(d, code)
    BY <1>1 DEF Returned
  <2>2. /\ pc'[d] = "idle" /\ tally'[d] = Zero /\ todo'[d] = {}
    BY <2>1 DEF Quit, Goto, TypeOK
  <2>3. Books(d)'
    BY <2>2 DEF Books, Zero
  <2>4. Private(d)
    <3>1. \A e \in Doctor \ {d} : wrote'[e] = wrote[e]
      BY DEF TypeOK
    <3> QED
      BY <2>1, <3>1 DEF Quit, Goto, Forget, Private, TypeOK
  <2> QED
    BY <2>3, <2>4
<1>2. CASE all[d]
  <2>1. /\ tally' = [tally EXCEPT ![d] = Counted(@, ok)]
        /\ pc' = [pc EXCEPT ![d] = "next"]
        /\ name' = [name EXCEPT ![d] = 1]
        /\ UNCHANGED <<todo, all>>
    BY <1>2 DEF Returned, Quit, Goto, Forget
  <2>2. Balanced(d)
    BY <1>2 DEF Books, Generating
  <2>3. tally[d] \in Tally /\ wrote[d] \in SUBSET Seeded /\ todo[d] \in SUBSET Seeded
    BY DEF TypeOK
  <2>4. /\ Accounted(d) + 1 = Cardinality(Visited(d))
        /\ name[d] \in Visited(d) \ wrote[d]
        /\ tally[d].ok = Cardinality(wrote[d]) /\ wrote[d] \subseteq Visited(d)
    BY <2>2 DEF Balanced
  <2>5. /\ tally'[d] = Counted(tally[d], ok) /\ pc'[d] = "next" /\ todo'[d] = todo[d]
        /\ all'[d]
        /\ wrote'[d] = IF ok THEN wrote[d] \cup {name[d]} ELSE wrote[d]
    BY <1>2, <2>1 DEF TypeOK
  <2>6. Visited(d)' = Visited(d)
    BY <2>5 DEF Visited
  <2>7. /\ tally'[d].ok = tally[d].ok + (IF ok THEN 1 ELSE 0)
        /\ tally'[d].failed = tally[d].failed + (IF ok THEN 0 ELSE 1)
        /\ tally'[d].skipped = tally[d].skipped
    <3>1. PICK t \in Tally : t = tally[d]
      BY <2>3
    <3>2. tally'[d] = Counted(t, ok)
      BY <2>5, <3>1
    <3>3. CASE ok
      BY <3>1, <3>2, <3>3 DEF Counted, Tally
    <3>4. CASE ~ok
      BY <3>1, <3>2, <3>4 DEF Counted, Tally
    <3> QED
      BY <3>3, <3>4
  <2>8. Accounted(d)' = Accounted(d) + 1
    <3>1. tally[d].ok \in Nat /\ tally[d].failed \in Nat /\ tally[d].skipped \in Nat
      BY <2>3 DEF Tally
    <3> QED
      BY <2>7, <3>1 DEF Accounted
  <2>9. tally'[d].ok = Cardinality(wrote'[d]) /\ wrote'[d] \subseteq Visited(d)
    <3>1. CASE ok
      <4>1. /\ Cardinality(wrote[d]) \in Nat
            /\ Cardinality(wrote[d] \cup {name[d]}) = Cardinality(wrote[d]) + 1
        BY <2>3, <2>4, CountOneMore DEF Visited
      <4>2. wrote'[d] = wrote[d] \cup {name[d]} /\ tally'[d].ok = tally[d].ok + 1
        BY <2>5, <2>7, <3>1
      <4>3. Cardinality(wrote'[d]) = Cardinality(wrote[d]) + 1
        BY <4>1, <4>2
      <4>4. wrote'[d] \subseteq Visited(d)
        BY <2>4, <4>2
      <4> QED
        BY <2>4, <4>2, <4>3, <4>4
    <3>2. CASE ~ok
      <4>1. tally[d].ok \in Nat
        BY <2>3 DEF Tally
      <4> QED
        BY <2>4, <2>5, <2>7, <3>2, <4>1
    <3> QED
      BY <3>1, <3>2
  <2>10. Balanced(d)'
    BY <2>4, <2>5, <2>6, <2>8, <2>9 DEF Balanced, Generating
  <2>11. Books(d)'
    BY <2>5, <2>10 DEF Books
  <2>12. Private(d)
    BY <2>1 DEF Private, TypeOK
  <2> QED
    BY <2>11, <2>12
<1> QED
  BY <1>1, <1>2

\* A source --all comes to is one more it has come to.
LEMMA VisitBooks ==
    ASSUME TypeOK, NEW d \in Doctor, Books(d), VisitNext(d)
    PROVE  Books(d)' /\ Private(d)
<1>1. PICK s \in todo[d] :
        /\ todo' = [todo EXCEPT ![d] = @ \ {s}]
        /\ \/ /\ tally' = [tally EXCEPT ![d].skipped = @ + 1]
              /\ UNCHANGED <<pc, name>>
           \/ /\ name' = [name EXCEPT ![d] = s]
              /\ pc' = [pc EXCEPT ![d] = "load"]
              /\ UNCHANGED tally
  BY DEF VisitNext, Goto
<1>2. pc[d] = "next" /\ all[d] /\ UNCHANGED <<all, wrote>>
  BY DEF VisitNext, Books
<1>3. Balanced(d)
  BY <1>2 DEF Books
<1>4. /\ tally[d] \in Tally /\ wrote[d] \in SUBSET Seeded /\ todo[d] \in SUBSET Seeded
      /\ todo'[d] = todo[d] \ {s} /\ wrote'[d] = wrote[d] /\ all'[d]
  BY <1>1, <1>2 DEF TypeOK
<1>5. Visited(d)' = Visited(d) \cup {s} /\ s \notin Visited(d)
  BY <1>4 DEF Visited
<1>6. /\ Cardinality(Visited(d)) \in Nat
      /\ Cardinality(Visited(d)') = Cardinality(Visited(d)) + 1
  <2>1. Visited(d) \in SUBSET Seeded /\ s \in Seeded
    BY <1>4 DEF Visited
  <2> QED
    BY <1>5, <2>1, CountOneMore
<1>7. /\ Accounted(d) = Cardinality(Visited(d))
      /\ tally[d].ok = Cardinality(wrote[d]) /\ wrote[d] \subseteq Visited(d)
  BY <1>2, <1>3 DEF Balanced
<1>8. CASE /\ tally' = [tally EXCEPT ![d].skipped = @ + 1]
           /\ UNCHANGED <<pc, name>>
  <2>1. /\ tally'[d].ok = tally[d].ok /\ tally'[d].failed = tally[d].failed
        /\ tally'[d].skipped = tally[d].skipped + 1
    <3>1. tally'[d] = [tally[d] EXCEPT !.skipped = @ + 1]
      BY <1>8 DEF TypeOK
    <3>2. PICK t \in Tally : t = tally[d]
      BY <1>4
    <3> QED
      BY <3>1, <3>2 DEF Tally
  <2>2. tally[d].ok \in Nat /\ tally[d].failed \in Nat /\ tally[d].skipped \in Nat
    BY <1>4 DEF Tally
  <2>3. Accounted(d)' = Accounted(d) + 1
    BY <2>1, <2>2 DEF Accounted
  <2>4. pc'[d] = "next"
    BY <1>2, <1>8
  <2>5. Balanced(d)'
    BY <1>4, <1>5, <1>6, <1>7, <2>1, <2>3, <2>4 DEF Balanced, Generating
  <2>6. Books(d)'
    BY <1>4, <2>4, <2>5 DEF Books
  <2>7. Private(d)
    BY <1>1, <1>2, <1>8 DEF Private, TypeOK
  <2> QED
    BY <2>6, <2>7
<1>9. CASE /\ name' = [name EXCEPT ![d] = s]
           /\ pc' = [pc EXCEPT ![d] = "load"]
           /\ UNCHANGED tally
  <2>1. pc'[d] = "load" /\ name'[d] = s /\ tally'[d] = tally[d]
    BY <1>9 DEF TypeOK
  <2>2. Accounted(d)' = Accounted(d)
    BY <2>1 DEF Accounted
  <2>3. Balanced(d)'
    BY <1>4, <1>5, <1>6, <1>7, <2>1, <2>2 DEF Balanced, Generating
  <2>4. Books(d)'
    BY <1>4, <2>1, <2>3 DEF Books
  <2>5. Private(d)
    BY <1>1, <1>2, <1>9 DEF Private, TypeOK
  <2> QED
    BY <2>4, <2>5
<1> QED
  BY <1>1, <1>8, <1>9

\* A generation that goes on.
LEMMA GoingOnBooks ==
    ASSUME TypeOK, NEW d \in Doctor, Books(d), pc[d] \in Generating,
           NEW stage \in Generating, Goto(d, stage),
           UNCHANGED <<all, todo, tally, name, wrote>>
    PROVE  Books(d)' /\ Private(d)
<1>1. pc'[d] \in Generating /\ \A e \in Doctor \ {d} : pc'[e] = pc[e]
  BY DEF Goto, TypeOK
<1>2. Accounted(d)' = Accounted(d) /\ Visited(d)' = Visited(d)
  BY DEF Accounted, Visited
<1>3. all[d] => Balanced(d)
  BY DEF Books, Generating
<1>4. all[d] => Balanced(d)'
  BY <1>1, <1>2, <1>3 DEF Balanced, Generating
<1>5. Books(d)'
  BY <1>1, <1>4 DEF Books, Generating
<1>6. Private(d)
  BY <1>1 DEF Private
<1> QED
  BY <1>5, <1>6

LEMMA ProcessBooks ==
    ASSUME TypeOK, NEW d \in Doctor, Books(d), Command(d) \/ DoctorStep(d) \/ Crash(d)
    PROVE  Books(d)' /\ Private(d)
<1>1. CASE Command(d)
  <2>1. PICK every \in BOOLEAN :
          /\ all' = [all EXCEPT ![d] = every]
          /\ \/ pc' = [pc EXCEPT ![d] = IF every THEN "list" ELSE "load"]
             \/ UNCHANGED pc
    BY <1>1 DEF Command, Goto
  <2>2. /\ pc[d] = "idle" /\ tally[d] = Zero /\ todo[d] = {}
        /\ wrote' = [wrote EXCEPT ![d] = {}] /\ UNCHANGED <<todo, tally>>
    BY <1>1 DEF Command, Books
  <2>3. wrote'[d] = {} /\ all'[d] = every
    BY <2>1, <2>2 DEF TypeOK
  <2>4. pc'[d] \in {"idle", IF every THEN "list" ELSE "load"}
    BY <2>1, <2>2 DEF TypeOK
  <2>5. Books(d)'
    <3>1. tally'[d] = Zero /\ todo'[d] = {} /\ Zero' = Zero
      BY <2>2 DEF Zero
    <3>2. CASE pc'[d] = "idle"
      BY <3>1, <3>2 DEF Books
    <3>3. CASE every /\ pc'[d] = "list"
      BY <2>3, <3>1, <3>3 DEF Books
    <3>4. CASE ~every /\ pc'[d] = "load"
      BY <2>3, <3>4 DEF Books
    <3> QED
      BY <2>4, <3>2, <3>3, <3>4
  <2>6. ASSUME NEW e \in Doctor \ {d} PROVE name'[e] = name[e]
    BY <1>1 DEF Command, TypeOK
  <2>7. Private(d)
    BY <2>1, <2>2, <2>6 DEF Private, TypeOK
  <2> QED
    BY <2>5, <2>7
<1>2. CASE List(d)
  <2>1. CASE Quit(d, "0")
    BY <1>2, <2>1, QuitBooks DEF List
  <2>2. CASE ~Quit(d, "0")
    <3>1. /\ pc[d] = "list" /\ all[d] /\ tally[d] = Zero /\ wrote[d] = {}
          /\ todo' = [todo EXCEPT ![d] = Seeded] /\ pc' = [pc EXCEPT ![d] = "next"]
          /\ UNCHANGED <<all, tally, name, wrote>>
      BY <1>2, <2>2 DEF List, Books, Goto
    <3>2. pc'[d] = "next" /\ todo'[d] = Seeded
      BY <3>1 DEF TypeOK
    <3>3. Visited(d)' = {} /\ Accounted(d)' = 0 /\ Cardinality({}) = 0
      BY <3>1, <3>2, FS_EmptySet DEF Visited, Accounted, Zero
    <3>4. Balanced(d)'
      BY <3>1, <3>2, <3>3 DEF Balanced, Generating, Zero
    <3>5. Books(d)'
      BY <3>1, <3>2, <3>4 DEF Books
    <3>6. Private(d)
      BY <3>1 DEF Private, TypeOK
    <3> QED
      BY <3>5, <3>6
  <2> QED
    BY <2>1, <2>2
<1>3. CASE VisitNext(d)
  BY <1>3, VisitBooks
<1>4. CASE Summarise(d) \/ Crash(d)
  BY <1>4, QuitBooks DEF Summarise, Crash
<1>5. ASSUME pc[d] \in Generating, UNCHANGED <<all, wrote>>,
             NEW code, Returned(d, FALSE, code)
      PROVE  Books(d)' /\ Private(d)
  <2>1. wrote' = IF FALSE THEN [wrote EXCEPT ![d] = @ \cup {name[d]}] ELSE wrote
    BY <1>5
  <2>2. FALSE \in BOOLEAN /\ UNCHANGED all
    BY <1>5
  <2> QED
    BY <1>5, <2>1, <2>2, ReturnedBooks
<1>6. CASE Load(d)
  <2>1. pc[d] \in Generating /\ UNCHANGED <<all, wrote>> /\ "fetch" \in Generating
    BY <1>6 DEF Load, Generating
  <2>2. \/ Goto(d, "fetch") /\ UNCHANGED <<todo, tally, name>>
        \/ \E code : Returned(d, FALSE, code)
    BY <1>6 DEF Load
  <2> QED
    BY <1>5, <2>1, <2>2, GoingOnBooks
<1>7. CASE Fetch(d)
  <2>1. pc[d] \in Generating /\ UNCHANGED <<all, wrote>> /\ "ask" \in Generating
    BY <1>7 DEF Fetch, Generating
  <2>2. \/ Goto(d, "ask") /\ UNCHANGED <<todo, tally, name>>
        \/ \E code : Returned(d, FALSE, code)
    BY <1>7 DEF Fetch
  <2> QED
    BY <1>5, <2>1, <2>2, GoingOnBooks
<1>8. CASE AskPrimary(d) \/ AskFallback(d)
  <2>1. /\ pc[d] = "ask" /\ UNCHANGED <<all, todo, tally, name, wrote>>
        /\ \E c, number : Accept(d, c) \/ Reject(d, c, number)
    BY <1>8 DEF AskPrimary, AskFallback
  <2>2. \E stage \in Generating : Goto(d, stage)
    <3>1. CASE \E c : Accept(d, c)
      BY <3>1 DEF Accept, Generating
    <3>2. CASE UNCHANGED pc
      <4>1. Goto(d, "ask")
        BY <2>1, <3>2 DEF Goto, TypeOK
      <4> QED
        BY <4>1 DEF Generating
    <3> QED
      BY <2>1, <3>1, <3>2 DEF Reject
  <2>3. pc[d] \in Generating
    BY <2>1 DEF Generating
  <2> QED
    BY <2>1, <2>2, <2>3, GoingOnBooks
<1>9. CASE Exhausted(d) \/ Panic(d)
  <2>1. /\ pc[d] \in Generating /\ UNCHANGED <<all, wrote>>
        /\ \E code : Returned(d, FALSE, code)
    BY <1>9 DEF Exhausted, Panic, Generating
  <2> QED
    BY <1>5, <2>1
<1>10. CASE Persist(d)
  <2>1. pc[d] \in Generating /\ UNCHANGED all
    BY <1>10 DEF Persist, Generating
  <2>2. CASE Returned(d, FALSE, "1") /\ UNCHANGED wrote
    BY <1>5, <2>1, <2>2
  <2>3. CASE Returned(d, TRUE, "0") /\ wrote' = [wrote EXCEPT ![d] = @ \cup {name[d]}]
    <3>1. wrote' = IF TRUE THEN [wrote EXCEPT ![d] = @ \cup {name[d]}] ELSE wrote
      BY <2>3
    <3>2. TRUE \in BOOLEAN
      OBVIOUS
    <3> QED
      BY <2>1, <2>3, <3>1, <3>2, ReturnedBooks
  <2> QED
    BY <1>10, <2>2, <2>3 DEF Persist
<1> QED
  BY <1>1, <1>2, <1>3, <1>4, <1>6, <1>7, <1>8, <1>9, <1>10 DEF DoctorStep

LEMMA BooksInit == Init => BooksKept
  BY DEF Init, BooksKept, Books

LEMMA BooksNext == TypeOK /\ BooksKept /\ [Next]_vars => BooksKept'
<1> SUFFICES ASSUME TypeOK, BooksKept, [Next]_vars PROVE BooksKept'
  OBVIOUS
<1>1. ASSUME NEW d \in Doctor, Command(d) \/ DoctorStep(d) \/ Crash(d)
      PROVE  BooksKept'
  <2>1. Books(d)' /\ Private(d)
    BY <1>1, ProcessBooks DEF BooksKept
  <2>2. ASSUME NEW e \in Doctor, e # d PROVE Books(e)'
    BY <2>1, <2>2 DEF Private, BooksKept, Books, Balanced, Accounted, Visited
  <2> QED
    BY <2>1, <2>2 DEF BooksKept
<1>2. CASE UNCHANGED <<pc, all, todo, tally, name, wrote>>
  BY <1>2 DEF BooksKept, Books, Balanced, Accounted, Visited
<1>3. ASSUME NEW a \in Admin, ToggleRead(a) \/ ToggleWrite(a)
      PROVE  UNCHANGED <<pc, all, todo, tally, name, wrote>>
  BY <1>3 DEF ToggleRead, ToggleWrite, doctorVars
<1>4. ASSUME NEW s \in Redesigned, Redesign(s)
      PROVE  UNCHANGED <<pc, all, todo, tally, name, wrote>>
  BY <1>4 DEF Redesign, doctorVars
<1> QED
  BY <1>1, <1>2, <1>3, <1>4 DEF Next, vars

LEMMA QuitExits ==
    ASSUME TypeOK, NEW d \in Doctor, NEW ok, NEW code, ~all[d], Returned(d, ok, code)
    PROVE  exit'[d] = code
  BY DEF Returned, Quit, TypeOK

LEMMA ReturnedGoesOn ==
    ASSUME TypeOK, NEW d \in Doctor, NEW ok, NEW code, all[d], Returned(d, ok, code)
    PROVE  pc'[d] # "idle"
  BY DEF Returned, Goto, TypeOK

\* How a process may end, and what its end says.
LEMMA EndsTruly ==
    ASSUME IInv, NEW d \in Doctor, Books(d), Command(d) \/ DoctorStep(d) \/ Crash(d)
    PROVE  /\ all[d] /\ Ends(d, "0") => /\ tally[d].ok = Cardinality(wrote[d])
                                        /\ Accounted(d) \in {0, Cardinality(Seeded)}
           /\ ~all[d] /\ Ends(d, "0") => rows'[name[d]] # rows[name[d]]
           /\ ~all[d] /\ (\E code \in {"1", "2"} : Ends(d, code)) => rows' = rows
<1>0. TypeOK
  BY DEF IInv
<1>1. CASE Command(d)
  BY <1>1 DEF Command, Ends
<1>2. CASE Crash(d)
  <2>1. exit'[d] = "none"
    BY <1>0, <1>2 DEF Crash, Quit, TypeOK
  <2> QED
    BY <2>1 DEF Ends
<1>3. CASE List(d)
  <2>1. all[d] /\ tally[d] = Zero /\ wrote[d] = {} /\ Cardinality({}) = 0
    BY <1>3, FS_EmptySet DEF List, Books
  <2>2. tally[d].ok = 0 /\ Accounted(d) = 0
    BY <2>1 DEF Accounted, Zero
  <2> QED
    BY <2>1, <2>2
<1>4. CASE VisitNext(d)
  <2>1. pc'[d] # "idle"
    BY <1>0, <1>4 DEF VisitNext, Goto, TypeOK
  <2> QED
    BY <2>1 DEF Ends
<1>5. CASE Summarise(d)
  <2>1. pc[d] = "next" /\ todo[d] = {} /\ all[d]
    BY <1>5 DEF Summarise, Books
  <2>2. Balanced(d) /\ Visited(d) = Seeded
    BY <2>1 DEF Books, Visited
  <2> QED
    BY <2>1, <2>2 DEF Balanced
<1>6. CASE Load(d) \/ Fetch(d) \/ Exhausted(d) \/ Panic(d)
  <2>1. rows' = rows
    BY <1>6 DEF Load, Fetch, Exhausted, Panic, tableVars
  <2>2. \/ pc'[d] # "idle"
        \/ \E code : code # "0" /\ Returned(d, FALSE, code)
    BY <1>0, <1>6 DEF Load, Fetch, Exhausted, Panic, Goto, TypeOK
  <2>3. all[d] => pc'[d] # "idle"
    BY <1>0, <2>2, ReturnedGoesOn
  <2>4. ~all[d] => pc'[d] # "idle" \/ exit'[d] # "0"
    BY <1>0, <2>2, QuitExits
  <2> QED
    BY <2>1, <2>3, <2>4 DEF Ends
<1>7. CASE AskPrimary(d) \/ AskFallback(d)
  <2>1. pc'[d] # "idle"
    BY <1>0, <1>7, AnswerAccepted
  <2> QED
    BY <2>1 DEF Ends
<1>8. CASE Persist(d)
  <2>1. name[d] \in Seeded
    BY <1>8 DEF IInv, Held, InHand, Holding, Persist
  <2>2. CASE RetainRateSource(name[d], Generated(d)) /\ Returned(d, TRUE, "0")
    <3>1. rows'[name[d]].ver = rows[name[d]].ver + 1
      BY <1>0, <2>1, <2>2 DEF RetainRateSource, TypeOK
    <3>2. rows[name[d]].ver \in Nat
      BY <1>0, <2>1 DEF TypeOK, Row
    <3>3. rows'[name[d]] # rows[name[d]]
      BY <3>1, <3>2
    <3>4. all[d] => pc'[d] # "idle"
      BY <1>0, <2>2, ReturnedGoesOn
    <3>5. ~all[d] => exit'[d] = "0"
      BY <1>0, <2>2, QuitExits
    <3> QED
      BY <3>3, <3>4, <3>5 DEF Ends
  <2>3. CASE Returned(d, FALSE, "1") /\ UNCHANGED tableVars
    <3>1. rows' = rows
      BY <2>3 DEF tableVars
    <3>2. all[d] => pc'[d] # "idle"
      BY <1>0, <2>3, ReturnedGoesOn
    <3>3. ~all[d] => exit'[d] = "1"
      BY <1>0, <2>3, QuitExits
    <3> QED
      BY <3>1, <3>2, <3>3 DEF Ends
  <2> QED
    BY <1>8, <2>2, <2>3 DEF Persist
<1> QED
  BY <1>1, <1>2, <1>3, <1>4, <1>5, <1>6, <1>7, <1>8 DEF DoctorStep

LEMMA StepEndsTruly ==
    ASSUME IInv, BooksKept, Next, NEW d \in Doctor
    PROVE  /\ all[d] /\ Ends(d, "0") => /\ tally[d].ok = Cardinality(wrote[d])
                                        /\ Accounted(d) \in {0, Cardinality(Seeded)}
           /\ ~all[d] /\ Ends(d, "0") => rows'[name[d]] # rows[name[d]]
           /\ ~all[d] /\ (\E code \in {"1", "2"} : Ends(d, code)) => rows' = rows
<1>1. ASSUME NEW e \in Doctor, Command(e) \/ DoctorStep(e) \/ Crash(e), e # d
      PROVE  \A code : ~Ends(d, code)
  <2>1. Private(e)
    BY <1>1, ProcessBooks DEF IInv, BooksKept
  <2> QED
    BY <1>1, <2>1 DEF Private, Ends
<1>2. CASE Command(d) \/ DoctorStep(d) \/ Crash(d)
  BY <1>2, EndsTruly DEF BooksKept
<1>3. CASE UNCHANGED pc
  BY <1>3 DEF Ends
<1>4. (\E a \in Admin : ToggleRead(a) \/ ToggleWrite(a)) \/ (\E s \in Redesigned : Redesign(s))
        => UNCHANGED pc
  BY DEF ToggleRead, ToggleWrite, Redesign, doctorVars
<1> QED
  BY <1>1, <1>2, <1>3, <1>4 DEF Next

\* The summary of rulegen --all accounts for every source once and counts as succeeded
\* exactly those whose rules it wrote; a single rulegen exits with 0 exactly when it
\* wrote rules: for any number of processes side by side, whatever fails in them.
THEOREM SummaryNeverLies == Spec => SummaryIsTrue
<1>1. Init => BooksKept
  BY BooksInit
<1>2. IInv => TypeOK
  BY DEF IInv
<1>3. Spec => [](IInv /\ BooksKept)
  BY <1>1, <1>2, BooksNext, Invariance, PTL DEF Spec
<1>4. IInv /\ BooksKept /\ [Next]_vars =>
        [\A d \in Doctor :
            /\ all[d] /\ Ends(d, "0") => /\ tally[d].ok = Cardinality(wrote[d])
                                         /\ Accounted(d) \in {0, Cardinality(Seeded)}
            /\ ~all[d] /\ Ends(d, "0") => rows'[name[d]] # rows[name[d]]
            /\ ~all[d] /\ (\E code \in {"1", "2"} : Ends(d, code)) => rows' = rows]_vars
  BY StepEndsTruly
<1> QED
  BY <1>3, <1>4, PTL DEF Spec, SummaryIsTrue
-----------------------------------------------------------------------------
(* The part of a page a model is shown                                     *)

LEMMA LeastOffset ==
  ASSUME NEW S \in SUBSET Nat, S # {}
  PROVE  Smallest(S) \in S
<1>1. PICK x \in S : \A y \in S : ~(<<y, x>> \in OpToRel(<, Nat))
  BY NatLessThanWellFounded, WFMin
<1>2. ASSUME NEW y \in S, y < x PROVE FALSE
  <2>1. <<y, x>> \in Nat \X Nat /\ <<y, x>>[1] < <<y, x>>[2]
    BY <1>2
  <2>2. <<y, x>> \in OpToRel(<, Nat)
    BY <2>1 DEF OpToRel
  <2>3. QED BY <1>1, <2>2
<1>3. \A y \in S : x <= y
  BY <1>2
<1>4. QED BY <1>3 DEF Smallest

\* A slice has the tokens between its ends, offsets counted from its beginning.
LEMMA SliceIs ==
  ASSUME NEW whole \in Seq(Token), NEW a \in Int, NEW b \in Int
  PROVE  LET cut == Slice(whole, a, b)
             first == Low(a)
             end == High(b, whole)
         IN  /\ cut \in Seq(Token)
             /\ Len(cut) = IF first < end THEN end - first ELSE 0
             /\ \A i \in 1 .. (end - first) : cut[i] = whole[first + i]
<1> DEFINE first == Low(a)
           end == High(b, whole)
<1>1. /\ Len(whole) \in Nat /\ first \in Nat /\ end \in Int /\ end <= Len(whole)
      /\ \A i \in 1 .. Len(whole) : whole[i] \in Token
  BY DEF Low, High
<1>2. \A i \in first + 1 .. end : whole[i] \in Token
  BY <1>1
<1>3. /\ SubSeq(whole, first + 1, end) \in Seq(Token)
      /\ Len(SubSeq(whole, first + 1, end)) = IF first + 1 <= end THEN end - (first + 1) + 1 ELSE 0
      /\ \A i \in 1 .. end - (first + 1) + 1 :
            SubSeq(whole, first + 1, end)[i] = whole[first + 1 + i - 1]
  <2> HIDE DEF first, end
  <2>1. first + 1 \in Int
    BY <1>1
  <2>2. QED BY <1>1, <1>2, <2>1, SubSeqProperties
<1>4. Slice(whole, a, b) = SubSeq(whole, first + 1, end)
  BY DEF Slice
<1> HIDE DEF first, end
<1>5. /\ Slice(whole, a, b) \in Seq(Token)
      /\ Len(Slice(whole, a, b)) = IF first < end THEN end - first ELSE 0
      /\ \A i \in 1 .. (end - first) : Slice(whole, a, b)[i] = whole[first + i]
  BY <1>1, <1>3, <1>4
<1>6. QED BY <1>5 DEF first, end

LEMMA HitsOf ==
  ASSUME NEW whole \in Seq(Token), NEW t
  PROVE  /\ Hits(whole, t) \in SUBSET Nat
         /\ \A i \in Hits(whole, t) : i < Len(whole) /\ whole[i + 1] = t
         /\ \A i \in Nat : i < Len(whole) /\ whole[i + 1] = t => i \in Hits(whole, t)
<1>1. Len(whole) \in Nat
  OBVIOUS
<1>2. QED BY <1>1 DEF Hits

\* What lies between the ends of a slice is a hit in it.
LEMMA HitInSlice ==
  ASSUME NEW whole \in Seq(Token), NEW a \in Int, NEW b \in Int, NEW t,
         NEW i \in Hits(whole, t), a <= i, i < b
  PROVE  i - Low(a) \in Hits(Slice(whole, a, b), t) /\ Low(a) <= i
<1> DEFINE cut == Slice(whole, a, b)
<1>1. i \in Nat /\ i < Len(whole) /\ whole[i + 1] = t /\ Len(whole) \in Nat
  BY HitsOf
<1>2. Low(a) \in Nat /\ Low(a) <= i /\ High(b, whole) \in Int /\ i < High(b, whole)
  BY <1>1 DEF Low, High
<1>3. /\ cut \in Seq(Token) /\ Len(cut) = High(b, whole) - Low(a)
      /\ \A n \in 1 .. (High(b, whole) - Low(a)) : cut[n] = whole[Low(a) + n]
  <2>1. Low(a) < High(b, whole)
    BY <1>1, <1>2
  <2>2. /\ cut \in Seq(Token)
        /\ Len(cut) = IF Low(a) < High(b, whole) THEN High(b, whole) - Low(a) ELSE 0
        /\ \A n \in 1 .. (High(b, whole) - Low(a)) : cut[n] = whole[Low(a) + n]
    BY SliceIs
  <2> HIDE DEF cut
  <2>3. QED BY <2>1, <2>2
<1>4. i - Low(a) \in Nat /\ (i - Low(a)) + 1 \in 1 .. (High(b, whole) - Low(a))
      /\ Low(a) + ((i - Low(a)) + 1) = i + 1
  BY <1>1, <1>2
<1>5. cut[(i - Low(a)) + 1] = whole[i + 1]
  BY <1>3, <1>4
<1>6. i - Low(a) < Len(cut)
  BY <1>2, <1>3, <1>4
<1> HIDE DEF cut
<1>7. i - Low(a) \in Hits(cut, t)
  BY <1>1, <1>3, <1>4, <1>5, <1>6, HitsOf
<1>8. QED BY <1>2, <1>7 DEF cut

\* A currency is near when one of its hits is.
LEMMA NearCurrency ==
  ASSUME NEW whole \in Seq(Token), NEW c \in Nat
  PROVE  HasCurrencyWithin(whole, c) <=>
           \E i \in Hits(whole, "C") : c - Radius <= i /\ i < c + Radius
<1> DEFINE cut == Slice(whole, c - Radius, c + Radius)
           first == Low(c - Radius)
           end == High(c + Radius, whole)
<1>1. /\ c - Radius \in Int /\ c + Radius \in Int /\ Radius \in Nat
      /\ first \in Nat /\ end \in Int /\ Len(whole) \in Nat
      /\ end <= Len(whole) /\ end <= c + Radius /\ c - Radius <= first
  BY SanitizeAssumption DEF Low, High
<1>2. /\ cut \in Seq(Token) /\ Len(cut) = IF first < end THEN end - first ELSE 0
      /\ \A i \in 1 .. (end - first) : cut[i] = whole[first + i]
  BY <1>1, SliceIs
<1>3. ASSUME NEW n \in DOMAIN cut, cut[n] = "C"
      PROVE  \E i \in Hits(whole, "C") : c - Radius <= i /\ i < c + Radius
  <2> HIDE DEF cut, first, end
  <2>1. n \in 1 .. (end - first)
    <3>1. n \in 1 .. Len(cut)
      BY <1>2
    <3>2. QED BY <1>1, <1>2, <3>1
  <2>2. whole[first + n] = "C"
    BY <1>2, <1>3, <2>1
  <2>3. first + n - 1 \in Nat /\ (first + n - 1) + 1 = first + n /\ first + n - 1 < Len(whole)
        /\ c - Radius <= first + n - 1 /\ first + n - 1 < c + Radius
    BY <1>1, <2>1
  <2>4. first + n - 1 \in Hits(whole, "C")
    BY <2>2, <2>3, HitsOf
  <2>5. QED BY <2>3, <2>4
<1>4. ASSUME NEW i \in Hits(whole, "C"), c - Radius <= i, i < c + Radius
      PROVE  \E n \in DOMAIN cut : cut[n] = "C"
  <2>1. i - first \in Hits(cut, "C")
    BY <1>1, <1>4, HitInSlice
  <2> HIDE DEF cut, first, end
  <2>2. (i - first) \in Nat /\ i - first < Len(cut) /\ cut[(i - first) + 1] = "C"
    BY <1>2, <2>1, HitsOf
  <2>3. (i - first) + 1 \in DOMAIN cut
    BY <1>2, <2>2
  <2>4. QED BY <2>2, <2>3
<1>5. QED BY <1>3, <1>4 DEF HasCurrencyWithin, Holds

Half == Window \div 2

\* A window keeps every hit around its centre, and fits the cap.
LEMMA WindowHolds ==
  ASSUME NEW whole \in Seq(Token), NEW c \in Nat
  PROVE  /\ WindowAround(whole, c) \in Seq(Token)
         /\ Len(WindowAround(whole, c)) <= Cap
         /\ \A t : \A i \in Hits(whole, t) : c - Half <= i /\ i < c + Half =>
               /\ i - Low(c - Half) \in Hits(WindowAround(whole, c), t)
               /\ Low(c - Half) <= i
<1>1. /\ Half \in Nat /\ Half + Half <= Window /\ Window \in Nat /\ Window <= Cap
      /\ Cap \in Nat
  BY SanitizeAssumption DEF Half
<1>2. c - Half \in Int /\ c + Half \in Int /\ Len(whole) \in Nat
  BY <1>1
<1>3. WindowAround(whole, c) = Slice(whole, c - Half, c + Half)
  BY DEF WindowAround, Half
<1>4. WindowAround(whole, c) \in Seq(Token) /\ Len(WindowAround(whole, c)) <= Cap
  <2>1. /\ Low(c - Half) \in Nat /\ c - Half <= Low(c - Half)
        /\ High(c + Half, whole) \in Int /\ High(c + Half, whole) <= c + Half
    BY <1>1, <1>2 DEF Low, High
  <2>2. /\ Slice(whole, c - Half, c + Half) \in Seq(Token)
        /\ Len(Slice(whole, c - Half, c + Half)) =
              IF Low(c - Half) < High(c + Half, whole)
              THEN High(c + Half, whole) - Low(c - Half) ELSE 0
    BY <1>2, SliceIs
  <2>3. QED BY <1>1, <1>3, <2>1, <2>2
<1>5. QED BY <1>2, <1>3, <1>4, HitInSlice

\* A sequence within the cap is sent as it is.
LEMMA CapKeeps ==
  ASSUME NEW sent \in Seq(Token), Len(sent) <= Cap
  PROVE  Slice(sent, 0, Cap) = sent
<1>1. Len(sent) \in Nat /\ Cap \in Nat
  BY SanitizeAssumption
<1>2. Low(0) + 1 = 1 /\ High(Cap, sent) = Len(sent)
  BY <1>1 DEF Low, High
<1>3. QED BY <1>2, SubSeqFull DEF Slice

\* What Locate finds is a structural anchor with a currency near it.
LEMMA QualifyingIs ==
  ASSUME NEW whole \in Seq(Token)
  PROVE  /\ Qualifying(whole) \in SUBSET Nat
         /\ \A i \in Qualifying(whole) :
               /\ \E a \in Structural : i \in Hits(whole, a)
               /\ HasCurrencyWithin(whole, i)
<1>1. \A a : Examined(whole, a) \subseteq Hits(whole, a) /\ Hits(whole, a) \subseteq Nat
  BY HitsOf DEF Examined
<1>2. QED BY <1>1 DEF Qualifying

\* The part of a page that is sent to a model has a rate table with its currency when
\* one of the first MaxHits occurrences of a structural anchor stands in one, and a
\* currency when the page has one, whatever the sizes of page, window and radius.
THEOREM TableIsSent ==
  ASSUME NEW whole \in Seq(Token)
  PROVE  KeepsTable(whole, Shown(whole))
<1>1. /\ Half \in Nat /\ Radius \in Nat /\ Radius >= 1 /\ Radius <= Half /\ Cap \in Nat
  BY SanitizeAssumption DEF Half
<1>2. CASE Qualifying(whole) # {}
  <2> DEFINE c == Smallest(Qualifying(whole))
             first == Low(c - Half)
             sent == WindowAround(whole, c)
  <2>1. Qualifying(whole) \in SUBSET Nat
    BY QualifyingIs
  <2>2. c \in Qualifying(whole)
    BY <1>2, <2>1, LeastOffset
  <2>3. c \in Nat /\ HasCurrencyWithin(whole, c) /\ \E a \in Structural : c \in Hits(whole, a)
    BY <2>1, <2>2, QualifyingIs
  <2>4. Shown(whole) = Slice(sent, 0, Cap)
    BY <1>2 DEF Shown, Locate
  <2> HIDE DEF c
  <2>5. /\ sent \in Seq(Token) /\ Len(sent) <= Cap
        /\ \A t : \A i \in Hits(whole, t) : c - Half <= i /\ i < c + Half =>
              i - first \in Hits(sent, t) /\ first <= i
    BY <2>3, WindowHolds
  <2>6. Shown(whole) = sent
    BY <2>4, <2>5, CapKeeps
  <2> HIDE DEF sent
  <2>7. first \in Nat
    BY <1>1, <2>3 DEF Low
  <2>8. /\ \E a \in Structural : c - first \in Hits(sent, a)
        /\ first <= c
    BY <1>1, <2>3, <2>5
  <2>9. PICK i \in Hits(whole, "C") : c - Radius <= i /\ i < c + Radius
    BY <2>3, NearCurrency
  <2>10. i \in Nat
    BY HitsOf
  <2> HIDE DEF first
  <2>11. i - first \in Hits(sent, "C") /\ first <= i
    BY <1>1, <2>3, <2>5, <2>9, <2>10
  <2>12. /\ c - first \in Nat
         /\ (c - first) - Radius <= i - first /\ i - first < (c - first) + Radius
    BY <1>1, <2>3, <2>7, <2>8, <2>9, <2>10
  <2>13. HasCurrencyWithin(sent, c - first)
    BY <2>5, <2>11, <2>12, NearCurrency
  <2>14. c - first \in Tables(sent)
    BY <2>8, <2>13 DEF Tables
  <2>15. QED BY <2>5, <2>6, <2>11, <2>14 DEF KeepsTable
<1>3. CASE Qualifying(whole) = {} /\ Hits(whole, "C") # {}
  <2> DEFINE c == Smallest(Hits(whole, "C"))
             sent == WindowAround(whole, c)
  <2>1. Hits(whole, "C") \in SUBSET Nat
    BY HitsOf
  <2>2. c \in Hits(whole, "C") /\ c \in Nat
    BY <1>3, <2>1, LeastOffset
  <2>3. Shown(whole) = Slice(sent, 0, Cap)
    BY <1>3 DEF Shown, Locate
  <2> HIDE DEF c
  <2>4. /\ sent \in Seq(Token) /\ Len(sent) <= Cap
        /\ c - Half <= c /\ c < c + Half => c - Low(c - Half) \in Hits(sent, "C")
    BY <2>2, WindowHolds
  <2>5. c - Low(c - Half) \in Hits(sent, "C")
    BY <1>1, <2>2, <2>4
  <2>6. Shown(whole) = sent
    BY <2>3, <2>4, CapKeeps
  <2>7. QED BY <1>3, <2>4, <2>5, <2>6 DEF KeepsTable
<1>4. CASE Qualifying(whole) = {} /\ Hits(whole, "C") = {}
  <2>1. Shown(whole) = Slice(whole, 0, Cap)
    BY <1>4 DEF Shown, Locate
  <2>2. /\ Low(0) = 0 /\ High(Cap, whole) \in Int /\ High(Cap, whole) <= Cap
    BY <1>1 DEF Low, High
  <2>3. Len(Slice(whole, 0, Cap)) = IF Low(0) < High(Cap, whole)
                                   THEN High(Cap, whole) - Low(0) ELSE 0
    BY <1>1, SliceIs
  <2>4. Len(Shown(whole)) <= Cap
    BY <1>1, <2>1, <2>2, <2>3
  <2>5. QED BY <1>4, <2>4 DEF KeepsTable
<1>5. QED BY <1>2, <1>3, <1>4

\* A set of positions in order has a position at every place.
LEMMA PlaceIs ==
  ASSUME NEW size \in Nat, NEW kept \in SUBSET (1 .. size), NEW n \in 1 .. Cardinality(kept)
  PROVE  Ascending(kept)[n] \in kept
<1> DEFINE upTo(j) == {k \in kept : k <= j}
           reach == {j \in 0 .. size : Cardinality(upTo(j)) >= n}
           i == Smallest(reach)
<1>1. IsFiniteSet(kept) /\ Cardinality(kept) \in Nat /\ n \in Nat /\ n >= 1
  <2>1. 1 \in Int /\ size \in Int
    OBVIOUS
  <2>2. IsFiniteSet(1 .. size)
    BY <2>1, FS_Interval
  <2>3. IsFiniteSet(kept)
    BY <2>2, FS_Subset
  <2>4. QED BY <2>3, FS_CardinalityType
<1>2. ASSUME NEW j PROVE IsFiniteSet(upTo(j)) /\ Cardinality(upTo(j)) \in Nat
  <2>1. upTo(j) \in SUBSET kept
    OBVIOUS
  <2> HIDE DEF upTo
  <2>2. QED BY <1>1, <2>1, FS_Subset, FS_CardinalityType
<1>3. size \in reach
  <2>1. upTo(size) = kept
    <3>1. \A k \in kept : k <= size
      OBVIOUS
    <3>2. QED BY <3>1, Zenon
  <2>2. size \in 0 .. size /\ Cardinality(kept) >= n
    BY <1>1
  <2> HIDE DEF upTo
  <2>3. QED BY <2>1, <2>2
<1>4. i \in reach /\ \A y \in reach : i <= y
  <2>1. reach \in SUBSET Nat
    OBVIOUS
  <2> HIDE DEF reach
  <2>2. QED BY <1>3, <2>1, LeastOffset DEF Smallest
<1> HIDE DEF i
<1>5. i \in 0 .. size /\ Cardinality(upTo(i)) >= n
  BY <1>4
<1>6. i # 0
  <2>1. upTo(0) = {}
    <3>1. \A k \in kept : ~(k <= 0)
      OBVIOUS
    <3>2. QED BY <3>1, Zenon
  <2> HIDE DEF upTo
  <2>2. Cardinality(upTo(0)) = 0
    BY <2>1, FS_EmptySet
  <2>3. QED BY <1>1, <1>5, <2>2
<1>7. i - 1 \in 0 .. size /\ ~(Cardinality(upTo(i - 1)) >= n)
  <2>1. i - 1 \in 0 .. size /\ ~(i <= i - 1)
    BY <1>5, <1>6
  <2>2. i - 1 \notin reach
    BY <1>4, <2>1
  <2> HIDE DEF upTo
  <2>3. QED BY <2>1, <2>2
<1>8. i \in kept /\ upTo(i) = upTo(i - 1) \cup {i} /\ i \notin upTo(i - 1)
  <2>1. \A k \in kept : k <= i <=> k <= i - 1 \/ k = i
    BY <1>5
  <2>2. i \in kept
    <3>1. SUFFICES ASSUME i \notin kept PROVE FALSE
      OBVIOUS
    <3>2. upTo(i) = upTo(i - 1)
      BY <2>1, <3>1
    <3> HIDE DEF upTo
    <3>3. QED BY <1>5, <1>7, <3>2
  <2>3. upTo(i) = upTo(i - 1) \cup {i}
    BY <2>1, <2>2, Zenon
  <2>4. ~(i <= i - 1)
    BY <1>5
  <2>5. i \notin upTo(i - 1)
    BY <2>4, Zenon
  <2>6. QED BY <2>2, <2>3, <2>5, Zenon
<1>9. Cardinality({k \in kept : Ahead(k, i)}) = n - 1
  <2>1. {k \in kept : Ahead(k, i)} = upTo(i - 1)
    <3>1. \A k \in kept : Ahead(k, i) <=> k <= i - 1
      BY <1>5 DEF Ahead
    <3>2. QED BY <3>1, Zenon
  <2>2. Cardinality(upTo(i)) = Cardinality(upTo(i - 1)) + 1
    <3> HIDE DEF upTo
    <3>1. QED BY <1>2, <1>8, FS_AddElement
  <2>3. Cardinality(upTo(i - 1)) \in Nat
    BY <1>2
  <2> HIDE DEF upTo
  <2>4. Cardinality(upTo(i - 1)) = n - 1
    BY <1>1, <1>5, <1>7, <2>2, <2>3
  <2>5. QED BY <2>1, <2>4
<1>10. Ascending(kept)[n]
         = CHOOSE x \in kept : Cardinality({y \in kept : Ahead(y, x)}) = n - 1
  BY DEF Ascending, InOrder
<1>11. QED BY <1>8, <1>9, <1>10

\* A page without its blocks is a page.
LEMMA StrippedIs ==
  ASSUME NEW whole \in Seq(Token)
  PROVE  Stripped(whole) \in Seq(Token)
<1> DEFINE kept == {i \in DOMAIN whole : whole[i] # "J"}
<1>1. kept \in SUBSET (1 .. Len(whole)) /\ Len(whole) \in Nat
      /\ \A i \in kept : whole[i] \in Token
  OBVIOUS
<1>2. Stripped(whole) = [n \in 1 .. Cardinality(kept) |-> whole[Ascending(kept)[n]]]
  BY DEF Stripped, Picked
<1> HIDE DEF kept
<1>3. \A n \in 1 .. Cardinality(kept) : Ascending(kept)[n] \in kept
  BY <1>1, PlaceIs
<1>4. Cardinality(kept) \in Nat
  <2>1. 1 \in Int /\ Len(whole) \in Int
    BY <1>1
  <2>2. IsFiniteSet(1 .. Len(whole))
    BY <2>1, FS_Interval
  <2>3. QED BY <1>1, <2>2, FS_Subset, FS_CardinalityType
<1>5. Stripped(whole) \in [1 .. Cardinality(kept) -> Token]
  BY <1>1, <1>2, <1>3
<1>6. QED BY <1>4, <1>5

\* Bodies are pages, so what a process shows to a model keeps the rate table that is
\* among the examined anchors (Generate, Sanitize).
THEOREM ModelsSeeTheTable == Spec => []WindowKeepsTable
<1>1. WindowKeepsTable
  <2>1. ASSUME NEW b \in Bodies PROVE WindowRight(b)
    <3>1. b \in Seq(Token)
      BY SanitizeAssumption DEF Bodies
    <3>2. Stripped(b) \in Seq(Token)
      BY <3>1, StrippedIs
    <3>3. KeepsTable(Stripped(b), Shown(Stripped(b)))
      BY <3>2, TableIsSent
    <3>4. QED BY <3>3 DEF WindowRight, Sanitized
  <2>2. QED BY <2>1 DEF WindowKeepsTable
<1>2. QED BY <1>1, PTL
=============================================================================
