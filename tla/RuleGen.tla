------------------------------- MODULE RuleGen -------------------------------
(***************************************************************************)
(* Generation of extraction rules (doctor rulegen) beside the admin's      *)
(* toggle of a source, over the table rate_sources.                        *)
(*                                                                         *)
(* Each element of Doctor is a slot for one doctor process at a time: cron *)
(* starts rulegen --all, an operator starts rulegen <name>, and nothing    *)
(* keeps them apart (LockManager has no user outside its test).  A process *)
(* reads a source, fetches its page, asks the models one attempt after the *)
(* other and writes the whole row back.  Each element of Admin is a PATCH  *)
(* /api/sources/{name}/active in flight: it reads the row in one           *)
(* transaction and writes the whole row back in another.                   *)
(*                                                                         *)
(* A source is a number, in the order of the names; a rule chain is the    *)
(* layout of the page it extracts the rate from.                           *)
(***************************************************************************)
EXTENDS Naturals, FiniteSets, Sequences, Sanitize

CONSTANTS
    NumSource,      \* names anyone may ask for
    Seeded,         \* those that have a row
    Kinds,          \* fetcher_kind of the rows, one function per initial state
    BadURL,         \* sources whose url is not http or https
    Doctor,         \* slots for doctor processes
    Admin,          \* slots for toggle requests
    MaxPrimary,     \* attempts with the primary model
    MaxFallback,    \* attempts with the fallback model
    StubFallback,   \* no fallback is configured: the stub answers
    Redesigned,     \* bound: sources whose page may change
    MaxLayout,      \* bound: redesigns of a page
    MaxRuns,        \* bound: doctor commands
    MaxToggles      \* bound: toggle requests

Source == 1..NumSource
Kind == {"", "plain", "chromedp", "unknown"}

ASSUME RuleGenAssumption ==
    /\ NumSource \in Nat \ {0} /\ Seeded \subseteq Source /\ BadURL \subseteq Source
    /\ Redesigned \subseteq Seeded
    /\ Kinds \subseteq [Seeded -> Kind]
    /\ MaxPrimary \in Nat \ {0} /\ MaxFallback \in Nat \ {0}
    /\ StubFallback \in BOOLEAN
    /\ MaxLayout \in Nat /\ MaxRuns \in Nat /\ MaxToggles \in Nat

VARIABLES
    rows,           \* rate_sources
    page,           \* the layout each site serves now
    pc,             \* where a doctor process is
    all,            \* it runs --all
    forced,         \* it runs with --force-fallback
    todo,           \* sources --all has still to visit
    off,            \* sources that were inactive when --all listed them
    tally,          \* counters of the --all summary
    name,           \* the source in hand
    copy,           \* its row, as Generate read it
    body,           \* the layout Generate fetched
    chain,          \* the chain that extracted the rate from it
    prim,           \* primary attempts made
    fall,           \* fallback attempts made
    transcript,     \* numbers of the failed attempts, as the prompt lists them
    exit,           \* exit code of the last command
    toggle,         \* toggle requests between their two transactions
    wrote,          \* history: sources the process has written rules of
    asked,          \* history: what the last toggle and generation asked for
    stale,          \* history: fields whose last write took them from an old copy
    runs, toggles   \* bounds

doctorVars == <<pc, all, forced, todo, off, tally, name, copy, body, chain, prim,
                fall, transcript, exit, wrote>>
adminVars == <<toggle, toggles>>
tableVars == <<rows, asked, stale>>
vars == <<rows, page, pc, all, forced, todo, off, tally, name, copy, body, chain,
          prim, fall, transcript, exit, toggle, wrote, asked, stale, runs, toggles>>

Layout == 0..MaxLayout
\* used = 0 is the seed; ver counts the writes of the row.
Row == [active : BOOLEAN, kind : Kind, rules : Layout,
        used : 0..(MaxPrimary + MaxFallback), ver : Nat]
NoRow == [active |-> FALSE, kind |-> "", rules |-> 0, used |-> 0, ver |-> 0]
Tally == [ok : Nat, failed : Nat, skipped : Nat]
Zero == [ok |-> 0, failed |-> 0, skipped |-> 0]
Stage == {"idle", "list", "next", "load", "fetch", "ask", "persist"}
Generating == {"load", "fetch", "ask", "persist"}
NoToggle == [source |-> 0, active |-> FALSE, copy |-> NoRow]
Toggle == [source : Seeded, active : BOOLEAN, copy : Row]

TypeOK ==
    /\ rows \in [Seeded -> Row]
    /\ page \in [Seeded -> Layout]
    /\ pc \in [Doctor -> Stage]
    /\ all \in [Doctor -> BOOLEAN] /\ forced \in [Doctor -> BOOLEAN]
    /\ todo \in [Doctor -> SUBSET Seeded] /\ off \in [Doctor -> SUBSET Seeded]
    /\ tally \in [Doctor -> Tally]
    /\ name \in [Doctor -> Source]
    /\ copy \in [Doctor -> Row]
    /\ body \in [Doctor -> Layout] /\ chain \in [Doctor -> Layout]
    /\ prim \in [Doctor -> 0..MaxPrimary] /\ fall \in [Doctor -> 0..MaxFallback]
    /\ transcript \in [Doctor -> Seq(1..(MaxPrimary + MaxFallback))]
    /\ exit \in [Doctor -> {"none", "0", "1", "2", "3"}]
    /\ toggle \in [Admin -> Toggle \cup {NoToggle}]
    /\ wrote \in [Doctor -> SUBSET Seeded]
    /\ asked \in [Seeded -> [active : BOOLEAN, rules : Layout]]
    /\ stale \in [Seeded -> SUBSET {"active", "rules"}]
    /\ runs \in Nat /\ toggles \in Nat

Init ==
    /\ \E kind \in Kinds :
          rows = [s \in Seeded |-> [NoRow EXCEPT !.active = TRUE, !.kind = kind[s]]]
    /\ page = [s \in Seeded |-> 0]
    /\ pc = [d \in Doctor |-> "idle"]
    /\ all = [d \in Doctor |-> FALSE] /\ forced = [d \in Doctor |-> FALSE]
    /\ todo = [d \in Doctor |-> {}] /\ off = [d \in Doctor |-> {}]
    /\ tally = [d \in Doctor |-> Zero]
    /\ name = [d \in Doctor |-> 1]
    /\ copy = [d \in Doctor |-> NoRow]
    /\ body = [d \in Doctor |-> 0] /\ chain = [d \in Doctor |-> 0]
    /\ prim = [d \in Doctor |-> 0] /\ fall = [d \in Doctor |-> 0]
    /\ transcript = [d \in Doctor |-> <<>>]
    /\ exit = [d \in Doctor |-> "none"]
    /\ toggle = [a \in Admin |-> NoToggle]
    /\ wrote = [d \in Doctor |-> {}]
    /\ asked = [s \in Seeded |-> [active |-> TRUE, rules |-> 0]]
    /\ stale = [s \in Seeded |-> {}]
    /\ runs = 0 /\ toggles = 0
-----------------------------------------------------------------------------
(* rate_sources                                                            *)

\* ObtainRateSourceByName: the row of a name, or none.
ObtainRateSourceByName(s) == IF s \in Seeded THEN rows[s] ELSE NoRow

\* ObtainAllRateSources, as far as runAll looks at it.
Inactive == {s \in Seeded : ~rows[s].active}

Canonical(kind) == IF kind = "" THEN "plain" ELSE kind

\* RetainRateSource updates every column of the row; an unknown kind is refused.
RetainRateSource(s, row) ==
    /\ row.kind # "unknown"
    /\ rows' = [rows EXCEPT ![s] =
          [active |-> row.active, kind |-> Canonical(row.kind), rules |-> row.rules,
           used |-> row.used, ver |-> rows[s].ver + 1]]

\* Which of the other writer's fields go back to what an old copy says.
Rewritten(s, field, row) == IF row.ver = rows[s].ver THEN {} ELSE {field}
-----------------------------------------------------------------------------
(* A doctor process                                                        *)

Goto(d, stage) == pc' = [pc EXCEPT ![d] = stage]

\* Generate returns, and what it had read and tried is gone.
Forget(d) ==
    /\ name' = [name EXCEPT ![d] = 1]
    /\ copy' = [copy EXCEPT ![d] = NoRow]
    /\ body' = [body EXCEPT ![d] = 0]
    /\ chain' = [chain EXCEPT ![d] = 0]
    /\ prim' = [prim EXCEPT ![d] = 0]
    /\ fall' = [fall EXCEPT ![d] = 0]
    /\ transcript' = [transcript EXCEPT ![d] = <<>>]

Quit(d, code) ==
    /\ Goto(d, "idle")
    /\ exit' = [exit EXCEPT ![d] = code]
    /\ todo' = [todo EXCEPT ![d] = {}]
    /\ off' = [off EXCEPT ![d] = {}]
    /\ tally' = [tally EXCEPT ![d] = Zero]
    /\ Forget(d)

\* mutant of Counted: a failure is logged and not counted
OnlySuccess(t, ok) == IF ok THEN [t EXCEPT !.ok = @ + 1] ELSE t

Counted(t, ok) ==
    IF ok THEN [t EXCEPT !.ok = @ + 1] ELSE [t EXCEPT !.failed = @ + 1]

\* --all counts the outcome and goes on; a single command exits with a code.
Returned(d, ok, code) ==
    \/ /\ all[d]
       /\ tally' = [tally EXCEPT ![d] = Counted(@, ok)]
       /\ Goto(d, "next")
       /\ Forget(d)
       /\ UNCHANGED <<todo, off, exit>>
    \/ ~all[d] /\ Quit(d, code)

\* runRulegen: flags, settings, database, clients; any of them may fail (3).
Command(d) ==
    /\ pc[d] = "idle" /\ runs < MaxRuns
    /\ runs' = runs + 1
    /\ wrote' = [wrote EXCEPT ![d] = {}]
    /\ \E every \in BOOLEAN, force \in BOOLEAN, s \in Source :
          /\ every => s = 1
          /\ all' = [all EXCEPT ![d] = every]
          /\ forced' = [forced EXCEPT ![d] = force]
          /\ name' = [name EXCEPT ![d] = s]
          /\ \/ /\ Goto(d, IF every THEN "list" ELSE "load")
                /\ exit' = [exit EXCEPT ![d] = "none"]
             \/ /\ s = 1
                /\ exit' = [exit EXCEPT ![d] = "3"]
                /\ UNCHANGED pc
    /\ UNCHANGED <<page, todo, off, tally, copy, body, chain, prim, fall, transcript,
                   tableVars, adminVars>>

\* runAll reads every source once; when that fails it says nothing was done.
List(d) ==
    /\ pc[d] = "list"
    /\ \/ /\ todo' = [todo EXCEPT ![d] = Seeded]
          /\ off' = [off EXCEPT ![d] = Inactive]
          /\ Goto(d, "next")
          /\ UNCHANGED <<tally, name, copy, body, chain, prim, fall, transcript,
                         exit>>
       \/ Quit(d, "0")
    /\ UNCHANGED <<page, all, forced, wrote, runs, tableVars, adminVars>>

\* Names come in descending order; a source inactive in the list is skipped.
VisitNext(d) ==
    /\ pc[d] = "next"
    /\ \E s \in todo[d] :
          /\ \A t \in todo[d] : t <= s
          /\ todo' = [todo EXCEPT ![d] = @ \ {s}]
          /\ \/ /\ s \in off[d]
                /\ tally' = [tally EXCEPT ![d].skipped = @ + 1]
                /\ UNCHANGED <<pc, name>>
             \/ /\ s \notin off[d]
                /\ name' = [name EXCEPT ![d] = s]
                /\ Goto(d, "load")
                /\ UNCHANGED tally
    /\ UNCHANGED <<page, all, forced, off, copy, body, chain, prim, fall, transcript,
                   exit, wrote, runs, tableVars, adminVars>>

Summarise(d) ==
    /\ pc[d] = "next" /\ todo[d] = {}
    /\ Quit(d, "0")
    /\ UNCHANGED <<page, all, forced, wrote, runs, tableVars, adminVars>>

ValidURL(s) == s \notin BadURL

\* What Generate cannot work with, and the exit code a single command gets.
Unusable(s) ==
    CASE s \notin Seeded -> "1"
      [] s \in Seeded /\ rows[s].kind = "unknown" -> "2"
      [] s \in Seeded /\ rows[s].kind # "unknown" /\ ~ValidURL(s) -> "1"
      [] OTHER -> "0"

Load(d) ==
    /\ pc[d] = "load"
    /\ \/ /\ Unusable(name[d]) = "0"
          /\ copy' = [copy EXCEPT ![d] = ObtainRateSourceByName(name[d])]
          /\ Goto(d, "fetch")
          /\ UNCHANGED <<todo, off, tally, name, body, chain, prim, fall, transcript,
                         exit>>
       \/ /\ Unusable(name[d]) # "0"
          /\ Returned(d, FALSE, Unusable(name[d]))
       \/ Returned(d, FALSE, "1")      \* the read fails
    /\ UNCHANGED <<page, all, forced, wrote, runs, tableVars, adminVars>>

Served(s) == page[s]

\* The page as served now; or no answer, a bad status, more than 5 MB.
Fetch(d) ==
    /\ pc[d] = "fetch"
    /\ \/ /\ body' = [body EXCEPT ![d] = Served(name[d])]
          /\ Goto(d, "ask")
          /\ UNCHANGED <<todo, off, tally, name, copy, chain, prim, fall, transcript,
                         exit>>
       \/ Returned(d, FALSE, "1")
    /\ UNCHANGED <<page, all, forced, wrote, runs, tableVars, adminVars>>
-----------------------------------------------------------------------------
(* Attempts                                                                *)

\* What a model answers: a chain, or nothing usable (a transport or provider
\* error, no JSON, no rules, an unknown method, a regexp that does not compile).
NoChain == MaxLayout + 1
PrimaryReply == 0..NoChain
FallbackReply == IF StubFallback THEN {0} ELSE 0..NoChain

\* mutant of Executes: anything that parses is taken
Parses(c, layout) == c # NoChain

\* RuleExecutor.Execute: a plausible number comes out of the body.
Executes(c, layout) == c = layout

\* What the next prompt says of the attempts before it.
Prompt(d) == transcript[d]

AttemptCount(d) == prim[d] + fall[d]

\* The primary loop still has attempts and --force-fallback does not skip it.
InPrimary(d) == ~forced[d] /\ prim[d] < MaxPrimary

Accept(d, c) ==
    /\ Executes(c, body[d])
    /\ chain' = [chain EXCEPT ![d] = c]
    /\ Goto(d, "persist")
    /\ UNCHANGED transcript

Reject(d, c, number) ==
    /\ ~Executes(c, body[d])
    /\ transcript' = [transcript EXCEPT ![d] = Append(@, number)]
    /\ UNCHANGED <<pc, chain>>

AskPrimary(d) ==
    /\ pc[d] = "ask" /\ InPrimary(d)
    /\ prim' = [prim EXCEPT ![d] = @ + 1]
    /\ \E c \in PrimaryReply : Accept(d, c) \/ Reject(d, c, prim[d] + 1)
    /\ UNCHANGED <<page, all, forced, todo, off, tally, name, copy, body, fall, exit,
                   wrote, runs, tableVars, adminVars>>

\* mutant of FallbackNumber: each loop numbers its own attempts
LoopNumber(d) == fall[d] + 1

\* The transcript goes on from the primary's; its entries count all attempts.
FallbackNumber(d) == AttemptCount(d) + 1

AskFallback(d) ==
    /\ pc[d] = "ask" /\ ~InPrimary(d) /\ fall[d] < MaxFallback
    /\ fall' = [fall EXCEPT ![d] = @ + 1]
    /\ \E c \in FallbackReply : Accept(d, c) \/ Reject(d, c, FallbackNumber(d))
    /\ UNCHANGED <<page, all, forced, todo, off, tally, name, copy, body, prim, exit,
                   wrote, runs, tableVars, adminVars>>

\* mutant of Exhausted: the loop starts again with the primary
Restarted(d) ==
    /\ pc[d] = "ask" /\ ~InPrimary(d) /\ fall[d] = MaxFallback
    /\ fall' = [fall EXCEPT ![d] = 0]
    /\ transcript' = [transcript EXCEPT ![d] = <<>>]
    /\ UNCHANGED <<page, pc, all, forced, todo, off, tally, name, copy, body, chain,
                   prim, exit, wrote, runs, tableVars, adminVars>>

Exhausted(d) ==
    /\ pc[d] = "ask" /\ ~InPrimary(d) /\ fall[d] = MaxFallback
    /\ Returned(d, FALSE, "1")
    /\ UNCHANGED <<page, all, forced, wrote, runs, tableVars, adminVars>>

\* mutant of Generated: the rules come with a row that is switched on
SwitchedOn(d) ==
    [copy[d] EXCEPT !.active = TRUE, !.rules = chain[d], !.used = AttemptCount(d)]

\* The row as it was read, with the new rules and how many attempts they took.
Generated(d) == [copy[d] EXCEPT !.rules = chain[d], !.used = AttemptCount(d)]

Persist(d) ==
    /\ pc[d] = "persist"
    /\ LET s == name[d] IN
       \/ /\ RetainRateSource(s, Generated(d))
          /\ asked' = [asked EXCEPT ![s].rules = chain[d]]
          /\ stale' = [stale EXCEPT ![s] =
                (@ \ {"rules"}) \cup Rewritten(s, "active", copy[d])]
          /\ wrote' = [wrote EXCEPT ![d] = @ \cup {s}]
          /\ Returned(d, TRUE, "0")
       \/ /\ Returned(d, FALSE, "1")      \* the transaction fails
          /\ UNCHANGED <<tableVars, wrote>>
    /\ UNCHANGED <<page, all, forced, runs, adminVars>>

\* --all recovers a panic and counts it; elsewhere it ends the process (2).
Panic(d) ==
    /\ pc[d] \in Generating
    /\ Returned(d, FALSE, "2")
    /\ UNCHANGED <<page, all, forced, wrote, runs, tableVars, adminVars>>

\* A killed process leaves no code.
Crash(d) ==
    /\ pc[d] # "idle"
    /\ Quit(d, "none")
    /\ UNCHANGED <<page, all, forced, wrote, runs, tableVars, adminVars>>
-----------------------------------------------------------------------------
(* The admin's toggle, and the sites                                       *)

\* ToggleSourceActive up to the first transaction; an unknown name is a 404.
ToggleRead(a) ==
    /\ toggle[a] = NoToggle /\ toggles < MaxToggles
    /\ toggles' = toggles + 1
    /\ \E s \in Source, want \in BOOLEAN :
          \/ /\ s \in Seeded
             /\ toggle' = [toggle EXCEPT ![a] =
                   [source |-> s, active |-> want, copy |-> ObtainRateSourceByName(s)]]
          \/ s \notin Seeded /\ UNCHANGED toggle
    /\ UNCHANGED <<page, runs, tableVars, doctorVars>>

\* The second transaction: 204, or a 500 that leaves the row alone.
ToggleWrite(a) ==
    /\ toggle[a] # NoToggle
    /\ LET t == toggle[a] IN
       \/ /\ RetainRateSource(t.source, [t.copy EXCEPT !.active = t.active])
          /\ asked' = [asked EXCEPT ![t.source].active = t.active]
          /\ stale' = [stale EXCEPT ![t.source] =
                (@ \ {"active"}) \cup Rewritten(t.source, "rules", t.copy)]
       \/ UNCHANGED tableVars
    /\ toggle' = [toggle EXCEPT ![a] = NoToggle]
    /\ UNCHANGED <<page, runs, toggles, doctorVars>>

Redesign(s) ==
    /\ page[s] < MaxLayout
    /\ page' = [page EXCEPT ![s] = @ + 1]
    /\ UNCHANGED <<runs, tableVars, doctorVars, adminVars>>

DoctorStep(d) ==
    \/ List(d) \/ VisitNext(d) \/ Summarise(d)
    \/ Load(d) \/ Fetch(d) \/ AskPrimary(d) \/ AskFallback(d) \/ Exhausted(d)
    \/ Persist(d) \/ Panic(d)

Next ==
    \/ \E d \in Doctor : Command(d) \/ DoctorStep(d) \/ Crash(d)
    \/ \E a \in Admin : ToggleRead(a) \/ ToggleWrite(a)
    \/ \E s \in Redesigned : Redesign(s)

\* Every fetch and every model call has a timeout, so a process gets on.
Fairness == \A d \in Doctor : WF_vars(DoctorStep(d))

Spec == Init /\ [][Next]_vars /\ Fairness
-----------------------------------------------------------------------------
(* Properties                                                              *)

\* What the last confirmed toggle and the last generation asked for is what the
\* row says, unless a writer put a field back from a copy it had read before
\* (neither UpdateRateSourceActive nor Generate may lose the other's write in
\* any other way).
UndoneOnlyByRace == \A s \in Seeded :
    /\ rows[s].active # asked[s].active => "active" \in stale[s]
    /\ rows[s].rules # asked[s].rules => "rules" \in stale[s]

\* Generated rules give way to rules for an older layout only when their writer
\* held an old copy of the row (a toggle, or a second doctor).
NoOlderRules ==
    [][\A s \in Seeded : rows'[s].rules < rows[s].rules => stale'[s] # {}]_vars

\* The prompt numbers the failed attempts of both loops 1, 2, 3, ... without a
\* gap; the fallback is asked only when the primary has used all its attempts or
\* was skipped; and the attempts written to the row are those that were made.
AttemptsInOrder == \A d \in Doctor :
    /\ \A i \in DOMAIN Prompt(d) : Prompt(d)[i] = i
    /\ pc[d] = "ask" => Len(transcript[d]) = AttemptCount(d)
    /\ pc[d] = "persist" => Len(transcript[d]) + 1 = AttemptCount(d)
    /\ fall[d] > 0 /\ ~forced[d] => prim[d] = MaxPrimary

\* The summary of --all accounts for every source once (or, when they could not
\* be listed, for none) and counts as succeeded exactly those whose rules were
\* written; a single command exits with 0 exactly when it wrote rules.
Accounted(d) == tally[d].ok + tally[d].failed + tally[d].skipped
Ends(d, code) == pc[d] # "idle" /\ pc'[d] = "idle" /\ exit'[d] = code
SummaryIsTrue == [][\A d \in Doctor :
    /\ all[d] /\ Ends(d, "0") => /\ tally[d].ok = Cardinality(wrote[d])
                                 /\ Accounted(d) \in {0, Cardinality(Seeded)}
    /\ ~all[d] /\ Ends(d, "0") => rows'[name[d]] # rows[name[d]]
    /\ ~all[d] /\ (\E code \in {"1", "2"} : Ends(d, code)) => rows' = rows]_vars

\* Every doctor process ends: no loop over attempts or sources goes on for ever.
ProcessEnds == \A d \in Doctor : pc[d] # "idle" ~> pc[d] = "idle"

\* Whatever a site serves, the part of it that Generate shows to a model (Sanitize)
\* has what the model needs (KeepsTable).  Stated of the states before the first
\* command, since it depends on nothing a command does.
WindowKeepsTable == runs = 0 /\ toggles = 0 => \A b \in Bodies : WindowRight(b)
=============================================================================
