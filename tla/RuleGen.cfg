\* Two doctors beside one toggle; a page that changes once.
CONSTANTS
    NumSource = 3
    Seeded = {1, 2}
    Kinds <- MCKinds
    BadURL = {}
    Doctor = {d1, d2}
    Admin = {a1}
    MaxPrimary = 1
    MaxFallback = 1
    StubFallback = FALSE
    Redesigned = {1}
    MaxLayout = 1
    MaxRuns = 2
    MaxToggles = 1
    Structural = {"S", "T"}
    MaxHits = 1
    Window = 4
    Radius = 1
    Cap = 4
    MaxRaw = 5
    MaxBody = 6
SPECIFICATION Spec
INVARIANTS
    UndoneOnlyByRace
    AttemptsInOrder
    WindowKeepsTable
PROPERTIES
    NoOlderRules
    SummaryIsTrue
    ProcessEnds
CHECK_DEADLOCK FALSE
