SPECIFICATION Spec
CONSTANTS
    Agents = {a1}
    Dashes = {d1, d2}
    Bots = {}
    Drainer = drainer
    InTree = {a1}
    AutoRun = {a1}
    AutoApply = {a1}
    Overlap = {}
    Proposers = {a1}
    MayStop = FALSE
    MaxCards = 3
    MaxTurns = 2
    MaxCrashes = 1
    a1 = a1
    d1 = d1
    d2 = d2
SYMMETRY People2
INVARIANT TypeOK
INVARIANT RecordTrue
INVARIANT RunsOnce
INVARIANT OneDecision
PROPERTY InOrder
PROPERTY KeepsPromise
CHECK_DEADLOCK FALSE
