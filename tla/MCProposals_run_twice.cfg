SPECIFICATION Spec
CONSTANTS
    Agents = {a1}
    Dashes = {d1}
    Bots = {}
    Drainer = drainer
    InTree = {a1}
    AutoRun = {}
    AutoApply = {}
    Overlap = {a1}
    Proposers = {a1}
    MayStop = FALSE
    MaxCards = 3
    MaxTurns = 2
    MaxCrashes = 0
    a1 = a1
    d1 = d1
INVARIANT RunsOnce
CHECK_DEADLOCK FALSE
