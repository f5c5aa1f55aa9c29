SPECIFICATION FairSpec
CONSTANTS
    Agents = {a1}
    Dashes = {d1}
    Bots = {}
    Drainer = drainer
    InTree = {a1}
    AutoRun = {}
    AutoApply = {}
    Overlap = {}
    Proposers = {a1}
    MayStop = FALSE
    MaxCards = 3
    MaxTurns = 2
    MaxCrashes = 0
    a1 = a1
    d1 = d1
PROPERTY QueuedRuns
CHECK_DEADLOCK FALSE
