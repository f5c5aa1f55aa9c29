SPECIFICATION FairSpec
CONSTANTS
    Agents = {a1, a2}
    Dashes = {}
    Bots = {b1}
    Drainer = drainer
    InTree = {a1}
    AutoRun = {a2}
    AutoApply = {a2}
    Overlap = {a1}
    Proposers = {a2}
    MayStop = TRUE
    MaxCards = 3
    MaxTurns = 3
    MaxCrashes = 0
    a1 = a1
    a2 = a2
    b1 = b1
PROPERTY QueuedRuns
PROPERTY DiffStaysDecided
CHECK_DEADLOCK FALSE
