SPECIFICATION Spec
CONSTANTS
    r1 = r1
    r2 = r2
    r3 = r3
    Roles = {r1, r2}
    Askable = {r1, r2}
    Flows = {}
    Voters <- MCNoVote
    Together = {{r1, r2}}
    MaxTurns = 2
    MaxRounds = 0
    Concurrency = 2
    MaxTries = 3
    Refusable = {}
    MaxCards = 0
    Graphs <- MCGraphs
    AtOnce = 2
    MaxSteps = 6
    NoGraph = NoGraph
INVARIANT NoneForgotten
CHECK_DEADLOCK FALSE
