SPECIFICATION Spec
CONSTANTS
    r1 = r1
    r2 = r2
    r3 = r3
    Roles = {r1, r2, r3}
    Askable = {r1}
    Flows = {r2}
    Voters <- MCVoters
    Together = {{r1, r2}}
    MaxTurns = 2
    MaxRounds = 1
    Concurrency = 2
    MaxTries = 2
    Refusable <- MCRefusable
    MaxCards = 1
    Graphs <- MCGraphs
    AtOnce = 2
    MaxSteps = 6
    NoGraph = NoGraph
INVARIANT TypeOK
INVARIANT SeatTrue
INVARIANT LimitsKept
INVARIANT SideBySide
PROPERTY DoneClean
INVARIANT Joined
CHECK_DEADLOCK FALSE
PROPERTY CallKept
PROPERTY CallerAnswered
