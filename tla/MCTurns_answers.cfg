SPECIFICATION Spec
CONSTANTS
    People = {p1}
    Agents = {a1, a2}
    ChatAgent = a1
    MaxHops = 2
    MaxAnswers = 3
    MayRefuse = FALSE
    MaxTags = 1
    MaxTasks = 0
    MaxMsgs = 3
    MaxTurns = 3
    MaxStops = 1
    MaxDowns = 1
    p1 = p1
    a1 = a1
    a2 = a2
INVARIANT TypeOK
INVARIANT Held
INVARIANT ShutdownMissesNone
INVARIANT OnceEach
PROPERTY NotLost
PROPERTY PersonOrder
CHECK_DEADLOCK FALSE
