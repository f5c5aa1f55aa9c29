SPECIFICATION Spec
CONSTANTS
    People = {p1}
    Agents = {a1, a2, a3}
    ChatAgent = a1
    MaxHops = 2
    MaxAnswers = 4
    MayRefuse = FALSE
    MaxTags = 1
    MaxTasks = 1
    MaxMsgs = 2
    MaxTurns = 6
    MaxStops = 0
    MaxDowns = 0
    p1 = p1
    a1 = a1
    a2 = a2
    a3 = a3
INVARIANT AgentAlone
CHECK_DEADLOCK FALSE
