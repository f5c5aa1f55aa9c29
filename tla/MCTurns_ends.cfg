SPECIFICATION FairSpec
CONSTANTS
    People = {p1}
    Agents = {a1, a2}
    ChatAgent = a1
    MaxHops = 4
    MaxAnswers = 2
    MayRefuse = TRUE
    MaxTags = 0
    MaxTasks = 1
    MaxMsgs = 2
    MaxTurns = 12
    MaxStops = 0
    MaxDowns = 1
    p1 = p1
    a1 = a1
    a2 = a2
CHECK_DEADLOCK FALSE
PROPERTY Settles
PROPERTY WaitingGoes
INVARIANT AnswersKept
