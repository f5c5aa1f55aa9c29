SPECIFICATION FairSpec
CONSTANTS
    check = check
    ask = ask
    Origins = {check, ask}
    Scheduled = {check}
    Scripts = {check}
    Debounced = {}
    Parallel <- TwoAndOne
    MaxRuns <- OneOfEach
    Newest = 2
    Slots = 2
    MaxTries = 1
    Keys = {}
    Deliveries = 0
    MaxJobs = 2
    ByHand = {ask}
    MayDisable = {check}
    MaxEvents = 2
INVARIANT TypeOK
INVARIANT ParallelKept
INVARIANT RunsOnce
INVARIANT RunsKept
PROPERTY CancelStands
PROPERTY Ends
CHECK_DEADLOCK FALSE
