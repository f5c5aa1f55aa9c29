SPECIFICATION Spec
CONSTANTS
    check = check
    ask = ask
    Origins = {ask, check}
    Scheduled = {}
    Scripts = {}
    Debounced = {ask}
    Parallel <- TwoAndOne
    MaxRuns <- NoLimit
    Newest = 2
    Slots = 2
    MaxTries = 1
    Keys = {k1, k2}
    Deliveries = 2
    MaxJobs = 2
    ByHand = {}
    MayDisable = {}
    MaxEvents = 2
    k1 = k1
    k2 = k2
SYMMETRY KeysAlike
INVARIANT FoldedRuns
INVARIANT OneEach
CHECK_DEADLOCK FALSE
