SPECIFICATION FairSpec
CONSTANTS
    MaxUpdates = 2
    Dashes = {1, 2, 3, 4, 5}
    GiveUp = 1
    MaxRuns = 2
    MaxFaults = 2
INVARIANT KeepsGood
INVARIANT SameBuild
INVARIANT NoStrays
PROPERTY Recovers
PROPERTY DashboardBack
CHECK_DEADLOCK FALSE
