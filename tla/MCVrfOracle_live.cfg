CONSTANTS
    r1 = r1
    r2 = r2
    Requests <- MCRequests
    Window = 2
    MaxFaults = 2
    MaxRestarts = 1
    SlowRpc = TRUE
    KeyMismatch = FALSE
SPECIFICATION FairSpec
INVARIANT FulfilledCountSound
PROPERTY PendingEventuallyResolved
INVARIANT SuccessRateBounded
