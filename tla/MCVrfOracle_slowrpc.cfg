CONSTANTS
    r1 = r1
    r2 = r2
    Requests <- MCRequests
    Window = 2
    MaxFaults = 1
    MaxRestarts = 0
    SlowRpc = TRUE
    KeyMismatch = FALSE
SPECIFICATION Spec
SYMMETRY MCSymmetry
INVARIANT NoConcurrentSubmission
