CONSTANTS
    r1 = r1
    r2 = r2
    Requests <- MCRequests
    Window = 2
    MaxFaults = 1
    MaxRestarts = 1
    SlowRpc = FALSE
    KeyMismatch = FALSE
SPECIFICATION Spec
SYMMETRY MCSymmetry
INVARIANT NoConcurrentSubmission
