CONSTANTS
    r1 = r1
    r2 = r2
    Requests <- MCRequests
    Window = 2
    MaxFaults = 2
    MaxRestarts = 0
    SlowRpc = FALSE
    KeyMismatch = FALSE
SPECIFICATION Spec
SYMMETRY MCSymmetry
INVARIANT NoConcurrentSubmission
PROPERTY ImplementsAbstract
