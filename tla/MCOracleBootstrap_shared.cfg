CONSTANTS
    Instances = {p1, p2}
    Keys = {k1, k2, k3}
    MaxRuns = 1
    NoKey = NoKey
SPECIFICATION Spec
INVARIANT KeyStable
CHECK_DEADLOCK FALSE
