CONSTANTS
    Instances = {p1}
    Keys = {k1, k2, k3}
    MaxRuns = 4
    NoKey = NoKey
SYMMETRY KeySymmetry
SPECIFICATION Spec
INVARIANT TypeOK
CHECK_DEADLOCK FALSE
PROPERTY KeyWrittenOnce
