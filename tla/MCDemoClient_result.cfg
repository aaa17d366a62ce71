CONSTANTS
    MaxClicks = 2
    MaxCancels = 1
    MaxPolls = 2
SPECIFICATION Spec
INVARIANT DisplayedResultIsCurrent
CHECK_DEADLOCK FALSE
