CONSTANTS
    MaxClicks = 2
    MaxCancels = 1
    MaxPolls = 2
SPECIFICATION Spec
PROPERTY CancelStaysIdle
CHECK_DEADLOCK FALSE
