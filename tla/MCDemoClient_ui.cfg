CONSTANTS
    MaxClicks = 3
    MaxCancels = 2
    MaxPolls = 2
SPECIFICATION FairSpec
INVARIANT WaitingHasPoller
PROPERTY UiSettles
\* The page's work ends once every click is spent.
CHECK_DEADLOCK FALSE
