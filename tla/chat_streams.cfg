SPECIFICATION Spec
CHECK_DEADLOCK FALSE
CONSTANTS
    N = 2
    TemporaryValues = {TRUE, FALSE}
    MaxFaults = 1
INVARIANTS
    DiscardedStaysDiscarded
    MessagesSavedOnce
    CleanStartNotStopped
    FinishedStreamNotActive
