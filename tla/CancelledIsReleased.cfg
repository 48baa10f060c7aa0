SPECIFICATION Spec
CONSTANTS
    MaxTurns = 1
    MaxCancels = 1
INVARIANT CancelledIsReleased
CHECK_DEADLOCK FALSE
