SPECIFICATION FairSpec
CONSTANTS
    MaxTurns = 2
    MaxCancels = 2
INVARIANTS
    DrainedBeforeRelease
    NothingHeld
    CancellationWins
    ReleaseCleansServer
    EveryAwaitIsServed
PROPERTY EveryRunEnds
CHECK_DEADLOCK FALSE
