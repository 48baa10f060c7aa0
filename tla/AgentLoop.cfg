SPECIFICATION Spec
CHECK_DEADLOCK FALSE
CONSTANTS
    MaxTokens = 2
    None = None
    Configs <- MCConfigs
INVARIANTS
    RecordAccepted
    ContextIsValid
    CapHolds
    ErrorsAreHonest
    StopTellsTheEnd
    MachineNeverRaises
PROPERTIES
    EveryTrajectoryEnds
