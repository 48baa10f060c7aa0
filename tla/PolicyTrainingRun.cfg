SPECIFICATION Spec
CONSTANTS
    r1 = r1
    r2 = r2
    Replicas <- MCReplicas
    TotalSteps = 3
    VersionNamesWeights = FALSE
    MaxLaunches = 3
    MaxFaults = 2
INVARIANTS
    CommittedGenerationIsExact
    RolloutIsLabelled
    CheckpointsAreQuiet
    SavedIsResumable
    LogNeverContradictsCheckpoint
PROPERTIES
    EventuallyTrained
    ImplementsResumableTraining
CHECK_DEADLOCK FALSE
