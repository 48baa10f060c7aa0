SPECIFICATION Spec
CONSTANTS
    r1 = r1
    r2 = r2
    Replicas <- MCReplicas
    TotalSteps = 3
    VersionNamesWeights = FALSE
    MaxLaunches = 3
    MaxFaults = 0
INVARIANT
    RestartIsAccepted
CHECK_DEADLOCK FALSE
