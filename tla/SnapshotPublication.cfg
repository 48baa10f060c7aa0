SPECIFICATION Spec
CONSTANTS
    w0 = w0
    w1 = w1
    r1 = r1
    r2 = r2
    Weights <- MCWeights
    InitialWeights = w0
    Readers <- MCReaders
    TotalSteps = 1
    MaxLaunches = 2
INVARIANTS
    LabelsAreTrue
    RefusedOnlyIfDisturbed
PROPERTIES
    ImplementsRegister
CHECK_DEADLOCK FALSE
