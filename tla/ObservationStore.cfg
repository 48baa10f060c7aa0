SPECIFICATION Spec
CONSTANTS
    t1 = t1
    t2 = t2
    t3 = t3
    b1 = b1
    b2 = b2
    None = None
    Keys = {k1,k2}
    RecordIds = {o1,o2}
    ReplayIds = {r1}
    MaxCalls = 2
    Trajectories <- MCTrajectories
    Batches <- MCBatches
    BatchOf <- MCBatchOf
INVARIANTS
    TensorsResolve
    HandlesResolve
    NoOrphanTensor
PROPERTIES
    ImplementsEvidenceStore
