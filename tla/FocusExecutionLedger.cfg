SPECIFICATION FairSpec
CONSTANTS
    k1 = k1
    k2 = k2
    t1 = t1
    t2 = t2
    None = None
    Threads = {a, b, c}
    Fingerprints = {f, g}
    MaxFailures = 1
    Keys <- MCKeys
    Trajectories <- MCTrajectories
    TrajOf <- MCTrajOf
INVARIANTS
    ExecuteOnce
PROPERTIES
    EveryCallEnds
    ImplementsEvidenceStore
