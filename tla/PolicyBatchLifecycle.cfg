SPECIFICATION Spec
SYMMETRY BatchSymmetry
CONSTANTS
    Holders = {"data_proto"}
    Batches = {b1, b2}
    None = None
INVARIANTS
    ZeroStaleness
    FinishedLeavesNothing
    CheckpointIsClean
PROPERTIES
    FailureIsTerminal
    LeasedEvidenceStays
    ImplementsGate
    UsesEvidenceStores
