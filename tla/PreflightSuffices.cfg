SPECIFICATION Spec
CONSTANTS
    Holders = {"data_proto"}
    Batches = {b1}
    None = None
INVARIANT
    PreflightSuffices
