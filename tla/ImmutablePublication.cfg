SPECIFICATION Spec
SYMMETRY WriterSymmetry
CONSTANTS
    a = a
    b = b
    c = c
    Writers <- MCWriters
    Payloads = {"x", "y"}
    Retries = 2
    MaxRemovals = 1
    Absent = Absent
    Irregular = Irregular
INVARIANTS
    OnlyInstabilityRaces
PROPERTIES
    CallsAreWaitFree
    ImplementsAtomicFile
CHECK_DEADLOCK FALSE
