SPECIFICATION Spec
CONSTANTS
    k1 = k1
    k2 = k2
    Kids <- MCKids
    Bounds <- MCBounds
INVARIANTS
    StorageHeld
    MarkedOrRefused
    EvidenceKept
    NothingOutlives
CHECK_DEADLOCK FALSE
