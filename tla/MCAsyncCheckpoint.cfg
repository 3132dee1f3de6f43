SPECIFICATION Spec
CONSTANTS
    Ids = {a, b, c}
    Contents = {m1, m2}
    NoId = NoId
    Gone = Gone
    MaxPending = 2
    FORCE_CRIU_RESTORE = FALSE
SYMMETRY Symmetry
CONSTRAINT FewFaults
INVARIANTS
    WriterUntouched
    ChainIntact
    AncestorsRegistered
