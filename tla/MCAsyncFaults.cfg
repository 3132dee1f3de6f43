SPECIFICATION FairSpec
CONSTANTS
    Ids = {a, b}
    Contents = {m1, m2}
    NoId = NoId
    Gone = Gone
    MaxPending = 2
    FORCE_CRIU_RESTORE = FALSE
INVARIANTS
    IInv
PROPERTIES
    RestoreDestroysSafely
    ImplementsStore
    NothingHangs
