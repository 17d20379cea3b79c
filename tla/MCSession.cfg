SPECIFICATION FairSpec
CONSTANTS
    b1 = b1
    b2 = b2
    b3 = b3
    Pieces = {b1, b2, b3}
    Later = {b1}
    NumSlots = 2
    MaxPending = 3
    MaxEarly = 1
    Nil = Nil
CHECK_DEADLOCK FALSE
INVARIANTS
    RecordsTrue
    KnownUnlessRaced
    DropsOnlyWhileUnchoking
    OneSlotPerBlock
PROPERTY KnownIsFetched
