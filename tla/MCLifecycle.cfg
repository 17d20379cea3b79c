SPECIFICATION FairSpec
CONSTANTS
    b1 = b1
    b2 = b2
    Pieces = {b1, b2}
    MultiFile = FALSE
    Seeding = TRUE
CHECK_DEADLOCK FALSE
INVARIANTS
    ResumeComplete
    CancelledOnce
    SavedOnDisk
    Durable
    StartFailsOnlyTorn
    NoLateLeecher
PROPERTY CloseEnds
