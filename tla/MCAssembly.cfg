SPECIFICATION FairSpec
CONSTANTS
    NumPieces = 4
    PieceLength = 3
    BytesToDownload = 10
    RequestSize = 2
    NumFiles = 4
CHECK_DEADLOCK FALSE
INVARIANTS
    InPlace
    AllWritten
PROPERTY Ends
