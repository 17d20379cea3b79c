SPECIFICATION FairSpec
CONSTANTS
    NumPieces = 1
    PieceLength = 1
    BytesToDownload = 1
    RequestSize = 1
    NumSlots = 1
    c1 = c1
    c2 = c2
    k1 = k1
    k2 = k2
    a1 = a1
    a2 = a2
    Conns = {c1, c2}
    Keepers = {k1}
    Addrs = {a1}
    AddrOf <- OwnAddr
    Strays <- StrayHeaders
    Haves = {}
    Bitfields <- FullBitfield
    NoConn = NoConn
    NoPiece = NoPiece
    NoMsg = NoMsg
CHECK_DEADLOCK FALSE
PROPERTIES
    CancelDrains
    AllVerifiedCompletes
    ImplementsEngine
