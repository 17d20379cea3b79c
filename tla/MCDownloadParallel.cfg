SPECIFICATION Spec
CONSTANTS
    NumPieces = 2
    PieceLength = 2
    BytesToDownload = 3
    RequestSize = 1
    NumSlots = 2
    c1 = c1
    c2 = c2
    k1 = k1
    k2 = k2
    a1 = a1
    a2 = a2
    Conns = {c1, c2}
    Keepers = {k1, k2}
    Addrs = {a1, a2}
    AddrOf <- OwnAddr
    Strays = {}
    Haves = {}
    Bitfields <- FullBitfield
    NoConn = NoConn
    NoPiece = NoPiece
    NoMsg = NoMsg
SYMMETRY ConnSymmetry
CONSTRAINT NoChurn
CHECK_DEADLOCK FALSE
INVARIANTS
    PieceConservation
    CompletedMeansAll
PROPERTIES
    ImplementsEngine
