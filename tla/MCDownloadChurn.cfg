SPECIFICATION Spec
CONSTANTS
    NumPieces = 1
    PieceLength = 2
    BytesToDownload = 2
    RequestSize = 1
    NumSlots = 1
    c1 = c1
    c2 = c2
    k1 = k1
    k2 = k2
    a1 = a1
    a2 = a2
    Conns = {c1, c2}
    Keepers = {k1, k2}
    Addrs = {a1}
    AddrOf <- SameAddr
    Strays <- StrayHeaders
    Haves = {0}
    Bitfields = {}
    NoConn = NoConn
    NoPiece = NoPiece
    NoMsg = NoMsg
SYMMETRY ChurnSymmetry
CONSTRAINT OneBroken
CHECK_DEADLOCK FALSE
INVARIANTS
    NoPanic
    BlockConservation
    ExactCount
    VerifiedOnce
    NoOrphanConnection
