SPECIFICATION FairSpec
CONSTANTS
    NumPieces = 1
    PieceLength = 1
    BytesToDownload = 1
    RequestSize = 1
    p1 = p1
    p2 = p2
    a1 = a1
    a2 = a2
    Peers = {p1, p2}
    NoPeer = NoPeer
    NoReq = NoReq
    Addrs = {a1, a2}
    AddrOf <- OwnAddr
    NumSlots = 1
    Asks <- OneAsk
    MaxRequests = 1
CHECK_DEADLOCK FALSE
CONSTRAINT Seeding
PROPERTY HeldAreHandled
