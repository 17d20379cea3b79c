SPECIFICATION Spec
CONSTANTS
    Requests <- MCRequests
    Blocks <- MCBlocks
    Protocol <- MCProtocol
    Hellos <- MCHellos
    HashLength = 1
    NumPieces = 10
    Indices = {0, 9}
    MaxSends = 3
    Fragments <- MCFragments
    MaxFragments = 5
    Capacity = 16
    Documents <- MCDocuments
    Addresses <- MCAddresses
    MaxPeers = 4
    Nil = Nil
    Absent = Absent
    Wrong = Wrong
INVARIANTS
    Framing
    RecordAsAnnounced
    LiteralDecodes
    NoPrefixDecodes
    FromIsOrderFree
    PeersAsListed
CHECK_DEADLOCK FALSE
