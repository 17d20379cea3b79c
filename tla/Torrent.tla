------------------------------ MODULE Torrent ------------------------------
(***************************************************************************)
(* The geometry of one torrent: its pieces, the blocks a piece is asked    *)
(* for in, and the bytes a block carries.  It is what the scheduler        *)
(* computes from torrent.MetaInfoFile before it sends a single request.    *)
(***************************************************************************)
EXTENDS Integers, FiniteSets

CONSTANTS
    NumPieces,        \* len(pieces) / 20 of the metainfo file
    PieceLength,      \* "piece length" of the metainfo file
    BytesToDownload,  \* the length of all files together
    RequestSize       \* messagesv1.RequestSize, 16384 in the code

(***************************************************************************)
(* A metainfo file whose piece count, piece length and file length agree:  *)
(* only the last piece may be short and it is not empty.  The parser does  *)
(* not verify this; the downloader computes with it.                       *)
(***************************************************************************)
ASSUME GeometryAssumption ==
    /\ NumPieces \in Nat \ {0}
    /\ PieceLength \in Nat \ {0}
    /\ BytesToDownload \in Nat
    /\ RequestSize \in Nat \ {0}
    /\ (NumPieces - 1) * PieceLength < BytesToDownload
    /\ BytesToDownload <= NumPieces * PieceLength

Pieces == 0 .. NumPieces - 1

Smaller(a, b) == IF a <= b THEN a ELSE b

\* The bytes of piece i: a full piece, or what is left of the torrent.
PieceSize(i) ==
    Smaller(i * PieceLength + PieceLength, BytesToDownload) - i * PieceLength

\* The request for the k-th block of piece i; the last one may be short.
Block(i, k) == [Index  |-> i,
                Begin  |-> k * RequestSize,
                Length |-> Smaller(RequestSize, PieceSize(i) - k * RequestSize)]

\* The numbers of the blocks that begin inside piece i.
BlockNumbers(i) == {k \in 0 .. PieceSize(i) - 1 : k * RequestSize < PieceSize(i)}

\* All requests the scheduler makes for piece i.
Blocks(i) == {Block(i, k) : k \in BlockNumbers(i)}

Requests == UNION {Blocks(i) : i \in Pieces}

\* The bytes of the torrent a block carries, as offsets into the whole torrent.
Bytes(r) == LET first == r.Index * PieceLength + r.Begin
            IN  first .. first + r.Length - 1

BytesOf(R) == UNION {Bytes(r) : r \in R}

PieceBytes(i) == i * PieceLength .. i * PieceLength + PieceSize(i) - 1
=============================================================================
