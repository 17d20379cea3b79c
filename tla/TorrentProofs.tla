--------------------------- MODULE TorrentProofs ---------------------------
(***************************************************************************)
(* Facts about the geometry of a torrent, for every piece length, request  *)
(* size and number of pieces: the blocks the scheduler asks for cut a      *)
(* piece into disjoint, non-empty parts that leave nothing out, and byte   *)
(* counts therefore tell which blocks are there.                           *)
(***************************************************************************)
EXTENDS Torrent, FiniteSetTheorems, TLAPS

(***************************************************************************)
(* A product grows by at least one factor from one number to the next.     *)
(***************************************************************************)
LEMMA NextMultiple ==
    ASSUME NEW a \in Int, NEW b \in Int, NEW m \in Nat, a < b
    PROVE  a * m + m <= b * m
<1> DEFINE d == b - a - 1
<1>1. d \in Nat /\ b = a + 1 + d
  OBVIOUS
<1>2. b * m = a * m + m + d * m
  BY <1>1
<1>3. d * m >= 0
  BY <1>1
<1> QED BY <1>2, <1>3

(***************************************************************************)
(* Division with remainder, in the form the cover lemmas need.             *)
(***************************************************************************)
LEMMA Quotient ==
    ASSUME NEW x \in Nat, NEW m \in Nat \ {0}
    PROVE  \E q \in 0 .. x : q * m <= x /\ x < q * m + m
<1> DEFINE q == x \div m
<1>1. q \in Nat /\ x = m * q + (x % m) /\ x % m \in 0 .. m - 1
  OBVIOUS
<1>2. q * m <= x /\ x < q * m + m
  BY <1>1
<1>3. q <= q * m
  BY <1>1
<1>4. q \in 0 .. x
  BY <1>1, <1>2, <1>3
<1> HIDE DEF q
<1> QED BY <1>2, <1>4

(***************************************************************************)
(* Every piece has at least one byte and at most PieceLength, ends inside  *)
(* the torrent, and is full unless it is the last.                         *)
(***************************************************************************)
LEMMA PieceSizeFacts ==
    ASSUME NEW i \in Pieces
    PROVE  /\ i \in Nat
           /\ i * PieceLength \in Nat
           /\ PieceSize(i) \in Nat \ {0}
           /\ PieceSize(i) <= PieceLength
           /\ i * PieceLength + PieceSize(i) <= BytesToDownload
           /\ i * PieceLength + PieceSize(i) < BytesToDownload => PieceSize(i) = PieceLength
<1> USE GeometryAssumption
<1>1. i \in Nat /\ i <= NumPieces - 1
  BY DEF Pieces
<1>2. i * PieceLength \in Nat
  BY <1>1
<1>3. i * PieceLength < BytesToDownload
  <2>1. CASE i = NumPieces - 1
    BY <2>1
  <2>2. CASE i < NumPieces - 1
    <3>1. i * PieceLength + PieceLength <= (NumPieces - 1) * PieceLength
      BY <1>1, <2>2, NextMultiple
    <3>2. (NumPieces - 1) * PieceLength \in Int
      OBVIOUS
    <3> QED BY <1>2, <3>1, <3>2
  <2> QED BY <1>1, <2>1, <2>2
<1> QED BY <1>1, <1>2, <1>3 DEF PieceSize, Smaller

(***************************************************************************)
(* A block belongs to its piece, is not empty and ends inside the piece.   *)
(***************************************************************************)
LEMMA BlockFacts ==
    ASSUME NEW i \in Pieces, NEW r \in Blocks(i)
    PROVE  /\ r.Index = i
           /\ r.Begin \in Nat
           /\ r.Length \in Nat \ {0}
           /\ r.Begin + r.Length <= PieceSize(i)
           /\ r = [Index |-> r.Index, Begin |-> r.Begin, Length |-> r.Length]
<1>1. PICK k \in BlockNumbers(i) : r = Block(i, k)
  BY DEF Blocks
<1>2. k \in Nat /\ k * RequestSize < PieceSize(i)
  BY <1>1, PieceSizeFacts DEF BlockNumbers
<1>3. k * RequestSize \in Nat
  BY <1>2, GeometryAssumption
<1> QED BY <1>1, <1>2, <1>3, PieceSizeFacts, GeometryAssumption DEF Block, Smaller

(***************************************************************************)
(* The bytes of a block and of a piece are finitely many, and their number *)
(* is what the code adds to its counters.                                  *)
(***************************************************************************)
LEMMA BlockBytes ==
    ASSUME NEW i \in Pieces, NEW r \in Blocks(i)
    PROVE  /\ IsFiniteSet(Bytes(r))
           /\ Cardinality(Bytes(r)) = r.Length
           /\ Bytes(r) # {}
           /\ Bytes(r) \subseteq PieceBytes(i)
<1> DEFINE f == i * PieceLength + r.Begin
<1>1. f \in Nat /\ r.Length \in Nat \ {0} /\ r.Index = i
  BY BlockFacts, PieceSizeFacts
<1>2. Bytes(r) = f .. f + r.Length - 1
  BY <1>1 DEF Bytes
<1>3. f + r.Length <= i * PieceLength + PieceSize(i)
  BY BlockFacts, PieceSizeFacts
<1>4. i * PieceLength <= f
  BY BlockFacts, PieceSizeFacts
<1> HIDE DEF f
<1>5. Bytes(r) \subseteq PieceBytes(i)
  <2>1. PICK p \in Nat, n \in Nat : p = i * PieceLength /\ n = PieceSize(i)
    BY PieceSizeFacts
  <2>2. PieceBytes(i) = p .. p + n - 1
    BY <2>1 DEF PieceBytes
  <2>3. p <= f /\ f + r.Length <= p + n
    BY <1>3, <1>4, <2>1
  <2> QED BY <1>1, <1>2, <2>2, <2>3
<1>6. IsFiniteSet(Bytes(r)) /\ Cardinality(Bytes(r)) = r.Length
  <2>1. PICK m \in Int, l \in Int, n \in Int :
           m = f /\ n = r.Length /\ l = m + n - 1 /\ m <= l
    BY <1>1
  <2>2. IsFiniteSet(m .. l) /\ Cardinality(m .. l) = IF m > l THEN 0 ELSE l - m + 1
    BY FS_Interval
  <2>3. Bytes(r) = m .. l
    BY <1>2, <2>1
  <2>4. ~(m > l) /\ l - m + 1 = n
    BY <2>1
  <2> QED BY <2>1, <2>2, <2>3, <2>4
<1>7. f \in Bytes(r)
  BY <1>1, <1>2
<1> QED BY <1>5, <1>6, <1>7

(***************************************************************************)
(* The bytes of a piece are as many as its size, and they are bytes of the *)
(* torrent.                                                                *)
(***************************************************************************)
LEMMA PieceBytesFacts ==
    ASSUME NEW i \in Pieces
    PROVE  /\ IsFiniteSet(PieceBytes(i))
           /\ Cardinality(PieceBytes(i)) = PieceSize(i)
           /\ PieceBytes(i) \subseteq 0 .. BytesToDownload - 1
<1> DEFINE f == i * PieceLength
<1>1. f \in Nat /\ PieceSize(i) \in Nat \ {0} /\ f + PieceSize(i) <= BytesToDownload
  BY PieceSizeFacts
<1>2. PieceBytes(i) = f .. f + PieceSize(i) - 1
  BY DEF PieceBytes
<1> HIDE DEF f
<1>3. PieceBytes(i) \subseteq 0 .. BytesToDownload - 1
  BY <1>1, <1>2, GeometryAssumption
<1>4. IsFiniteSet(PieceBytes(i)) /\ Cardinality(PieceBytes(i)) = PieceSize(i)
  <2>1. f \in Int /\ f + PieceSize(i) - 1 \in Int /\ ~(f > f + PieceSize(i) - 1)
    BY <1>1
  <2>2. (f + PieceSize(i) - 1) - f + 1 = PieceSize(i)
    BY <1>1
  <2> QED BY <1>2, <2>1, <2>2, FS_Interval
<1> QED BY <1>3, <1>4

(***************************************************************************)
(* Two different blocks of a piece share no byte, nor do two pieces.       *)
(***************************************************************************)
LEMMA BlocksDisjoint ==
    ASSUME NEW i \in Pieces, NEW r \in Blocks(i), NEW q \in Blocks(i), r # q
    PROVE  Bytes(r) \cap Bytes(q) = {}
<1>1. PICK k \in BlockNumbers(i) : r = Block(i, k)
  BY DEF Blocks
<1>2. PICK l \in BlockNumbers(i) : q = Block(i, l)
  BY DEF Blocks
<1>3. k \in Nat /\ l \in Nat /\ k # l
  BY <1>1, <1>2, PieceSizeFacts DEF BlockNumbers
<1>4. /\ r.Begin = k * RequestSize /\ r.Length <= RequestSize
      /\ q.Begin = l * RequestSize /\ q.Length <= RequestSize
  <2>1. k * RequestSize \in Nat /\ l * RequestSize \in Nat
    BY <1>3, GeometryAssumption
  <2> QED BY <1>1, <1>2, <2>1, PieceSizeFacts, GeometryAssumption DEF Block, Smaller
<1>5. r.Begin + r.Length <= q.Begin \/ q.Begin + q.Length <= r.Begin
  <2>1. CASE k < l
    <3>1. k * RequestSize + RequestSize <= l * RequestSize
      BY <1>3, <2>1, NextMultiple, GeometryAssumption
    <3> QED BY <1>4, <3>1, BlockFacts, GeometryAssumption
  <2>2. CASE l < k
    <3>1. l * RequestSize + RequestSize <= k * RequestSize
      BY <1>3, <2>2, NextMultiple, GeometryAssumption
    <3> QED BY <1>4, <3>1, BlockFacts, GeometryAssumption
  <2> QED BY <1>3, <2>1, <2>2
<1> DEFINE f == i * PieceLength
<1>6. f \in Nat
  BY PieceSizeFacts
<1>7. /\ Bytes(r) = f + r.Begin .. f + r.Begin + r.Length - 1
      /\ Bytes(q) = f + q.Begin .. f + q.Begin + q.Length - 1
  BY BlockFacts DEF Bytes
<1> HIDE DEF f
<1>8. r.Begin \in Nat /\ r.Length \in Nat /\ q.Begin \in Nat /\ q.Length \in Nat
  BY BlockFacts
<1>9. SUFFICES ASSUME NEW x \in Bytes(r), x \in Bytes(q) PROVE FALSE
  OBVIOUS
<1>10. x \in Int
  BY <1>6, <1>7, <1>8
<1>11. f + r.Begin <= x /\ x <= f + r.Begin + r.Length - 1
  BY <1>7, <1>9
<1>12. f + q.Begin <= x /\ x <= f + q.Begin + q.Length - 1
  BY <1>7, <1>9
<1> QED BY <1>5, <1>6, <1>8, <1>10, <1>11, <1>12

(***************************************************************************)
(* Two pieces share no byte of the torrent.                                *)
(***************************************************************************)
LEMMA PiecesDisjoint ==
    ASSUME NEW i \in Pieces, NEW j \in Pieces, i # j
    PROVE  PieceBytes(i) \cap PieceBytes(j) = {}
<1> DEFINE f == i * PieceLength
           g == j * PieceLength
<1>1. /\ f \in Nat /\ PieceSize(i) \in Nat /\ PieceSize(i) <= PieceLength
      /\ g \in Nat /\ PieceSize(j) \in Nat /\ PieceSize(j) <= PieceLength
      /\ i \in Nat /\ j \in Nat
  BY PieceSizeFacts
<1>2. f + PieceLength <= g \/ g + PieceLength <= f
  BY <1>1, NextMultiple, GeometryAssumption
<1>3. PieceBytes(i) = f .. f + PieceSize(i) - 1 /\ PieceBytes(j) = g .. g + PieceSize(j) - 1
  BY DEF PieceBytes
<1> HIDE DEF f, g
<1> QED BY <1>1, <1>2, <1>3, GeometryAssumption

(***************************************************************************)
(* The blocks of a piece leave no byte of it out, and the pieces leave no  *)
(* byte of the torrent out.                                                *)
(***************************************************************************)
LEMMA BlocksCover ==
    ASSUME NEW i \in Pieces
    PROVE  BytesOf(Blocks(i)) = PieceBytes(i)
<1>1. BytesOf(Blocks(i)) \subseteq PieceBytes(i)
  BY BlockBytes DEF BytesOf
<1>2. ASSUME NEW x \in PieceBytes(i)
      PROVE  x \in BytesOf(Blocks(i))
  <2> DEFINE f == i * PieceLength
             y == x - f
  <2>1. f \in Nat /\ PieceSize(i) \in Nat
    BY PieceSizeFacts
  <2>2. x \in Int /\ y \in Nat /\ y < PieceSize(i) /\ x = f + y
    BY <1>2, <2>1 DEF PieceBytes
  <2> HIDE DEF y, f
  <2>3. PICK k \in 0 .. y : k * RequestSize <= y /\ y < k * RequestSize + RequestSize
    BY <2>2, Quotient, GeometryAssumption
  <2>4. k * RequestSize \in Nat
    BY <2>2, <2>3, GeometryAssumption
  <2>5. k \in BlockNumbers(i)
    BY <2>1, <2>2, <2>3, <2>4, GeometryAssumption DEF BlockNumbers
  <2> DEFINE r == Block(i, k)
  <2>6. r \in Blocks(i)
    BY <2>5 DEF Blocks
  <2>7. /\ r.Index = i /\ r.Begin = k * RequestSize
        /\ r.Length = Smaller(RequestSize, PieceSize(i) - k * RequestSize)
    BY DEF Block
  <2>8. r.Begin <= y /\ y < r.Begin + r.Length
    BY <2>1, <2>2, <2>3, <2>4, <2>7, GeometryAssumption DEF Smaller
  <2>9. Bytes(r) = f + r.Begin .. f + r.Begin + r.Length - 1
    BY <2>7 DEF Bytes, f
  <2>10. x \in Bytes(r)
    <3>1. r.Begin \in Nat /\ r.Length \in Nat
      BY <2>6, BlockFacts
    <3> HIDE DEF r
    <3> QED BY <2>1, <2>2, <2>8, <2>9, <3>1
  <2> QED BY <2>6, <2>10 DEF BytesOf
<1> QED BY <1>1, <1>2

(***************************************************************************)
(* The pieces together are the whole torrent: nothing is left out at its   *)
(* end, where the last piece is short.                                     *)
(***************************************************************************)
LEMMA PiecesCover == UNION {PieceBytes(i) : i \in Pieces} = 0 .. BytesToDownload - 1
<1>1. \A i \in Pieces : PieceBytes(i) \subseteq 0 .. BytesToDownload - 1
  BY PieceBytesFacts
<1>2. ASSUME NEW x \in 0 .. BytesToDownload - 1
      PROVE  \E i \in Pieces : x \in PieceBytes(i)
  <2>1. x \in Nat /\ x < BytesToDownload
    BY GeometryAssumption
  <2>2. PICK i \in 0 .. x : i * PieceLength <= x /\ x < i * PieceLength + PieceLength
    BY <2>1, Quotient, GeometryAssumption
  <2>3. i \in Nat /\ i * PieceLength \in Nat
    BY <2>1, <2>2, GeometryAssumption
  <2>4. i <= NumPieces - 1
    <3>1. SUFFICES ASSUME NumPieces - 1 < i PROVE FALSE
      BY <2>3, GeometryAssumption
    <3>2. NumPieces * PieceLength <= i * PieceLength
      <4>1. CASE i = NumPieces
        BY <4>1, GeometryAssumption
      <4>2. CASE NumPieces < i
        <5>1. NumPieces * PieceLength + PieceLength <= i * PieceLength
          BY <2>3, <4>2, NextMultiple, GeometryAssumption
        <5>2. NumPieces * PieceLength \in Nat
          BY GeometryAssumption
        <5> QED BY <2>3, <5>1, <5>2, GeometryAssumption
      <4> QED BY <2>3, <3>1, <4>1, <4>2, GeometryAssumption
    <3>3. NumPieces * PieceLength \in Nat
      BY GeometryAssumption
    <3> QED BY <2>1, <2>2, <2>3, <3>2, <3>3, GeometryAssumption
  <2>5. i \in Pieces
    BY <2>3, <2>4, GeometryAssumption DEF Pieces
  <2>6. x \in PieceBytes(i)
    <3>1. PieceSize(i) \in Nat /\ x < i * PieceLength + PieceSize(i)
      BY <2>1, <2>2, <2>3, <2>5, PieceSizeFacts, GeometryAssumption
    <3> QED BY <2>1, <2>2, <2>3, <3>1 DEF PieceBytes
  <2> QED BY <2>5, <2>6
<1> QED BY <1>1, <1>2

(***************************************************************************)
(* The bytes of some blocks of a piece: finitely many, inside the piece.   *)
(***************************************************************************)
LEMMA SomeBlocks ==
    ASSUME NEW i \in Pieces, NEW R \in SUBSET Blocks(i)
    PROVE  /\ BytesOf(R) \subseteq PieceBytes(i)
           /\ IsFiniteSet(BytesOf(R))
           /\ Cardinality(BytesOf(R)) \in Nat
           /\ Cardinality(BytesOf(R)) <= PieceSize(i)
<1>1. BytesOf(R) \subseteq PieceBytes(i)
  BY BlockBytes DEF BytesOf
<1>2. IsFiniteSet(BytesOf(R)) /\ Cardinality(BytesOf(R)) <= PieceSize(i)
  BY <1>1, PieceBytesFacts, FS_Subset
<1> QED BY <1>1, <1>2, FS_CardinalityType

(***************************************************************************)
(* A block that was not there adds its whole length to the byte count.     *)
(***************************************************************************)
LEMMA AddBlock ==
    ASSUME NEW i \in Pieces, NEW R \in SUBSET Blocks(i), NEW r \in Blocks(i), r \notin R
    PROVE  Cardinality(BytesOf(R \cup {r})) = Cardinality(BytesOf(R)) + r.Length
<1>1. BytesOf(R \cup {r}) = BytesOf(R) \cup Bytes(r)
  BY DEF BytesOf
<1>2. BytesOf(R) \cap Bytes(r) = {}
  BY BlocksDisjoint DEF BytesOf
<1>3. Cardinality(BytesOf(R) \cup Bytes(r))
        = Cardinality(BytesOf(R)) + Cardinality(Bytes(r)) - Cardinality(BytesOf(R) \cap Bytes(r))
  BY SomeBlocks, BlockBytes, FS_Union
<1>4. Cardinality(BytesOf(R) \cap Bytes(r)) = 0
  BY <1>2, FS_EmptySet
<1>5. Cardinality(BytesOf(R)) \in Nat /\ Cardinality(Bytes(r)) = r.Length /\ r.Length \in Nat
  BY SomeBlocks, BlockBytes, BlockFacts
<1>6. Cardinality(BytesOf(R \cup {r})) = Cardinality(BytesOf(R)) + Cardinality(Bytes(r)) - 0
  BY <1>1, <1>3, <1>4
<1> QED BY <1>5, <1>6

(***************************************************************************)
(* When the byte count of a piece reaches the piece's size, every block is *)
(* there: the test that starts the verification is exact.                  *)
(***************************************************************************)
LEMMA FullPiece ==
    ASSUME NEW i \in Pieces, NEW R \in SUBSET Blocks(i)
    PROVE  Cardinality(BytesOf(R)) = PieceSize(i) <=> R = Blocks(i)
<1>1. ASSUME R = Blocks(i)
      PROVE  Cardinality(BytesOf(R)) = PieceSize(i)
  BY <1>1, BlocksCover, PieceBytesFacts
<1>2. ASSUME Cardinality(BytesOf(R)) = PieceSize(i)
      PROVE  R = Blocks(i)
  <2>1. BytesOf(R) = PieceBytes(i)
    BY <1>2, SomeBlocks, PieceBytesFacts, FS_Subset
  <2>2. ASSUME NEW q \in Blocks(i), q \notin R
        PROVE  FALSE
    <3>1. Bytes(q) \cap BytesOf(R) = {}
      BY <2>2, BlocksDisjoint DEF BytesOf
    <3> QED BY <2>1, <3>1, BlockBytes
  <2> QED BY <2>2
<1> QED BY <1>1, <1>2

(***************************************************************************)
(* When the bytes held of one piece change, the number of bytes held of    *)
(* the torrent changes by the same amount.                                 *)
(***************************************************************************)
LEMMA SwapPiece ==
    ASSUME NEW h, NEW g, NEW i \in Pieces,
           \A j \in Pieces : h[j] \subseteq PieceBytes(j) /\ g[j] \subseteq PieceBytes(j),
           \A j \in Pieces \ {i} : g[j] = h[j]
    PROVE  Cardinality(UNION {g[j] : j \in Pieces})
             = Cardinality(UNION {h[j] : j \in Pieces}) - Cardinality(h[i]) + Cardinality(g[i])
<1> DEFINE H == UNION {h[j] : j \in Pieces}
           G == UNION {g[j] : j \in Pieces}
           Rest == UNION {h[j] : j \in Pieces \ {i}}
<1>1. H = Rest \cup h[i] /\ G = Rest \cup g[i]
  OBVIOUS
<1>2. Rest \cap h[i] = {} /\ Rest \cap g[i] = {}
  BY PiecesDisjoint
<1>3. IsFiniteSet(0 .. BytesToDownload - 1)
  BY FS_Interval, GeometryAssumption
<1>4. Rest \subseteq 0 .. BytesToDownload - 1
  BY PieceBytesFacts
<1>5. IsFiniteSet(Rest) /\ IsFiniteSet(h[i]) /\ IsFiniteSet(g[i])
  BY <1>3, <1>4, PieceBytesFacts, FS_Subset
<1> HIDE DEF H, G, Rest
<1>6. Cardinality(H) = Cardinality(Rest) + Cardinality(h[i]) - Cardinality(Rest \cap h[i])
  BY <1>1, <1>5, FS_Union
<1>7. Cardinality(G) = Cardinality(Rest) + Cardinality(g[i]) - Cardinality(Rest \cap g[i])
  BY <1>1, <1>5, FS_Union
<1>8. Cardinality(Rest \cap h[i]) = 0 /\ Cardinality(Rest \cap g[i]) = 0
  BY <1>2, FS_EmptySet
<1>9. Cardinality(Rest) \in Nat /\ Cardinality(h[i]) \in Nat /\ Cardinality(g[i]) \in Nat
  BY <1>5, FS_CardinalityType
<1>10. Cardinality(G) = Cardinality(H) - Cardinality(h[i]) + Cardinality(g[i])
  BY <1>6, <1>7, <1>8, <1>9
<1> QED BY <1>10 DEF G, H
=============================================================================
