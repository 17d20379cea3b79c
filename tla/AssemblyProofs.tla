--------------------------- MODULE AssemblyProofs ---------------------------
(***************************************************************************)
(* Proofs about the multi-file merge, for every geometry of the torrent    *)
(* and every layout of its files.  The argument: file, offset, piece and   *)
(* handle always stand at one and the same byte of the torrent (HereInv,   *)
(* HandleInv), and everything before it is written (WrittenInv).           *)
(***************************************************************************)
EXTENDS Assembly, TorrentProofs

\* The byte the files have reached is the byte the pieces have reached.
HereInv ==
    /\ Start[f] + c = cp * PieceLength + PieceLength - l
    /\ f \in Files => c <= Length(f)
    /\ f = NumFiles + 1 => c = 0

\* The handle of the current piece stands there too; later ones are unread.
HandleInv ==
    \A i \in Pieces : /\ i = cp => pos[i] = PieceLength - l
                      /\ i > cp => pos[i] = 0

\* What lies before that byte is written.
WrittenInv ==
    \A i \in Files, k \in Nat :
        (i < f /\ k < Length(i)) \/ (i = f /\ k < c) => <<i, k, Start[i] + k>> \in placed

\* The inductive invariant.
IInv == TypeOK /\ HereInv /\ HandleInv /\ InPlace /\ WrittenInv

-----------------------------------------------------------------------------
(***************************************************************************)
(* The starts of the files are byte offsets, and a file ends inside the    *)
(* torrent.                                                                *)
(***************************************************************************)
LEMMA LayoutFacts ==
    ASSUME Start \in Layout, NEW i \in Files
    PROVE  /\ Start[i] \in Nat /\ Start[i + 1] \in Nat
           /\ Start[i + 1] <= BytesToDownload
           /\ Length(i) \in Nat \ {0}
           /\ Start[i] + Length(i) = Start[i + 1]
<1>1. i \in 1 .. NumFiles + 1 /\ i + 1 \in 1 .. NumFiles + 1
  BY AssemblyAssumption DEF Files
<1>2. Start[i] \in 0 .. BytesToDownload /\ Start[i + 1] \in 0 .. BytesToDownload
  BY <1>1 DEF Layout
<1>3. Start[i] < Start[i + 1]
  BY DEF Layout
<1> QED BY <1>2, <1>3, GeometryAssumption DEF Length

(***************************************************************************)
(* While a file has bytes left, the stretch the merge copies next lies     *)
(* inside the piece it reads: the heart of NoShortRead.                    *)
(***************************************************************************)
LEMMA ChunkFits ==
    ASSUME IInv, f \in Files, c < Length(f)
    PROVE  /\ cp \in Pieces
           /\ Chunk \in Nat \ {0}
           /\ Chunk <= l /\ Chunk <= Length(f) - c
           /\ pos[cp] = PieceLength - l
           /\ pos[cp] + Chunk <= PieceSize(cp)
<1> DEFINE p == cp * PieceLength
           e == NumPieces * PieceLength
<1>0. /\ c \in Nat /\ cp \in Nat /\ l \in 1 .. PieceLength /\ PieceLength \in Nat
      /\ NumPieces \in Nat /\ BytesToDownload \in Nat
  BY GeometryAssumption DEF IInv, TypeOK
<1>1. p \in Nat /\ e \in Nat /\ BytesToDownload <= e
  <2>1. \A a, b \in Nat : a * b \in Nat
    OBVIOUS
  <2> QED BY <2>1, <1>0, GeometryAssumption
<1>2. /\ Start[f] \in Nat /\ Start[f + 1] <= BytesToDownload
      /\ Start[f + 1] \in Nat /\ Length(f) \in Nat
      /\ Start[f] + Length(f) = Start[f + 1]
  BY LayoutFacts DEF IInv, TypeOK
<1>3. Start[f] + c = p + PieceLength - l
  BY DEF IInv, HereInv
<1>4. NumPieces < cp => e + PieceLength <= p
  BY <1>0, NextMultiple
<1>5. NumPieces = cp => e = p
  OBVIOUS
<1> HIDE DEF p, e
<1>6. p < e
  BY <1>0, <1>1, <1>2, <1>3
<1>7. cp \in Pieces
  BY <1>0, <1>1, <1>4, <1>5, <1>6 DEF Pieces
<1>8. pos[cp] = PieceLength - l
  BY <1>7 DEF IInv, HandleInv
<1>9. /\ Chunk \in Nat \ {0} /\ Chunk <= l /\ Chunk <= Length(f) - c
  BY <1>0, <1>2 DEF Chunk, Smaller
<1>10. PieceSize(cp) = Smaller(p + PieceLength, BytesToDownload) - p
  BY DEF PieceSize, p
<1>11. p + PieceLength - l + Chunk <= BytesToDownload
  BY <1>0, <1>1, <1>2, <1>3, <1>9
<1>12. PieceLength - l + Chunk <= PieceSize(cp)
  BY <1>0, <1>1, <1>9, <1>10, <1>11 DEF Smaller
<1> QED BY <1>7, <1>8, <1>9, <1>12

(***************************************************************************)
(* At the beginning everything stands at byte 0.                           *)
(***************************************************************************)
LEMMA InitInv == Init => IInv
<1> SUFFICES ASSUME Init PROVE IInv
  OBVIOUS
<1> USE GeometryAssumption, AssemblyAssumption DEF Init
<1>0. Start[1] = 0 /\ 1 \in Files /\ 0 * PieceLength = 0
  BY DEF Layout, Files
<1>1. TypeOK
  BY DEF TypeOK, Pieces
<1>2. HereInv
  BY <1>0, LayoutFacts DEF HereInv, Files
<1>3. HandleInv /\ InPlace
  BY DEF HandleInv, InPlace, Pieces
<1>4. WrittenInv
  BY DEF WrittenInv, Files
<1> QED BY <1>1, <1>2, <1>3, <1>4 DEF IInv

(***************************************************************************)
(* A copy moves all four positions by the same stretch.                    *)
(***************************************************************************)
LEMMA CopyInv == ASSUME IInv, CopyN PROVE IInv'
<1> DEFINE w == Chunk
           p == cp * PieceLength
<1>0. /\ f \in Files /\ c < Length(f) /\ f' = f /\ Start' = Start /\ c' = c + w
      /\ l' = NextLeft(w) /\ cp' = (IF l - w = 0 THEN cp + 1 ELSE cp)
      /\ pos' = [pos EXCEPT ![cp] = @ + w]
      /\ placed' = placed \cup {<<f, c + k, p + pos[cp] + k>> : k \in 0 .. w - 1}
  BY DEF CopyN
<1>1. /\ cp \in Pieces /\ w \in Nat \ {0} /\ w <= l /\ w <= Length(f) - c
      /\ pos[cp] = PieceLength - l
  BY <1>0, ChunkFits
<1>2. /\ c \in Nat /\ cp \in Nat /\ l \in 1 .. PieceLength /\ PieceLength \in Nat \ {0}
      /\ p \in Nat /\ pos \in [Pieces -> Nat] /\ placed \subseteq Files \X Nat \X Nat
      /\ Start \in Layout /\ f \in 1 .. NumFiles + 1
  BY <1>1, GeometryAssumption, PieceSizeFacts DEF IInv, TypeOK
<1>3. /\ Start[f] \in Nat /\ Length(f) \in Nat /\ Start[f] + c = p + PieceLength - l
  BY <1>0, <1>2, LayoutFacts DEF IInv, HereInv
<1>4. (cp + 1) * PieceLength = p + PieceLength
  BY <1>2
<1> HIDE DEF w
<1>5. Start[f] + (c + w) = cp' * PieceLength + PieceLength - l' /\ l' \in 1 .. PieceLength
  <2>1. CASE l - w = 0
    BY <1>0, <1>1, <1>2, <1>3, <1>4, <2>1 DEF NextLeft
  <2>2. CASE l - w # 0
    BY <1>0, <1>1, <1>2, <1>3, <2>2 DEF NextLeft
  <2> QED BY <2>1, <2>2
<1>6. HereInv'
  <2>1. Length(f)' = Length(f)
    BY <1>0 DEF Length
  <2> QED BY <1>0, <1>1, <1>2, <1>3, <1>5, <2>1, AssemblyAssumption DEF HereInv, Files
<1>7. HandleInv'
  <2> SUFFICES ASSUME NEW i \in Pieces
               PROVE  /\ i = cp' => pos'[i] = PieceLength - l'
                      /\ i > cp' => pos'[i] = 0
    BY DEF HandleInv
  <2>0. i \in Nat /\ (i > cp => pos[i] = 0) /\ (i # cp => pos'[i] = pos[i])
    BY <1>0, <1>2, GeometryAssumption DEF IInv, HandleInv, Pieces
  <2>1. CASE l - w = 0
    BY <1>0, <1>2, <2>0, <2>1 DEF NextLeft
  <2>2. CASE l - w # 0
    <3>1. i = cp => pos'[i] = PieceLength - l + w
      BY <1>0, <1>1, <1>2
    <3> QED BY <1>0, <1>1, <1>2, <2>0, <2>2, <3>1 DEF NextLeft
  <2> QED BY <2>1, <2>2
<1> HIDE DEF p
<1>8. \A k \in 0 .. w - 1 : p + pos[cp] + k = Start[f] + (c + k) /\ c + k \in Nat
                            /\ p + pos[cp] + k \in Nat
  BY <1>1, <1>2, <1>3
<1>9. placed' = placed \cup {<<f, c + k, Start[f] + (c + k)>> : k \in 0 .. w - 1}
  BY <1>0, <1>8
<1>10. InPlace'
  <2> SUFFICES ASSUME NEW t \in placed'
               PROVE  t[3] = Start[t[1]] + t[2]
    BY <1>0 DEF InPlace
  <2>1. CASE t \in placed
    BY <2>1 DEF IInv, InPlace
  <2>2. CASE t \notin placed
    BY <1>9, <2>2
  <2> QED BY <2>1, <2>2
<1>11. WrittenInv'
  <2> SUFFICES ASSUME NEW i \in Files, NEW k \in Nat,
                      (i < f /\ k < Length(i)) \/ (i = f /\ k < c + w)
               PROVE  <<i, k, Start[i] + k>> \in placed'
    BY <1>0 DEF WrittenInv, Length
  <2>1. CASE i = f /\ k >= c
    <3>1. k - c \in 0 .. w - 1 /\ c + (k - c) = k /\ i = f
      BY <1>0, <1>1, <1>2, <2>1 DEF Files
    <3> QED BY <1>9, <3>1
  <2>2. CASE ~(i = f /\ k >= c)
    <3>1. <<i, k, Start[i] + k>> \in placed
      BY <1>2, <2>2 DEF IInv, WrittenInv
    <3> QED BY <1>9, <3>1
  <2> QED BY <2>1, <2>2
<1>12. TypeOK'
  <2>1. cp' \in Nat /\ c' \in Nat
    BY <1>0, <1>1, <1>2
  <2>2. pos' \in [Pieces -> Nat]
    BY <1>0, <1>1, <1>2
  <2>3. placed' \subseteq Files \X Nat \X Nat
    BY <1>0, <1>2, <1>8
  <2> QED BY <1>0, <1>2, <1>5, <2>1, <2>2, <2>3 DEF TypeOK
<1> QED BY <1>6, <1>7, <1>10, <1>11, <1>12 DEF IInv

(***************************************************************************)
(* The next file starts where the complete one ends.                       *)
(***************************************************************************)
LEMMA NextFileInv == ASSUME IInv, NextFile PROVE IInv'
<1>0. /\ f \in Files /\ c = Length(f) /\ f' = f + 1 /\ c' = 0 /\ Start' = Start
      /\ cp' = cp /\ l' = l /\ pos' = pos /\ placed' = placed
      /\ c \in Nat /\ Start \in Layout
  BY LayoutFacts DEF NextFile, IInv, TypeOK, HereInv
<1>1. Start[f] \in Nat /\ Start[f + 1] \in Nat /\ Start[f] + c = Start[f + 1]
  BY <1>0, LayoutFacts
<1>2. TypeOK'
  BY <1>0, AssemblyAssumption DEF IInv, TypeOK, Files
<1>3. HereInv'
  <2>1. f + 1 \in Files => Length(f + 1) \in Nat
    BY <1>0, LayoutFacts
  <2>2. Length(f)' = Length(f + 1)
    BY <1>0 DEF Length
  <2>3. Start[f + 1] + 0 = cp * PieceLength + PieceLength - l
    BY <1>0, <1>1 DEF IInv, HereInv
  <2>4. f + 1 \in Files => 0 <= Length(f + 1)
    BY <2>1
  <2> QED BY <1>0, <2>2, <2>3, <2>4 DEF HereInv
<1>4. HandleInv' /\ InPlace'
  BY <1>0 DEF IInv, HandleInv, InPlace
<1>5. WrittenInv'
  <2> SUFFICES ASSUME NEW i \in Files, NEW k \in Nat,
                      (i < f + 1 /\ k < Length(i)) \/ (i = f + 1 /\ k < 0)
               PROVE  <<i, k, Start[i] + k>> \in placed
    BY <1>0 DEF WrittenInv, Length
  <2>1. (i < f /\ k < Length(i)) \/ (i = f /\ k < c)
    BY <1>0, AssemblyAssumption DEF Files
  <2> QED BY <2>1 DEF IInv, WrittenInv
<1> QED BY <1>2, <1>3, <1>4, <1>5 DEF IInv

-----------------------------------------------------------------------------
(***************************************************************************)
(* The four positions agree in every state of every merge.                 *)
(***************************************************************************)
THEOREM Invariance == Spec => []IInv
<1>1. IInv /\ UNCHANGED vars => IInv'
  BY DEF vars, IInv, TypeOK, HereInv, HandleInv, InPlace, WrittenInv, Length
<1>2. IInv /\ [Next]_vars => IInv'
  BY <1>1, CopyInv, NextFileInv DEF Next
<1> QED BY InitInv, <1>2, PTL DEF Spec

(***************************************************************************)
(* Every variable keeps its type, and l never runs out.                    *)
(***************************************************************************)
THEOREM TypeCorrect == Spec => []TypeOK
<1>1. IInv => TypeOK
  BY DEF IInv
<1> QED BY Invariance, <1>1, PTL

(***************************************************************************)
(* CopyN is never asked for bytes its piece does not have, so the merge    *)
(* does not retry a read past the end for ever.                            *)
(***************************************************************************)
THEOREM ReadsInside == Spec => []NoShortRead
<1>1. IInv => NoShortRead
  BY ChunkFits DEF NoShortRead
<1> QED BY Invariance, <1>1, PTL

(***************************************************************************)
(* Every byte is written to its file at its offset.                        *)
(***************************************************************************)
THEOREM WritesInPlace == Spec => []InPlace
<1>1. IInv => InPlace
  BY DEF IInv
<1> QED BY Invariance, <1>1, PTL

(***************************************************************************)
(* A merge that ended wrote every byte of every file, which the code's own *)
(* check of the sum of the lengths cannot tell.                            *)
(***************************************************************************)
THEOREM WritesAll == Spec => []AllWritten
<1>1. IInv => AllWritten
  <2> SUFFICES ASSUME IInv, f = NumFiles + 1, NEW i \in Files, NEW k \in 0 .. Length(i) - 1
               PROVE  <<i, k, Start[i] + k>> \in placed
    BY DEF AllWritten
  <2>1. i < f /\ k \in Nat /\ k < Length(i)
    BY LayoutFacts, AssemblyAssumption DEF IInv, TypeOK, Files
  <2> QED BY <2>1 DEF IInv, WrittenInv
<1> QED BY Invariance, <1>1, PTL

=============================================================================
