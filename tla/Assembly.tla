------------------------------ MODULE Assembly ------------------------------
(***************************************************************************)
(* The multi-file merge of WaitFor: the pieces, each read through a handle *)
(* of its own, are copied into the files of the torrent, a stretch of at   *)
(* most what the piece and the file have left at a time.                   *)
(*                                                                         *)
(* The layout of the files is given by where each of them starts in the    *)
(* torrent; fi.Length is the distance to the next start.                   *)
(***************************************************************************)
EXTENDS Torrent

CONSTANT NumFiles   \* len(tr.Torrent.InfoMultiFile.Files)

ASSUME AssemblyAssumption == NumFiles \in Nat \ {0}

VARIABLES
    Start,    \* where each file starts, and the end of the torrent
    f,        \* the file that is written, i of the code plus 1
    c,        \* bytes of it that are written
    cp,       \* the piece that is read
    l,        \* what is left of a piece of full length
    pos,      \* read offset of each piece's handle
    placed    \* <<file, offset, byte of the torrent>> written so far

vars == <<Start, f, c, cp, l, pos, placed>>

Files == 1 .. NumFiles

\* fi.Length; validate refuses an empty file.
Length(i) == Start[i + 1] - Start[i]

\* The files of a metainfo file whose lengths add up to BytesToDownload.
Layout ==
    {s \in [1 .. NumFiles + 1 -> 0 .. BytesToDownload] :
        /\ s[1] = 0 /\ s[NumFiles + 1] = BytesToDownload
        /\ \A i \in Files : s[i] < s[i + 1]}

\* Every variable keeps its type; l never runs out.
TypeOK ==
    /\ Start \in Layout
    /\ f \in 1 .. NumFiles + 1
    /\ c \in Nat /\ cp \in Nat /\ l \in 1 .. PieceLength
    /\ pos \in [Pieces -> Nat]
    /\ placed \subseteq Files \X Nat \X Nat

Init ==
    /\ Start \in Layout
    /\ f = 1 /\ c = 0 /\ cp = 0 /\ l = PieceLength
    /\ pos = [i \in Pieces |-> 0]
    /\ placed = {}

-----------------------------------------------------------------------------
\* Seeded fault: the end of the file is forgotten.
ChunkOfPiece == l

\* min(l, fi.Length-c)
Chunk == Smaller(l, Length(f) - c)

\* l after w bytes: a piece that is used up makes place for the next one.
NextLeft(w) == IF l - w = 0 THEN PieceLength ELSE l - w

\* io.CopyN moves w bytes from the handle of piece cp to the end of file f.
CopyN ==
    LET w == Chunk
        first == cp * PieceLength + pos[cp]
    IN
    /\ f \in Files /\ c < Length(f)
    /\ pos[cp] + w <= PieceSize(cp)
    /\ placed' = placed \cup {<<f, c + k, first + k>> : k \in 0 .. w - 1}
    /\ pos' = [pos EXCEPT ![cp] = @ + w]
    /\ l' = NextLeft(w)
    /\ cp' = IF l - w = 0 THEN cp + 1 ELSE cp
    /\ c' = c + w
    /\ UNCHANGED <<Start, f>>

\* Seeded faults: a file is left one byte early, or is waited on for one byte more.
NextFileEarly ==
    /\ f \in Files /\ c + 1 >= Length(f)
    /\ f' = f + 1 /\ c' = 0
    /\ UNCHANGED <<Start, cp, l, pos, placed>>

NextFileLate ==
    /\ f \in Files /\ c > Length(f)
    /\ f' = f + 1 /\ c' = 0
    /\ UNCHANGED <<Start, cp, l, pos, placed>>

\* The file is complete: go on with the next one.
NextFile ==
    /\ f \in Files /\ c >= Length(f)
    /\ f' = f + 1 /\ c' = 0
    /\ UNCHANGED <<Start, cp, l, pos, placed>>

Next == CopyN \/ NextFile

Spec == Init /\ [][Next]_vars

\* The disk works: a copy that can be done is done.
FairSpec == Spec /\ WF_vars(Next)

-----------------------------------------------------------------------------
(***************************************************************************)
(* CopyN is never asked for more than its piece has left, the last short   *)
(* piece included.  It would return EOF, and the loop, which tries a       *)
(* failing copy again, would never end.                                    *)
(***************************************************************************)
NoShortRead ==
    f \in Files /\ c < Length(f) => cp \in Pieces /\ pos[cp] + Chunk <= PieceSize(cp)

\* Every byte written is at its place: offset k of file i is byte Start[i] + k.
InPlace == \A t \in placed : t[3] = Start[t[1]] + t[2]

(***************************************************************************)
(* When the merge ends every file is complete: the check that compares the *)
(* sum of the lengths with BytesToDownload would not notice a missing byte *)
(* (it adds up the lengths asked for).                                     *)
(***************************************************************************)
AllWritten ==
    f = NumFiles + 1 =>
        \A i \in Files : \A k \in 0 .. Length(i) - 1 : <<i, k, Start[i] + k>> \in placed

\* The merge ends.
Ends == <>(f = NumFiles + 1)

=============================================================================
