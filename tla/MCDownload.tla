---------------------------- MODULE MCDownload -----------------------------
(* Download on small instances: one torrent of two pieces, the second short. *)
EXTENDS Download, TLC

CONSTANTS c1, c2, k1, k2, a1, a2

\* Each keeper has an address of its own.
OwnAddr == [k \in Keepers |-> IF k = k1 THEN a1 ELSE a2]

\* Both keepers were started for the same address.
SameAddr == [k \in Keepers |-> a1]

\* A header of the right piece and the wrong length, and one of no piece.
StrayHeaders == {[Index |-> 0, Begin |-> 0, Length |-> RequestSize + 1],
                 [Index |-> NumPieces, Begin |-> 0, Length |-> 1]}

\* Remote peers that have every piece.
FullBitfield == {Pieces}

\* Bound: connections do not break, remotes send their bitfield before they
\* unchoke, and nobody cancels.
NoChurn == ~cancel /\ \A c \in Conns : conn[c] # "killed" /\ (c \notin choked => has[c] # {})

\* Bound: when the second connection breaks, what follows is not explored.
OneBroken == \A c, d \in Conns : conn[c] = "killed" /\ conn[d] = "killed" => c = d

ConnSymmetry  == Permutations(Conns)
ChurnSymmetry == {p @@ q : p \in Permutations(Conns), q \in Permutations(Keepers)}
=============================================================================
