------------------------------ MODULE MCUpload ------------------------------
(* Upload on small instances: two leechers, one slot, a torrent of one block.  *)
EXTENDS Upload, TLC

CONSTANTS p1, p2, a1, a2

\* Each leecher connects from an address of its own.
OwnAddr == [p \in Peers |-> IF p = p1 THEN a1 ELSE a2]

\* The second leecher connects from the address the first one had.
SameAddr == [p \in Peers |-> a1]

\* One request, for the one block of the torrent.
OneAsk == {[Index |-> 0, Begin |-> 0, Length |-> 1]}

\* Bound for the liveness runs: the torrent is there from the start.
Seeding == BitField = Pieces
=============================================================================
