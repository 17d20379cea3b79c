------------------------------ MODULE Storage -------------------------------
(***************************************************************************)
(* The directory of one torrent: a file per piece, written by Flush, and   *)
(* bitfield.bin, written by Tracker.Close and read by NewTracker.  A file  *)
(* is created, or truncated, in one step and written in a second one; the  *)
(* process may die, or the disk refuse, between the two.                   *)
(***************************************************************************)
CONSTANT Pieces

VARIABLES
    dir,     \* the directory exists
    file,    \* <i>.bin: none, partial or good
    bin,     \* bitfield.bin: absent, short or full
    saved    \* the pieces a full bitfield.bin lists

disk == <<dir, file, bin, saved>>

StorageTypeOK ==
    /\ dir \in BOOLEAN
    /\ file \in [Pieces -> {"none", "partial", "good"}]
    /\ bin \in {"absent", "short", "full"}
    /\ saved \in SUBSET Pieces

StorageInit ==
    /\ dir = FALSE
    /\ file = [i \in Pieces |-> "none"]
    /\ bin = "absent" /\ saved = {}

\* Flush makes the directory before the first piece.
Mkdir == /\ dir' = TRUE
         /\ UNCHANGED <<file, bin, saved>>

\* os.Create of a piece's file truncates what an earlier session left.
FlushCreate(i) ==
    /\ dir
    /\ file' = [file EXCEPT ![i] = "partial"]
    /\ UNCHANGED <<dir, bin, saved>>

FlushWrite(i) ==
    /\ file' = [file EXCEPT ![i] = "good"]
    /\ UNCHANGED <<dir, bin, saved>>

\* os.Create of bitfield.bin: its old content is gone.
SaveCreate ==
    /\ dir
    /\ bin' = "short" /\ saved' = {}
    /\ UNCHANGED <<dir, file>>

SaveWrite(B) ==
    /\ bin' = "full" /\ saved' = B
    /\ UNCHANGED <<dir, file>>

\* Seeded fault: a file that is too short counts as an empty bitfield.
LoadFailsNever == FALSE

\* Seeded fault: a missing bitfield.bin is an error.
LoadFailsAbsent == bin # "full"

\* NewTracker reads exactly as many bytes as the bitfield has, if it can open
\* and read the file.
LoadFails == bin = "short"

=============================================================================
