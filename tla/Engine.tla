------------------------------- MODULE Engine -------------------------------
(***************************************************************************)
(* What the download engine of a torrent promises the client, without      *)
(* slots, blocks, messages and mutexes.  A piece is counted when all its   *)
(* bytes are in Tracker.Downloaded; it is then verified, or thrown away    *)
(* and no longer counted.  Module Download implements this specification;  *)
(* module Lifecycle is built on it.                                        *)
(***************************************************************************)
CONSTANT Pieces

VARIABLES
    counted,    \* pieces whose bytes are all in Tracker.Downloaded
    verified,   \* Tracker.BitField
    sched,      \* downloadScheduler runs or has returned
    recv,       \* on: blocks arrive; closing: only half-done pieces are
                \* finished; off: no keeper and no receiver is left
    cancel,     \* t.download.cancel or t.stop is closed
    completed   \* t.download.completed is closed

engine == <<counted, verified, sched, recv, cancel, completed>>

Init ==
    /\ verified \in SUBSET Pieces /\ counted = verified
    /\ sched = "run" /\ recv = "off"
    /\ cancel = FALSE /\ completed = FALSE

-----------------------------------------------------------------------------
\* Bytes are missing: keepers are started, which start receivers.
UpdateSeeders ==
    /\ counted # Pieces
    /\ recv' = "on"
    /\ UNCHANGED <<counted, verified, sched, cancel, completed>>

\* A channel is closed, so that keepers close their peers and leave.
Ending == cancel \/ completed

\* The last block of a piece arrives; it may be the last one to arrive at all.
Count(i) ==
    /\ recv = "on" /\ i \in Pieces \ counted
    /\ counted' = counted \cup {i}
    /\ \/ recv' = "on"
       \/ recv' = "closing" /\ Ending
    /\ UNCHANGED <<verified, sched, cancel, completed>>

\* The piece has the right hash and its file is written.
Verify(i) ==
    /\ recv # "off" /\ i \in counted \ verified
    /\ verified' = verified \cup {i}
    /\ UNCHANGED <<counted, sched, recv, cancel, completed>>

\* Wrong hash, or the piece cannot be written; its receiver may be the last one.
Reject(i) ==
    /\ recv # "off" /\ i \in counted \ verified
    /\ counted' = counted \ {i}
    /\ \/ recv' = recv
       \/ recv = "closing" /\ recv' = "off" /\ counted' = verified
    /\ UNCHANGED <<verified, sched, cancel, completed>>

\* The keepers are gone and no receiver has a block to deliver any more.
RecvClose ==
    /\ recv = "on" /\ Ending
    /\ recv' = "closing"
    /\ UNCHANGED <<counted, verified, sched, cancel, completed>>

\* The last keeper or receiver ends; no piece is half done.
RecvStop ==
    /\ recv # "off" /\ Ending /\ counted = verified
    /\ recv' = "off"
    /\ UNCHANGED <<counted, verified, sched, cancel, completed>>

\* The scheduler found all pieces verified; the pass may have begun before
\* cancel or stop was closed.
SchedComplete ==
    /\ sched = "run" /\ verified = Pieces
    /\ sched' = "exited" /\ completed' = TRUE
    /\ UNCHANGED <<counted, verified, recv, cancel>>

SchedStop ==
    /\ sched = "run" /\ cancel
    /\ sched' = "exited"
    /\ UNCHANGED <<counted, verified, recv, cancel, completed>>

Cancel ==
    /\ cancel' = TRUE
    /\ UNCHANGED <<counted, verified, sched, recv, completed>>

Next ==
    \/ UpdateSeeders \/ RecvClose \/ RecvStop \/ SchedComplete \/ SchedStop \/ Cancel
    \/ \E i \in Pieces : Count(i) \/ Verify(i) \/ Reject(i)

Spec == Init /\ [][Next]_engine

=============================================================================
