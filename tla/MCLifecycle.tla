---------------------------- MODULE MCLifecycle -----------------------------
(* Lifecycle on a torrent of two pieces. *)
EXTENDS Lifecycle

CONSTANTS b1, b2
=============================================================================
