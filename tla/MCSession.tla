----------------------------- MODULE MCSession ------------------------------
(* Session on a torrent of three pieces, of which U can hold two requests. *)
EXTENDS Session

CONSTANTS b1, b2, b3
=============================================================================
