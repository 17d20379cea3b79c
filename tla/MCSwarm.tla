------------------------------ MODULE MCSwarm -------------------------------
(* Swarm with two clients that download from each other.                     *)
EXTENDS Swarm

CONSTANTS x, y

Mutual == {<<x, y>>, <<y, x>>}
=============================================================================
