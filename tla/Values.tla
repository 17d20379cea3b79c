------------------------------- MODULE Values -------------------------------
(***************************************************************************)
(* What a key of a decoded bencoding dictionary can be besides a value of  *)
(* the type the code asks for.                                             *)
(***************************************************************************)
CONSTANTS
    Absent,     \* the key is not there
    Wrong       \* its value has another bencoding type
=============================================================================
