--------------------------- MODULE MCSessionUnlock ---------------------------
(* Small instances of SessionUnlock for TLC.                               *)
EXTENDS SessionUnlock

CONSTANTS p1, p2
=============================================================================
