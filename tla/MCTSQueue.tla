------------------------------ MODULE MCTSQueue ------------------------------
(* Values of the constants of TSQueue for TLC. *)
EXTENDS TSQueue

CONSTANTS p1, p2, v1, v2

=============================================================================
