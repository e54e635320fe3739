--------------------------- MODULE MCCheckPoints ---------------------------
(* Instances of CheckPoints for TLC. *)
EXTENDS CheckPoints

CONSTANTS p1, p2, p3, wrong
=============================================================================
