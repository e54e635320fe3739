------------------------------ MODULE MCRelay ------------------------------
(* Instances of Relay. *)
EXTENDS Relay

CONSTANTS p1, p2, x, y
=============================================================================
