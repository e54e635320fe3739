-------------------------- MODULE MCLastStateProof --------------------------
(* Instances of LastStateProof. *)
EXTENDS LastStateProof
=============================================================================
