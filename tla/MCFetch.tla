------------------------------ MODULE MCFetch ------------------------------
(***************************************************************************)
(* Instances of Fetch: the tree g - t1 - {a2 | b2 - b3}.                   *)
(***************************************************************************)
EXTENDS Fetch, TLC

CONSTANTS g, t1, a2, b2, b3, x, p1, p2

ForkChains == g :> {g} @@ t1 :> {g, t1} @@ a2 :> {g, t1, a2}
              @@ b2 :> {g, t1, b2} @@ b3 :> {g, t1, b2, b3}
NumberOf == g :> 0 @@ t1 :> 1 @@ a2 :> 2 @@ b2 :> 2 @@ b3 :> 3

\* x is in a2 only; the second peer leaves that chain.
ForkTxs == x :> {a2}
ForkHeads == p1 :> {a2} @@ p2 :> {a2, b3}
=============================================================================
