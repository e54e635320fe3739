--------------------------- MODULE MCFilterHashes ---------------------------
(* Block trees and instances of FilterHashes for TLC. *)
EXTENDS FilterHashes, TLC

CONSTANTS p1, p2, p3, none

\* A tree is given by the parent of every block but the genesis block "g".
AncestorsOf(parent) ==
    LET anc[b \in DOMAIN parent \cup {"g"}] ==
            IF b = "g" THEN {"g"} ELSE {b} \cup anc[parent[b]]
    IN  anc
NumberOf(parent) ==
    [b \in DOMAIN parent \cup {"g"} |-> Cardinality(AncestorsOf(parent)[b]) - 1]

\*   g - t1 - t2 - t3 - t4 - a5
\*                         \- b5 - b6
ForkParent == "t1" :> "g" @@ "t2" :> "t1" @@ "t3" :> "t2" @@ "t4" :> "t3"
              @@ "a5" :> "t4" @@ "b5" :> "t4" @@ "b6" :> "b5"
ForkAncestors == AncestorsOf(ForkParent)
ForkBlocks == DOMAIN ForkAncestors
ForkNumber == NumberOf(ForkParent)
ForkHeads == p1 :> {"t4", "b6"} @@ p2 :> {"a5", "b6"}
=============================================================================
