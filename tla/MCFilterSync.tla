---------------------------- MODULE MCFilterSync ----------------------------
(* Small block trees and instances of FilterSync for TLC. *)
EXTENDS FilterSync, TLC

CONSTANTS s1, s2, p1, p2, none

\* A tree is given by the parent of every block but the genesis block "g".
AncestorsOf(parent) ==
    LET anc[b \in DOMAIN parent \cup {"g"}] ==
            IF b = "g" THEN {"g"} ELSE {b} \cup anc[parent[b]]
    IN  anc
NumberOf(parent) ==
    [b \in DOMAIN parent \cup {"g"} |-> Cardinality(AncestorsOf(parent)[b]) - 1]

\* One chain g - t1 - t2 - t3 - t4; the filter of t1 matches s2 by accident.
LineParent == "t1" :> "g" @@ "t2" :> "t1" @@ "t3" :> "t2" @@ "t4" :> "t3"
LineAncestors == AncestorsOf(LineParent)
LineBlocks == DOMAIN LineAncestors
LineNumber == NumberOf(LineParent)
LineTouches == "g" :> {s1} @@ "t1" :> {} @@ "t2" :> {s1} @@ "t3" :> {s1, s2} @@ "t4" :> {}
LineMatches == [LineTouches EXCEPT !["t1"] = {s2}]

\* A fork one block deep, which the request for b4 starts below:
\*   g - t1 - t2 - a3
\*              \- b3 - b4
ShallowParent == "t1" :> "g" @@ "t2" :> "t1" @@ "a3" :> "t2" @@ "b3" :> "t2" @@ "b4" :> "b3"
ShallowAncestors == AncestorsOf(ShallowParent)
ShallowBlocks == DOMAIN ShallowAncestors
ShallowNumber == NumberOf(ShallowParent)
ShallowTouches == [b \in ShallowBlocks |-> IF b \in {"a3", "b3"} THEN {s1} ELSE {}]

\* A fork two blocks deep, which the request for b4 does not hide:
\*   g - t1 - a2 - a3
\*         \- b2 - b3 - b4
DeepParent == "t1" :> "g" @@ "a2" :> "t1" @@ "a3" :> "a2"
              @@ "b2" :> "t1" @@ "b3" :> "b2" @@ "b4" :> "b3"
DeepAncestors == AncestorsOf(DeepParent)
DeepBlocks == DOMAIN DeepAncestors
DeepNumber == NumberOf(DeepParent)
DeepTouches == [b \in DeepBlocks |-> IF b \in {"t1", "a2", "a3", "b2", "b4"} THEN {s1} ELSE {}]

\* A fork deeper than the stored headers of the last n blocks:
\*   g - t1 - a2 - a3 - a4
\*         \- b2 - b3 - b4 - b5
LongParent == DeepParent @@ "a4" :> "a3" @@ "b5" :> "b4"
LongAncestors == AncestorsOf(LongParent)
LongBlocks == DOMAIN LongAncestors
LongNumber == NumberOf(LongParent)
LongTouches == [b \in LongBlocks |-> IF b \in {"a2", "a4", "b3"} THEN {s1} ELSE {}]

PeerSymmetry == Permutations(Peers)
=============================================================================
