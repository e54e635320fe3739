---------------------------- MODULE MCPeerState ----------------------------
(* Small block trees and instances of PeerState for TLC. *)
EXTENDS PeerState, TLC

CONSTANTS p1, p2, none

\* A tree is given by the parent of every block but the genesis block "g".
AncestorsOf(parent) ==
    LET anc[b \in DOMAIN parent \cup {"g"}] ==
            IF b = "g" THEN {"g"} ELSE {b} \cup anc[parent[b]]
    IN  anc
NumberOf(parent) ==
    [b \in DOMAIN parent \cup {"g"} |-> Cardinality(AncestorsOf(parent)[b]) - 1]

\* Heads above LastN = 4, forks of two, three and four blocks:
\*   g - t1 - ... - t5 - a6 - a7 - a8
\*                    \- b6 - b7 - b8 - b9
TallParent == "t1" :> "g" @@ "t2" :> "t1" @@ "t3" :> "t2" @@ "t4" :> "t3" @@ "t5" :> "t4"
              @@ "a6" :> "t5" @@ "a7" :> "a6" @@ "a8" :> "a7"
              @@ "b6" :> "t5" @@ "b7" :> "b6" @@ "b8" :> "b7" @@ "b9" :> "b8"
TallAncestors == AncestorsOf(TallParent)
TallBlocks == DOMAIN TallAncestors
TallNumber == NumberOf(TallParent)

\* Block b7 carries more difficulty than the others: it is heavier than a8 but lower.
TallDifficulty == [b \in TallBlocks |->
    TallNumber[b] + IF "b7" \in TallAncestors[b] THEN 2 ELSE 0]

\* A side chain that a peer may follow until it has fallen behind:
\*   g - t1 - t2 - t3 - a4 - a5 - a6 - a7
\*              \- c3 - c4
SideParent == "t1" :> "g" @@ "t2" :> "t1" @@ "t3" :> "t2" @@ "a4" :> "t3" @@ "a5" :> "a4"
              @@ "a6" :> "a5" @@ "a7" :> "a6" @@ "c3" :> "t2" @@ "c4" :> "c3"
SideAncestors == AncestorsOf(SideParent)
SideBlocks == DOMAIN SideAncestors
SideNumber == NumberOf(SideParent)

\* A window of four blocks, and peers that fall behind the tip and leave out heads:
\*   g - t1 - ... - t5 - a6 - a7 - a8 - a9
\*                    \- b6 - b7
WindowParent == "t1" :> "g" @@ "t2" :> "t1" @@ "t3" :> "t2" @@ "t4" :> "t3" @@ "t5" :> "t4"
                @@ "a6" :> "t5" @@ "a7" :> "a6" @@ "a8" :> "a7" @@ "a9" :> "a8"
                @@ "b6" :> "t5" @@ "b7" :> "b6"
WindowAncestors == AncestorsOf(WindowParent)
WindowBlocks == DOMAIN WindowAncestors
WindowNumber == NumberOf(WindowParent)

PeerSymmetry == Permutations(Peers)
=============================================================================
