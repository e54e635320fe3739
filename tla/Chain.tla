------------------------------- MODULE Chain -------------------------------
(***************************************************************************)
(* The tree of blocks that the light client and its peers talk about, and  *)
(* the pure functions of that tree which the protocol handlers compute: the*)
(* window of "last n" headers, the block a proof request starts from, the  *)
(* reorg headers a full node adds to its answer, and the fork number that  *)
(* commit_prove_state looks up in its stored headers.                      *)
(*                                                                         *)
(* A block is its hash.  Headers, chain roots and proof of work are valid; *)
(* peers answer from the chain they follow.                                *)
(***************************************************************************)
EXTENDS Integers, FiniteSets

CONSTANTS
    Blocks,           \* every block of the tree
    Genesis,          \* the root of the tree
    Number,           \* Number[b]: the height of b
    TotalDifficulty,  \* TotalDifficulty[b]: accumulated difficulty up to b
    Ancestors,        \* Ancestors[b]: the chain that ends in b, b included
    LastN             \* LAST_N_BLOCKS (100 in the program)

ASSUME ChainAssumption ==
    /\ Genesis \in Blocks
    /\ Number \in [Blocks -> Nat]
    /\ TotalDifficulty \in [Blocks -> Nat]
    /\ Ancestors \in [Blocks -> SUBSET Blocks]
    /\ \A b \in Blocks :
          /\ {b, Genesis} \subseteq Ancestors[b]
          /\ (Number[b] = 0) <=> (b = Genesis)
    /\ LastN \in Nat \ {0}

\* The chains are paths of one tree, with more difficulty at every block.
ASSUME TreeAssumption ==
    \A b \in Blocks :
        /\ \A n \in 0 .. Number[b] :
              \E a \in Blocks : {c \in Ancestors[b] : Number[c] = n} = {a}
        /\ \A a \in Ancestors[b] :
              /\ Ancestors[a] = {c \in Ancestors[b] : Number[c] <= Number[a]}
              /\ a # b => /\ Number[a] < Number[b]
                          /\ TotalDifficulty[a] < TotalDifficulty[b]

\* HeaderView::is_parent_of.
IsParentOf(a, b) == a \in Ancestors[b] /\ Number[b] = Number[a] + 1

\* The last_headers of a prove state whose last header is b: the LastN headers
\* before b, or all of them.
LastHeaders(b) ==
    {a \in Ancestors[b] : a # b /\ Number[a] + LastN >= Number[b]}

\* The header a GetLastStateProof request starts from: when the peer's last
\* header is at most LastN blocks ahead, the oldest stored header that still
\* keeps the whole answer within LastN headers is taken instead.
StartOfRequest(start, last, storedHeaders) ==
    LET older == {h \in storedHeaders :
                     Number[h] < Number[start] /\ Number[last] <= Number[h] + LastN}
    IN  IF Number[last] - Number[start] <= LastN /\ older # {}
        THEN CHOOSE h \in older : \A g \in older : Number[h] <= Number[g]
        ELSE start

\* What a full node adds in front of its proof when the requested start is not
\* on the chain of the last header: the LastN headers before the start number,
\* without the genesis block, which has no chain root.
ReorgHeaders(start, last) ==
    IF start \in Ancestors[last]
    THEN {}
    ELSE {a \in Ancestors[last] :
             /\ 1 <= Number[a] /\ Number[a] < Number[start]
             /\ Number[start] - LastN <= Number[a]}

\* Mutant: the headers are compared by number only.
ForkNumbersOnly(reorgHeaders, storedHeaders) ==
    {Number[h] : h \in reorgHeaders} \cap {Number[h] : h \in storedHeaders}

\* The reorg headers that are also stored: the last of them is the fork block.
ForkNumbers(reorgHeaders, storedHeaders) ==
    {Number[h] : h \in reorgHeaders \cap storedHeaders}

MaxOf(S) == CHOOSE n \in S : \A m \in S : m <= n
=============================================================================
