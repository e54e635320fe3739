--------------------------- MODULE LastStateProof ---------------------------
(***************************************************************************)
(* Which answers SendLastStateProofProcess accepts: the request of          *)
(* build_prove_request_content with its samples, the comparison of the      *)
(* answer with it (check_if_response_is_matched), the continuity of the     *)
(* headers, and the difficulty checks of module Difficulty.                 *)
(*                                                                          *)
(* The chain of the peer is a sequence of epochs; a block is its number,    *)
(* and an answer is the set of the numbers of its headers, which the MMR    *)
(* proof and the proof of work show to be on that chain.                    *)
(***************************************************************************)
EXTENDS Difficulty, Sequences, FiniteSets, FiniteSetsExt

CONSTANTS
    LastN,         \* last_n_blocks (100)
    Lengths,       \* lengths of epochs
    Difficulties,  \* difficulties of a block
    MaxEpochs,     \* bound: epochs of the chain
    MaxBlocks,     \* bound: blocks of a chain on which requests are made
    MaxSamples     \* bound: sampled difficulties of a request

ASSUME ProofAssumption ==
    /\ LastN \in Nat \ {0} /\ Lengths \subseteq Nat \ {0} /\ Difficulties \subseteq Nat \ {0}
    /\ MaxEpochs \in Nat \ {0} /\ MaxBlocks \in Nat /\ MaxSamples \in Nat \ {0}

VARIABLES
    chain,     \* the blocks of the peer's chain from block 1 on: position and total
    request    \* the prove request, or NoRequest

vars == <<chain, request>>

NoRequest == [start |-> 0, onChain |-> TRUE, boundary |-> 0, samples |-> {}]

-----------------------------------------------------------------------------
(* The chain (external).                                                     *)

\* The blocks of epoch k with the given length and difficulty, after a total
\* difficulty: their positions, and the total difficulty with them.
EpochBlocks(k, length, block, total) ==
    [i \in 1 .. length |-> [number |-> k, index |-> i - 1, length |-> length, block |-> block,
                            total |-> total + i * block]]

Last == Len(chain)
Tip == chain[Last]
TotalDifficulty(b) == IF b = 0 THEN 0 ELSE chain[b].total
Before(b) == TotalDifficulty(b - 1)

\* The first block from `from` on whose total difficulty is not less than d.
BlockOf(d, from) == Min({b \in from .. Last : d <= TotalDifficulty(b)})

\* Consensus: the next epoch is at most Tau times as difficult or easy.
Legal(d, e) == d <= Tau * e /\ e <= Tau * d

Init ==
    /\ \E length \in Lengths, block \in Difficulties : chain = EpochBlocks(1, length, block, 0)
    /\ request = NoRequest

Mine ==
    /\ request = NoRequest /\ Tip.number < MaxEpochs
    /\ \E length \in Lengths, block \in Difficulties :
          /\ Legal(EpochDifficulty(Tip), length * block)
          /\ chain' = chain \o EpochBlocks(Tip.number + 1, length, block, Tip.total)
    /\ UNCHANGED request

-----------------------------------------------------------------------------
(* The request.                                                              *)

\* Difficulties next to the edge of a block: no check tells others apart.
Edges == {TotalDifficulty(b) : b \in 1 .. Last} \cup {TotalDifficulty(b) + 1 : b \in 1 .. Last - 1}

\* random_sample: above the start, and at most one below the boundary.
Samples(from, boundary) ==
    (SUBSET {d \in Edges : from < d /\ d < boundary}) \cup {{boundary - 1}}

\* build_prove_request_content and sample_blocks: where the start block is more
\* than LastN blocks before the last one, difficulties are sampled between the
\* total difficulty of the start block and a boundary.  Off the chain of the
\* peer the start block is about as heavy as its block of the same number.
Ask(start, onChain) ==
    /\ request = NoRequest /\ Last <= MaxBlocks
    /\ start < Last
    /\ LET from == TotalDifficulty(start)
       IN  IF Last - start <= LastN
           THEN request' = [start |-> start, onChain |-> onChain, boundary |-> from, samples |-> {}]
           ELSE \E boundary \in {d \in Edges : from < d /\ d < TotalDifficulty(Last)} :
                \E samples \in Samples(from, boundary) :
                    /\ Cardinality(samples) \in 1 .. MaxSamples
                    /\ request' = [start |-> start, onChain |-> onChain, boundary |-> boundary,
                                   samples |-> samples]
    /\ UNCHANGED chain

Next == Mine \/ \E start \in 1 .. Last, onChain \in BOOLEAN : Ask(start, onChain)

Spec == Init /\ [][Next]_vars

-----------------------------------------------------------------------------
(* The checks of the answer S.                                               *)

Smallest(S, n) == {b \in S : Cardinality({c \in S : c < b}) < n}
Continuous(S) == S = {} \/ S = Min(S) .. Max(S)

ReorgPart(S) == {b \in S : b < request.start}

\* The reorg headers: LastN of them, or from block 1 on, up to the start block.
ReorgMatches(S) ==
    LET R == ReorgPart(S)
    IN  R # {} => /\ Cardinality(R) = LastN \/ Min(R) = 1
                  /\ Max(R) = request.start - 1

\* Mutant: only the last LastN headers are taken.
LastPartShort(S) ==
    LET T == S \ ReorgPart(S)
    IN  IF Cardinality(T) <= LastN THEN T ELSE T \ Smallest(T, Cardinality(T) - LastN)

\* The last headers: those from the boundary on if they are more than LastN,
\* else the last LastN.
LastPart(S) ==
    LET T        == S \ ReorgPart(S)
        beyond == {b \in S : request.boundary <= TotalDifficulty(b)}
    IN  IF Cardinality(T) <= LastN THEN T
        ELSE IF Cardinality(beyond) > LastN THEN beyond
        ELSE T \ Smallest(T, Cardinality(T) - LastN)

SampledPart(S) == (S \ ReorgPart(S)) \ LastPart(S)

\* Mutant: difficulties without a header are not noticed.
SamplesMatchFound(S) ==
    \A b \in SampledPart(S) :
        \E d \in request.samples : Before(b) < d /\ d <= TotalDifficulty(b)

\* Without sampled headers the last ones are all from the start block on.  With
\* them, each has one of the difficulties, and those that none has are in or
\* after the first of the last headers.
SamplesMatch(S) ==
    LET first == Min(LastPart(S))
        asked == {d \in request.samples : d < TotalDifficulty(first)}
        found == {d \in asked : \E b \in SampledPart(S) : Before(b) < d /\ d <= TotalDifficulty(b)}
    IN  /\ \A b \in SampledPart(S) : \E d \in asked : Before(b) < d /\ d <= TotalDifficulty(b)
        /\ \A d \in asked \ found : Before(first) < d

\* check_if_response_is_matched.
ResponseIsMatched(S) ==
    /\ S # {} /\ ReorgMatches(S)
    /\ IF SampledPart(S) = {}
       THEN LastPart(S) # {} => Min(LastPart(S)) = request.start /\ Max(LastPart(S)) + 1 = Last
       ELSE SamplesMatch(S)

\* execute: the checks in their order, as the status they end with.  The total
\* difficulty is compared with the prove state, whose last header is the start
\* block.
Status(S) ==
    LET sampled == SampledPart(S)
        tau     == IF sampled = {} THEN "ok"
                   ELSE VerifyTau(chain[Min(S \ ReorgPart(S))], chain[Max(S)])
    IN  IF ~ResponseIsMatched(S) THEN "unmatched"
        ELSE IF tau = "invalid" THEN "invalid target"
        ELSE IF ~(Continuous(ReorgPart(S)) /\ Continuous(LastPart(S))) THEN "not continuous"
        ELSE IF /\ sampled # {} /\ request.onChain
                /\ ~VerifyTotalDifficulty(chain[request.start], Tip,
                                          TotalDifficulty(Last) - TotalDifficulty(request.start))
        THEN "invalid total difficulty"
        ELSE IF tau = "failed" THEN "recheck" ELSE "ok"

-----------------------------------------------------------------------------
(* What a full node answers (external).                                      *)

\* The headers before the start block if that is not on its chain.
HonestReorg == IF request.onChain THEN {}
               ELSE Max({1, request.start - LastN}) .. request.start - 1

\* All blocks from the start on, or the sampled ones and those from the boundary
\* on, at least LastN.
HonestFirst ==
    IF Last - request.start <= LastN THEN request.start
    ELSE Min({BlockOf(request.boundary, request.start), Last - LastN})
HonestSamples == {BlockOf(d, request.start) : d \in {d \in request.samples : d <= Before(HonestFirst)}}
HonestAnswer == HonestReorg \cup HonestSamples \cup (HonestFirst .. Last - 1)

-----------------------------------------------------------------------------
(* Properties.                                                               *)

\* An honest answer passes every check, and its parts are told apart correctly:
\* no full node is blamed for a chain that the consensus allows.  (An answer
\* with no sampled block at all to a request with samples is not considered.)
HonestIsAccepted ==
    (request # NoRequest /\ (request.samples = {} \/ HonestSamples # {})) =>
        /\ Status(HonestAnswer) = "ok"
        /\ ReorgPart(HonestAnswer) = HonestReorg
        /\ LastPart(HonestAnswer) = HonestFirst .. Last - 1

\* Whatever headers of its chain a peer answers with, if they pass, then every
\* difficulty that was asked for is proved by a header, or lies in or after the
\* last headers.
AcceptedIsSampled ==
    request # NoRequest =>
        \A S \in SUBSET (1 .. Last - 1) :
            Status(S) = "ok" /\ LastPart(S) # {} =>
                /\ \A d \in request.samples :
                      Before(Min(LastPart(S))) < d \/ BlockOf(d, request.start) \in S
                /\ Continuous(LastPart(S))
                /\ Cardinality(LastPart(S)) < LastN => request.start .. Last - 1 \subseteq S

\* The difficulty checks hold between any two blocks of the chain.
DifficultyIsPlausible ==
    \A b \in 1 .. Last - 1 :
        /\ VerifyTau(chain[b], Tip) = "ok"
        /\ VerifyTotalDifficulty(chain[b], Tip, TotalDifficulty(Last) - TotalDifficulty(b))
=============================================================================
