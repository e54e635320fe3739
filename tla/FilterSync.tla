----------------------------- MODULE FilterSync -----------------------------
(***************************************************************************)
(* The filter pipeline of the light client: from the block filters a peer  *)
(* sends, over the stored ranges of matched blocks and their in-memory      *)
(* mirror, to the proof and the download of those blocks and the index of   *)
(* the watched scripts.  Four tasks share this state: FilterProtocol        *)
(* (BlockFilters messages and its timer), LightClientProtocol (proofs,      *)
(* reorgs, the idle-blocks timer), SyncProtocol (blocks) and the RPC        *)
(* threads (set_scripts).  Every action below is one handler; the handlers  *)
(* hold the write lock of `matched_blocks` while they touch this state.     *)
(***************************************************************************)
EXTENDS Chain

CONSTANTS
    Scripts,       \* scripts that set_scripts may name
    Peers,         \* peer indexes
    NoBlock,       \* "no prove state" / "no request"
    Touches,       \* Touches[b]: the scripts whose cells block b creates or spends
    FilterMatches, \* FilterMatches[b]: the scripts b's filter matches (false positives too)
    Heads,         \* blocks that full nodes announce as their last state
    Required,      \* required_peers_count: peers that must agree on a filter hash
    MaxBatch,      \* filters in one BlockFilters message
    ProofLimit,    \* GET_BLOCKS_PROOF_LIMIT
    InTransit,     \* INIT_BLOCKS_IN_TRANSIT_PER_PEER
    StartNumbers,  \* block numbers that set_scripts may be given
    EmptyCommands, \* whether "partial" and "delete" may come with no script
    MaxCommands,   \* bound: calls of set_scripts
    MaxLosses      \* bound: restarts of the client and disconnected peers

ASSUME FilterSyncAssumption ==
    /\ NoBlock \notin Blocks
    /\ Touches \in [Blocks -> SUBSET Scripts]
    /\ FilterMatches \in [Blocks -> SUBSET Scripts]
    /\ \A b \in Blocks : Touches[b] \subseteq FilterMatches[b]
    /\ Heads \subseteq Blocks \ {Genesis}
    /\ Required \in Nat \ {0} /\ MaxBatch \in Nat \ {0}
    /\ ProofLimit \in Nat \ {0} /\ InTransit \in Nat \ {0}
    /\ StartNumbers \subseteq Nat /\ EmptyCommands \in BOOLEAN
    /\ MaxCommands \in Nat /\ MaxLosses \in Nat

VARIABLES
    \* RocksDB
    scripts,      \* FILTER_SCRIPTS: script -> filtered block number
    minFiltered,  \* MIN_FILTERED_BLOCK_NUMBER
    ranges,       \* MATCHED_FILTER_BLOCKS: start -> [count, hashes, proved]
    tip,          \* LAST_STATE; LAST_N_HEADERS is LastHeaders(tip)
    indexed,      \* cells and transactions: <<script, block>> pairs
    \* memory of the process
    matched,      \* Peers.matched_blocks: the hashes ...
    matchedProved,\* ... those marked proved ...
    downloaded,   \* ... and those whose block has arrived
    proved,       \* peer -> last header of its prove state
    proveReq,     \* peer -> its ProveRequest
    proofReq,     \* peer -> its BlocksProofRequest
    blocksReq,    \* peer -> its BlocksRequest
    asked,        \* GetBlockFilters requests on their way: <<peer, start>>
    \* not part of the program
    since,        \* script -> block number that set_scripts gave it
    budget        \* commands and losses left

stored == <<scripts, minFiltered, ranges, tip, indexed>>
memory == <<matched, matchedProved, downloaded>>
peerVars == <<proved, proveReq, proofReq, blocksReq, asked>>
ghosts == <<since, budget>>
vars == <<stored, memory, peerVars, ghosts>>

NoProveReq == [last |-> NoBlock, start |-> NoBlock, longFork |-> FALSE]
NoProofReq == [last |-> NoBlock, blocks |-> {}]
NoBlocksReq == [hashes |-> {}, received |-> {}]

ProveRequest == {NoProveReq} \cup [last : Blocks, start : Blocks, longFork : BOOLEAN]
BlocksProofRequest == {NoProofReq} \cup [last : Blocks, blocks : SUBSET Blocks]
BlocksRequest == [hashes : SUBSET Blocks, received : SUBSET Blocks]
MatchedRange == [count : Nat \ {0}, hashes : SUBSET Blocks, proved : SUBSET Blocks]

-----------------------------------------------------------------------------
(* Storage *)

\* get_earliest_matched_blocks: the keys are big-endian start numbers.
IsEarliest(rs, k) == k \in DOMAIN rs /\ \A j \in DOMAIN rs : k <= j

Without(f, S) == [x \in DOMAIN f \ S |-> f[x]]

\* f with g on top of it (batch.put over the existing keys).
Override(f, g) ==
    [x \in DOMAIN f \cup DOMAIN g |-> IF x \in DOMAIN g THEN g[x] ELSE f[x]]

\* Mutant: the scripts run one block ahead.
UpdateBlockNumberAhead(sc, n) ==
    [s \in DOMAIN sc |-> IF sc[s] <= n THEN n + 1 ELSE sc[s]]

\* update_block_number.
UpdateBlockNumber(sc, n) ==
    [s \in DOMAIN sc |-> IF sc[s] < n THEN n ELSE sc[s]]

\* Mutant: a block is indexed only for the scripts whose number is below it.
FilterBlocksAboveNumber(idx, sc, bs) ==
    idx \cup {e \in (DOMAIN sc) \X bs : e[1] \in Touches[e[2]] /\ sc[e[1]] < Number[e[2]]}

\* filter_block, for every block of a set: all watched scripts are indexed,
\* whatever their block number.
FilterBlocks(idx, sc, bs) ==
    idx \cup {e \in (DOMAIN sc) \X bs : e[1] \in Touches[e[2]]}

\* rollback_to_block: three results of one batch.
RollbackScripts(to) ==
    [s \in DOMAIN scripts |-> IF scripts[s] >= to THEN to ELSE scripts[s]]

\* Mutant: the cursor stays ahead.
RollbackMinFilteredNever(to) == minFiltered

RollbackIndex(to) ==
    {e \in indexed : ~ /\ e[1] \in DOMAIN scripts
                       /\ scripts[e[1]] >= to
                       /\ Number[e[2]] >= to}
RollbackMinFiltered(to) ==
    IF minFiltered >= to THEN to - 1 ELSE minFiltered   \* to >= 1

\* Mutant: set_scripts does not move the cursor back.
MinFilteredUnchanged(sc) == minFiltered

\* update_min_filtered_block_number_by_scripts.
MinFilteredByScripts(sc) ==
    IF DOMAIN sc = {}
    THEN minFiltered
    ELSE CHOOSE n \in {sc[s] : s \in DOMAIN sc} : \A s \in DOMAIN sc : n <= sc[s]

-----------------------------------------------------------------------------
(* Peers *)

\* get_best_proved_peers.
BestProvedPeers(t) == {p \in Peers : proved[p] # NoBlock /\ t \in Ancestors[proved[p]]}

\* Enough peers agree on the filter hash at b (get_latest_block_filter_hashes);
\* a peer's hashes follow the chain it has proved.
Supported(b) ==
    Cardinality({p \in Peers : proved[p] # NoBlock /\ b \in Ancestors[proved[p]]}) >= Required

\* could_request_more_block_filters: a filter hash is agreed on after block n.
CouldRequestMore(n) == \E b \in Blocks : Number[b] = n + 1 /\ Supported(b)

\* The loop that hands the hashes of `todo` to idle peers in random order, at
\* most `limit` to each, until none is left or every peer is busy.
Assignments(todo, idle, limit) ==
    {a \in [idle -> SUBSET todo] :
        /\ \A p \in idle : Cardinality(a[p]) <= limit
        /\ \A p, q \in idle : p # q => a[p] \cap a[q] = {}
        /\ \/ UNION {a[p] : p \in idle} = todo
           \/ \A p \in idle : Cardinality(a[p]) = limit
        /\ \A p, q \in idle :
              p # q => ~ /\ Cardinality(a[p]) \in 1 .. limit - 1
                         /\ Cardinality(a[q]) \in 1 .. limit - 1}

\* prove_or_download_matched_blocks, on the mirror <<m, mp, md>> and the
\* blocks requests br: first the proof requests, then the blocks requests.
ProveOrDownload(m, mp, md, br) ==
    LET best    == BestProvedPeers(tip)
        toProve == (m \ mp) \ UNION {proofReq[p].blocks : p \in Peers}
        toGet   == (mp \ md) \ UNION {br[p].hashes : p \in Peers}
        idle1   == {p \in best : proofReq[p] = NoProofReq}
        idle2   == {p \in best : br[p] = NoBlocksReq}
    IN  /\ \E a \in Assignments(toProve, idle1, ProofLimit) :
              proofReq' = [p \in Peers |->
                  IF p \in idle1 /\ a[p] # {}
                  THEN [last |-> tip, blocks |-> a[p]] ELSE proofReq[p]]
        /\ \E a \in Assignments(toGet, idle2, InTransit) :
              blocksReq' = [p \in Peers |->
                  IF p \in idle2 /\ a[p] # {}
                  THEN [hashes |-> a[p], received |-> {}] ELSE br[p]]

\* Peers::add_matched_blocks on an empty mirror, then prove_or_download.
LoadRange(r, br) ==
    /\ matched' = r.hashes
    /\ matchedProved' = r.proved
    /\ downloaded' = {}
    /\ ProveOrDownload(r.hashes, r.proved, {}, br)

ClearMatched ==
    /\ matched' = {}
    /\ matchedProved' = {}
    /\ downloaded' = {}

-----------------------------------------------------------------------------
(* LightClientProtocol: the chain *)

\* update_prove_state: the peer becomes Ready and forgets its prove request.
UpdateProveState(p, b) ==
    /\ proved' = [proved EXCEPT ![p] = b]
    /\ proveReq' = [proveReq EXCEPT ![p] = NoProveReq]

\* get_last_state_proof for the last state b that peer p has announced.  Full
\* nodes only move to heavier chains.
GetLastStateProof(p, b) ==
    LET start == IF proved[p] = NoBlock THEN tip ELSE proved[p]
    IN  /\ proved[p] # NoBlock => TotalDifficulty[proved[p]] < TotalDifficulty[b]
        /\ proveReq[p].last # b
        /\ IF \E q \in Peers : proved[q] = b
           THEN UpdateProveState(p, b)
           ELSE /\ TotalDifficulty[start] <= TotalDifficulty[b]
                /\ Number[start] < Number[b]
                /\ proveReq' = [proveReq EXCEPT ![p] =
                      [last |-> b,
                       start |-> StartOfRequest(start, b, LastHeaders(tip)),
                       longFork |-> FALSE]]
                /\ UNCHANGED proved
        /\ UNCHANGED <<stored, memory, proofReq, blocksReq, asked, ghosts>>

\* SendLastStateProcess when the new last state is a child of the proved one,
\* with update_prove_state_to_child: the storage follows the heaviest chain
\* without looking at the fork.
SendLastStateChild(p, b) ==
    /\ proved[p] # NoBlock
    /\ IsParentOf(proved[p], b)
    /\ UpdateProveState(p, b)
    /\ tip' = IF TotalDifficulty[b] > TotalDifficulty[tip] THEN b ELSE tip
    /\ UNCHANGED <<scripts, minFiltered, ranges, indexed, memory>>
    /\ UNCHANGED <<proofReq, blocksReq, asked, ghosts>>

\* commit_prove_state, storage part: the new chain is no heavier.
CommitNothing(new) ==
    /\ TotalDifficulty[new] <= TotalDifficulty[tip]
    /\ UNCHANGED <<stored, memory>>

\* No reorg headers: the chain is taken to be an extension.
CommitExtension(new, reorg) ==
    /\ TotalDifficulty[new] > TotalDifficulty[tip]
    /\ reorg = {} /\ Number[tip] # 1
    /\ tip' = new
    /\ UNCHANGED <<scripts, minFiltered, ranges, indexed, memory>>

\* rollback_to_block(to) with the ranges in `gone` removed first.
Rollback(gone, to) ==
    /\ ranges' = Without(ranges, gone)
    /\ scripts' = RollbackScripts(to)
    /\ indexed' = RollbackIndex(to)
    /\ minFiltered' = RollbackMinFiltered(to)
    /\ ClearMatched

\* No reorg headers after block 1: "just remove the block#1".
CommitAfterBlockOne(new, reorg) ==
    /\ TotalDifficulty[new] > TotalDifficulty[tip]
    /\ reorg = {} /\ Number[tip] = 1
    /\ Rollback(DOMAIN ranges, 1)
    /\ tip' = new

\* Where the rollback ends after a fork: above the start of the latest range
\* that is kept, if there is one.
RollbackTo(fork) ==
    LET kept == {k \in DOMAIN ranges : k <= fork}
    IN  (IF kept = {} THEN fork ELSE MaxOf(kept)) + 1

\* Reorg headers with a stored one among them: the ranges that start after the
\* fork go.
CommitReorg(new, reorg) ==
    LET forks == ForkNumbers(reorg, LastHeaders(tip))
        fork  == MaxOf(forks)
    IN  /\ TotalDifficulty[new] > TotalDifficulty[tip]
        /\ forks # {}
        /\ Rollback({k \in DOMAIN ranges : k > fork}, RollbackTo(fork))
        /\ tip' = new

\* SendLastStateProofProcess: the proof that answers p's request is complete
\* and valid (a request flagged as long fork ends in a panic instead).
SendLastStateProof(p) ==
    LET new   == proveReq[p].last
        reorg == ReorgHeaders(proveReq[p].start, new)
        long  == /\ TotalDifficulty[new] > TotalDifficulty[tip]
                 /\ reorg # {}
                 /\ ForkNumbers(reorg, LastHeaders(tip)) = {}
    IN  /\ proveReq[p] # NoProveReq
        /\ ~ proveReq[p].longFork
        /\ \/ /\ ~ long
              /\ \/ CommitNothing(new)
                 \/ CommitExtension(new, reorg)
                 \/ CommitAfterBlockOne(new, reorg)
                 \/ CommitReorg(new, reorg)
              /\ UpdateProveState(p, new)
           \/ /\ long
              /\ proveReq' = [proveReq EXCEPT ![p] =
                    [last |-> new, start |-> Genesis, longFork |-> TRUE]]
              /\ UNCHANGED <<stored, memory, proved>>
        /\ UNCHANGED <<proofReq, blocksReq, asked, ghosts>>

\* disconnected / remove_peer; the peer's answers are lost with it.
Disconnected(p) ==
    /\ budget.losses > 0
    /\ budget' = [budget EXCEPT !.losses = @ - 1]
    /\ proved' = [proved EXCEPT ![p] = NoBlock]
    /\ proveReq' = [proveReq EXCEPT ![p] = NoProveReq]
    /\ proofReq' = [proofReq EXCEPT ![p] = NoProofReq]
    /\ blocksReq' = [blocksReq EXCEPT ![p] = NoBlocksReq]
    /\ asked' = {a \in asked : a[1] # p}
    /\ UNCHANGED <<stored, memory, since>>

\* The process stops and starts again: only RocksDB is left.
LoseMemory ==
    /\ ClearMatched
    /\ proved' = [p \in Peers |-> NoBlock]
    /\ proveReq' = [p \in Peers |-> NoProveReq]
    /\ proofReq' = [p \in Peers |-> NoProofReq]
    /\ blocksReq' = [p \in Peers |-> NoBlocksReq]
    /\ asked' = {}

Restart ==
    /\ budget.losses > 0
    /\ budget' = [budget EXCEPT !.losses = @ - 1]
    /\ LoseMemory
    /\ UNCHANGED <<stored, since>>

-----------------------------------------------------------------------------
(* FilterProtocol *)

\* try_send_get_block_filters, the timer: recover the earliest stored range
\* when the mirror is empty, and ask the heaviest proved peer for more filters.
TrySendGetBlockFilters ==
    \E p \in Peers :
        /\ proved[p] # NoBlock
        /\ \A q \in Peers : proved[q] # NoBlock =>
              TotalDifficulty[proved[q]] <= TotalDifficulty[proved[p]]
        /\ LET ask == IF CouldRequestMore(minFiltered)
                      THEN {<<p, minFiltered + 1>>} ELSE {}
           IN  \/ \E k \in DOMAIN ranges :
                     /\ IsEarliest(ranges, k)
                     /\ matched = {}
                     /\ LoadRange(ranges[k], blocksReq)
                     /\ asked' = asked \cup ask
               \/ /\ DOMAIN ranges = {}
                  /\ DOMAIN scripts # {}
                  /\ ask # {}
                  /\ asked' = asked \cup ask
                  /\ UNCHANGED <<memory, proofReq, blocksReq>>
        /\ UNCHANGED <<stored, proved, proveReq, ghosts>>

\* The filters of n blocks from `start` on, on the chain of peer p.
Served(p, start, n) ==
    {b \in Ancestors[proved[p]] : start <= Number[b] /\ Number[b] < start + n}

\* check_filters_data: the blocks whose filter matches a script that is still
\* filtered below the end of the message.
PossibleMatches(bs, end) ==
    {b \in bs : \E s \in FilterMatches[b] : s \in DOMAIN scripts /\ scripts[s] < end}

\* BlockFiltersProcess returns early; in two of the cases nothing was stored,
\* and the scripts are brought up to the cursor when no range is pending.
BlockFiltersStale(p, start) ==
    /\ DOMAIN scripts # {} /\ proved[p] # NoBlock
    /\ start # minFiltered + 1
    /\ scripts' = IF DOMAIN ranges = {}
                  THEN UpdateBlockNumber(scripts, minFiltered) ELSE scripts
    /\ asked' = asked \ {<<p, start>>}
    /\ UNCHANGED <<minFiltered, ranges, indexed, memory, proofReq, blocksReq>>

\* No scripts, no prove state, no filters, no agreed hash for the parent of the
\* first filter, or a filter whose hash is not the agreed one.
BlockFiltersIgnored(p, start) ==
    /\ \/ DOMAIN scripts = {}
       \/ proved[p] = NoBlock
       \/ /\ start = minFiltered + 1
          /\ \/ Served(p, start, 1) = {}
             \/ start > 1 /\ ~ CouldRequestMore(start - 2)
             \/ \E b \in Served(p, start, MaxBatch), c \in Blocks :
                   b # c /\ Number[c] = Number[b] /\ Supported(c)
    /\ asked' = asked \ {<<p, start>>}
    /\ UNCHANGED <<scripts, minFiltered, ranges, indexed, memory, proofReq, blocksReq>>

\* The agreed hashes end before the first filter, since peers were lost after
\* the request: none of the filters is looked at, but the scripts are brought up
\* to the cursor when the mirror is empty.
BlockFiltersUnknown(p, start) ==
    /\ DOMAIN scripts # {} /\ proved[p] # NoBlock
    /\ start = minFiltered + 1
    /\ Served(p, start, 1) # {}
    /\ start = 1 \/ CouldRequestMore(start - 2)
    /\ ~ CouldRequestMore(start - 1)
    /\ scripts' = IF matched = {} THEN UpdateBlockNumber(scripts, minFiltered) ELSE scripts
    /\ asked' = asked \ {<<p, start>>}
    /\ UNCHANGED <<minFiltered, ranges, indexed, memory, proofReq, blocksReq>>

\* Mutant: the peer's own last block is not marked as proved.
NewRangeUnproved(p, n, matches) == [count |-> n, hashes |-> matches, proved |-> {}]

\* The stored range of n filters; the last header of the peer needs no proof.
NewRange(p, n, matches) ==
    [count |-> n, hashes |-> matches, proved |-> matches \cap {proved[p]}]

\* n filters pass the check against the agreed filter hashes.
BlockFiltersAccepted(p, start, n) ==
    LET bs      == Served(p, start, n)
        last    == start + n - 1
        matches == PossibleMatches(bs, start + n)
        range   == NewRange(p, n, matches)
        others  == BestProvedPeers(tip) \ {p}
    IN  /\ DOMAIN scripts # {} /\ proved[p] # NoBlock
        /\ start = minFiltered + 1
        /\ Cardinality(bs) = n
        /\ \A b \in bs : Supported(b)
        /\ ranges' = IF matches = {} THEN ranges
                     ELSE Override(ranges, [k \in {start} |-> range])
        /\ IF matches # {} /\ matched = {}
           THEN \E k \in DOMAIN ranges' :
                   IsEarliest(ranges', k) /\ LoadRange(ranges'[k], blocksReq)
           ELSE UNCHANGED <<memory, proofReq, blocksReq>>
        /\ scripts' = IF matches = {} /\ matched = {}
                      THEN UpdateBlockNumber(scripts, last) ELSE scripts
        /\ minFiltered' = last
        /\ \E q \in IF others = {} THEN {p} ELSE others :
              asked' = (asked \ {<<p, start>>}) \cup
                       (IF CouldRequestMore(last) THEN {<<q, last + 1>>} ELSE {})
        /\ UNCHANGED indexed

\* BlockFiltersProcess::execute on the answer of p to GetBlockFilters(start).
BlockFilters(p, start) ==
    /\ <<p, start>> \in asked
    /\ \/ BlockFiltersStale(p, start)
       \/ BlockFiltersIgnored(p, start)
       \/ BlockFiltersUnknown(p, start)
       \/ \E n \in 1 .. MaxBatch : BlockFiltersAccepted(p, start, n)
    /\ UNCHANGED <<tip, proved, proveReq, ghosts>>

-----------------------------------------------------------------------------
(* Proof and download of the matched blocks *)

\* get_idle_blocks, the timer.
GetIdleBlocks ==
    /\ matched # {}
    /\ ProveOrDownload(matched, matchedProved, downloaded, blocksReq)
    /\ UNCHANGED <<stored, memory, proved, proveReq, asked, ghosts>>

\* SendBlocksProofProcess: the MMR of the request's last header covers the
\* blocks before it; the others are reported missing.
BlocksProof(p) ==
    LET last  == proofReq[p].last
        found == (proofReq[p].blocks \cap Ancestors[last]) \ {last}
        idle  == {q \in BestProvedPeers(last) : blocksReq[q] = NoBlocksReq}
    IN  /\ last \notin proofReq[p].blocks
        /\ matchedProved' = matchedProved \cup (found \cap matched)
        /\ IF found = {} \/ idle = {}
           THEN UNCHANGED blocksReq
           ELSE \E q \in idle :
                   blocksReq' = [blocksReq EXCEPT ![q] =
                                    [hashes |-> found, received |-> {}]]

\* The full node has left the chain of the request's last header and answers
\* with its new last state, on a heavier chain, only.
BlocksProofNewState(p) ==
    /\ \E b \in Heads :
          /\ TotalDifficulty[b] > TotalDifficulty[proofReq[p].last]
          /\ proofReq[p].last \notin Ancestors[b]
    /\ UNCHANGED <<matchedProved, blocksReq>>

SendBlocksProof(p) ==
    /\ proofReq[p] # NoProofReq
    /\ BlocksProof(p) \/ BlocksProofNewState(p)
    /\ proofReq' = [proofReq EXCEPT ![p] = NoProofReq]
    /\ UNCHANGED <<stored, matched, downloaded, proved, proveReq, asked, ghosts>>

-----------------------------------------------------------------------------
(* SyncProtocol *)

\* Mutant: a block is kept without its proof.
ReceivedUnproved(b) == downloaded \cup ({b} \cap matched)

\* Peers::add_block: the block is kept when it is matched and proved.
Received(b) == downloaded \cup ({b} \cap matchedProved)

\* Mutant: a finished request is never dropped.
AddBlockForever(b) ==
    [p \in Peers |->
        [blocksReq[p] EXCEPT !.received = @ \cup ({b} \cap blocksReq[p].hashes)]]

\* Peer::add_block for every peer: mark the block, drop a finished request.
AddBlock(b) ==
    [p \in Peers |->
        LET got == blocksReq[p].received \cup ({b} \cap blocksReq[p].hashes)
        IN  IF got = blocksReq[p].hashes THEN NoBlocksReq
            ELSE [blocksReq[p] EXCEPT !.received = got]]

\* The last block of the mirror has arrived: the earliest range is removed,
\* its blocks are indexed, the scripts advance, the next range is loaded.  The
\* assertions on the mirror panic (and poison the lock) when it is not that range.
FinishRange(b) ==
    \E k \in DOMAIN ranges :
        /\ IsEarliest(ranges, k)
        /\ matched = ranges[k].hashes
        /\ ranges' = Without(ranges, {k})
        /\ indexed' = FilterBlocks(indexed, scripts, matched)
        /\ scripts' = UpdateBlockNumber(scripts, k + ranges[k].count - 1)
        /\ IF DOMAIN ranges' = {}
           THEN ClearMatched /\ blocksReq' = AddBlock(b) /\ UNCHANGED proofReq
           ELSE \E j \in DOMAIN ranges' :
                   IsEarliest(ranges', j) /\ LoadRange(ranges'[j], AddBlock(b))

\* SyncProtocol::received, SendBlock: a block is kept only when it is proved.
SendBlock(b) ==
    LET got == Received(b)
    IN  /\ b \in matched \cup UNION {blocksReq[p].hashes : p \in Peers}
        /\ \/ /\ matched # {} /\ got = matched
              /\ FinishRange(b)
           \/ /\ matched = {} \/ got # matched
              /\ downloaded' = got
              /\ blocksReq' = AddBlock(b)
              /\ UNCHANGED <<scripts, ranges, indexed, matched, matchedProved, proofReq>>
        /\ UNCHANGED <<minFiltered, tip, proved, proveReq, asked, ghosts>>

-----------------------------------------------------------------------------
(* RPC: set_scripts *)

\* Mutant: the ranges of the old scripts stay.
UpdateFilterScriptsOnly(sc, given) ==
    /\ scripts' = sc
    /\ minFiltered' = MinFilteredByScripts(sc)
    /\ UNCHANGED ranges
    /\ indexed' = IF \E s \in DOMAIN given : given[s] = 0
                  THEN FilterBlocks(indexed, sc, {Genesis}) ELSE indexed

\* update_filter_scripts with the new scripts sc, then matched_blocks.clear().
\* `given` are the scripts named by the call with their numbers.
UpdateFilterScripts(sc, given) ==
    /\ scripts' = sc
    /\ minFiltered' = MinFilteredByScripts(sc)
    /\ ranges' = Without(ranges, DOMAIN ranges)
    /\ indexed' = IF \E s \in DOMAIN given : given[s] = 0
                  THEN FilterBlocks(indexed, sc, {Genesis}) ELSE indexed

SetScriptsAll(given) ==
    /\ UpdateFilterScripts(given, given)
    /\ since' = given

SetScriptsPartial(given) ==
    /\ DOMAIN given # {}
    /\ UpdateFilterScripts(Override(scripts, given), given)
    /\ since' = Override(since, given)

SetScriptsDelete(names) ==
    /\ names # {}
    /\ UpdateFilterScripts(Without(scripts, names), Without(scripts, DOMAIN scripts))
    /\ since' = Without(since, names)

\* "partial" and "delete" without scripts return before the first write; the
\* RPC still clears the mirror.
SetScriptsNothing ==
    /\ EmptyCommands
    /\ UNCHANGED <<scripts, minFiltered, ranges, indexed, since>>

SetScripts ==
    /\ budget.commands > 0
    /\ budget' = [budget EXCEPT !.commands = @ - 1]
    /\ \/ \E S \in SUBSET Scripts :
             \/ \E given \in [S -> StartNumbers] :
                   SetScriptsAll(given) \/ SetScriptsPartial(given)
             \/ SetScriptsDelete(S)
       \/ SetScriptsNothing
    /\ ClearMatched
    /\ UNCHANGED <<tip, peerVars>>

-----------------------------------------------------------------------------
(* The specification *)

\* A new database after init_genesis_block, no scripts, no peers.
Init ==
    /\ scripts = [s \in {} |-> 0]
    /\ minFiltered = 0
    /\ ranges = [k \in {} |-> 0]
    /\ tip = Genesis
    /\ indexed = {}
    /\ matched = {} /\ matchedProved = {} /\ downloaded = {}
    /\ proved = [p \in Peers |-> NoBlock]
    /\ proveReq = [p \in Peers |-> NoProveReq]
    /\ proofReq = [p \in Peers |-> NoProofReq]
    /\ blocksReq = [p \in Peers |-> NoBlocksReq]
    /\ asked = {}
    /\ since = scripts
    /\ budget = [commands |-> MaxCommands, losses |-> MaxLosses]

LightClientStep ==
    \/ \E p \in Peers, b \in Heads : GetLastStateProof(p, b) \/ SendLastStateChild(p, b)
    \/ \E p \in Peers : SendLastStateProof(p) \/ SendBlocksProof(p) \/ Disconnected(p)
    \/ GetIdleBlocks

FilterStep ==
    \/ TrySendGetBlockFilters
    \/ \E a \in asked : BlockFilters(a[1], a[2])

SyncStep == \E b \in Blocks : SendBlock(b)

Next == LightClientStep \/ FilterStep \/ SyncStep \/ SetScripts \/ Restart

Spec == Init /\ [][Next]_vars

\* The full node sends a block that was requested and has not arrived.
SendRequestedBlock ==
    \E p \in Peers : \E b \in blocksReq[p].hashes \ blocksReq[p].received : SendBlock(b)

\* The timers fire again and again, and the peers, as long as they stay
\* connected, announce their last state and answer requests (a peer that does
\* not answer within MESSAGE_TIMEOUT is disconnected).  Nothing is assumed of
\* the user, of restarts and of disconnections.
Fairness ==
    /\ WF_vars(TrySendGetBlockFilters)
    /\ WF_vars(GetIdleBlocks)
    /\ WF_vars(SendRequestedBlock)
    /\ \A p \in Peers :
          /\ WF_vars(\E b \in Heads : GetLastStateProof(p, b))
          /\ WF_vars(SendLastStateProof(p))
          /\ WF_vars(SendBlocksProof(p))
          /\ WF_vars(\E a \in asked : a[1] = p /\ BlockFilters(p, a[2]))

FairSpec == Spec /\ Fairness

-----------------------------------------------------------------------------
(* Properties *)

\* The types of the state, in four parts.
StoredType ==
    /\ DOMAIN scripts \subseteq Scripts
    /\ scripts \in [DOMAIN scripts -> Nat]
    /\ minFiltered \in Nat
    /\ DOMAIN ranges \subseteq Nat
    /\ ranges \in [DOMAIN ranges -> MatchedRange]
    /\ \A k \in DOMAIN ranges :
          ranges[k].hashes # {} /\ ranges[k].proved \subseteq ranges[k].hashes
    /\ tip \in Blocks
    /\ indexed \subseteq Scripts \X Blocks
MemoryType ==
    /\ matched \subseteq Blocks
    /\ matchedProved \subseteq matched
    /\ downloaded \subseteq matchedProved
PeersType ==
    /\ proved \in [Peers -> Blocks \cup {NoBlock}]
    /\ proveReq \in [Peers -> ProveRequest]
    /\ proofReq \in [Peers -> BlocksProofRequest]
    /\ blocksReq \in [Peers -> BlocksRequest]
    /\ asked \subseteq Peers \X (Nat \ {0})
GhostType ==
    /\ since \in [DOMAIN scripts -> Nat]
    /\ budget \in [commands : 0 .. MaxCommands, losses : 0 .. MaxLosses]

\* The type invariant: scripts and their start numbers have one domain, a stored
\* range names at least one block and marks only its own as proved, a block in
\* memory is downloaded only after it was proved.
TypeOK == StoredType /\ MemoryType /\ PeersType /\ GhostType

\* The cursor is never behind a stored range: every range starts at a block in
\* 1 .. minFiltered, so the next one is stored after all the others (and the
\* loop of commit_prove_state that removes the ranges after block 1 ends).
RangesBehindCursor == \A k \in DOMAIN ranges : 1 <= k /\ k <= minFiltered

\* The in-memory matched blocks are exactly the blocks of the earliest stored
\* range, whenever there are any: what the assertions of SyncProtocol rely on
\* when the last block of the range arrives, whatever set_scripts, a reorg, a
\* restart or a further range did meanwhile.
MirrorsEarliest ==
    matched # {} =>
        \E k \in DOMAIN ranges : IsEarliest(ranges, k) /\ matched = ranges[k].hashes

\* The blocks of the stored chain that script s asks for.
Wanted(s) ==
    {b \in Ancestors[tip] :
        s \in Touches[b] /\ (Number[b] > since[s] \/ (b = Genesis /\ since[s] = 0))}

\* No wanted block gets lost between the tasks: it is in the index, or in a
\* stored range, or still ahead of the filter cursor.
NothingLost ==
    \A s \in DOMAIN scripts : \A b \in Wanted(s) :
        \/ <<s, b>> \in indexed
        \/ \E k \in DOMAIN ranges : b \in ranges[k].hashes
        \/ Number[b] > minFiltered

\* The block number that get_scripts reports is true: every wanted block up to
\* it is in the index.
ProgressIsTrue ==
    \A s \in DOMAIN scripts : \A b \in Wanted(s) :
        Number[b] <= scripts[s] => <<s, b>> \in indexed

\* "block_number - Filter start number" (README, set_scripts): once the scripts
\* have been filtered past the number they were given, the block with that
\* number has been filtered too.
StartBlockFiltered ==
    \A s \in DOMAIN scripts : \A b \in Ancestors[tip] :
        (Number[b] = since[s] /\ s \in Touches[b] /\ scripts[s] > since[s])
            => <<s, b>> \in indexed

\* The index of a watched script holds only blocks of the stored chain.
IndexOnChain ==
    \A e \in indexed : e[1] \in DOMAIN scripts => e[2] \in Ancestors[tip]

\* Every wanted block of the stored chain is in the index in the end, whatever
\* calls of set_scripts, restarts and disconnections came before: no task ends
\* up waiting for another one, and no range, proof or block request is stuck.
\* It needs a peer that stays proved: build_prove_request_content proves nothing
\* after a restart until a block above the stored tip is announced.
EventuallyIndexed ==
    (\E p \in Peers : <>[](proved[p] # NoBlock)) =>
        <>[](\A s \in DOMAIN scripts : \A b \in Wanted(s) : <<s, b>> \in indexed)

\* A proof is never asked for the header that it is rooted in: the MMR of the
\* tip covers only the blocks before it, so a full node could not answer.  The
\* proved flag that BlockFiltersProcess gives to a peer's own last block is
\* what keeps the tip out of the requests.
NeverAsksProofOfTip ==
    \A p \in Peers : proofReq[p].last \notin proofReq[p].blocks

\* Why that holds: the stored tip is at least as heavy as the last header of
\* every proved peer, and heavier than every matched block that still has to be
\* proved, stored or in memory, whichever peer, reorg or child update moved it.
UnprovedBelowTip ==
    /\ \A p \in Peers :
          proved[p] # NoBlock => TotalDifficulty[proved[p]] <= TotalDifficulty[tip]
    /\ \A k \in DOMAIN ranges : \A b \in ranges[k].hashes \ ranges[k].proved :
          TotalDifficulty[b] < TotalDifficulty[tip]
    /\ \A b \in matched \ matchedProved : TotalDifficulty[b] < TotalDifficulty[tip]
=============================================================================
