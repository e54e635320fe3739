-------------------------- MODULE FilterSyncProofs --------------------------
(***************************************************************************)
(* Safety of FilterSync for every block tree, every set of peers and of    *)
(* scripts and every bound: type correctness, the mirror invariant that the *)
(* assertions of SyncProtocol rely on, and that no proof is asked of the    *)
(* header it would be rooted in; types and proof requests with the crashes  *)
(* of FilterSyncCrash as well.  On a chain that only grows no wanted block  *)
(* is lost and the numbers of the scripts are true (NothingLost,            *)
(* ProgressIsTrue), also with a crash in BlockFiltersProcess.               *)
(***************************************************************************)
EXTENDS FilterSyncCrash, ChainProofs

-----------------------------------------------------------------------------
(* The operators of the storage *)

USE ChainAssumption, FilterSyncAssumption

\* The least script number, to which the filter cursor is set, is a natural number.
LEMMA MinFilteredType ==
    ASSUME minFiltered \in Nat, NEW sc, sc \in [DOMAIN sc -> Nat]
    PROVE  MinFilteredByScripts(sc) \in Nat
<1> DEFINE numbers == {sc[s] : s \in DOMAIN sc}
<1>1. CASE DOMAIN sc = {} BY <1>1 DEF MinFilteredByScripts
<1>2. CASE DOMAIN sc # {}
  <2>1. numbers \in SUBSET Nat /\ numbers # {} BY <1>2
  <2>2. \E n \in numbers : \A m \in numbers : n <= m BY <2>1, NatMin
  <2>3. \E n \in numbers : \A s \in DOMAIN sc : n <= sc[s] BY <2>2
  <2> QED BY <1>2, <2>1, <2>3 DEF MinFilteredByScripts
<1> QED BY <1>1, <1>2
-----------------------------------------------------------------------------
(* Type correctness *)

\* The freshly initialised storage and the empty memory have their types.
LEMMA InitType == Init => TypeOK
BY DEF Init, TypeOK, StoredType, MemoryType, PeersType, GhostType, NoProveReq, NoProofReq,
       NoBlocksReq, ProveRequest, BlocksProofRequest, BlocksRequest, MatchedRange

\* prove_or_download_matched_blocks keeps the types of the requests it opens.
LEMMA ProveOrDownloadType ==
    ASSUME TypeOK, NEW m \in SUBSET Blocks, NEW mp \in SUBSET m, NEW md,
           NEW br \in [Peers -> BlocksRequest], ProveOrDownload(m, mp, md, br)
    PROVE  /\ proofReq' \in [Peers -> BlocksProofRequest]
           /\ blocksReq' \in [Peers -> BlocksRequest]
<1> DEFINE toProve == (m \ mp) \ UNION {proofReq[p].blocks : p \in Peers}
           toGet   == (mp \ md) \ UNION {br[p].hashes : p \in Peers}
           idle1   == {p \in BestProvedPeers(tip) : proofReq[p] = NoProofReq}
           idle2   == {p \in BestProvedPeers(tip) : br[p] = NoBlocksReq}
<1>1. toProve \in SUBSET Blocks /\ toGet \in SUBSET Blocks OBVIOUS
<1>2. PICK a \in Assignments(toProve, idle1, ProofLimit) :
          proofReq' = [p \in Peers |->
              IF p \in idle1 /\ a[p] # {}
              THEN [last |-> tip, blocks |-> a[p]] ELSE proofReq[p]]
      BY DEF ProveOrDownload
<1>3. PICK c \in Assignments(toGet, idle2, InTransit) :
          blocksReq' = [p \in Peers |->
              IF p \in idle2 /\ c[p] # {}
              THEN [hashes |-> c[p], received |-> {}] ELSE br[p]]
      BY DEF ProveOrDownload
<1> HIDE DEF toProve, toGet, idle1, idle2
<1>4. a \in [idle1 -> SUBSET Blocks] /\ c \in [idle2 -> SUBSET Blocks]
      BY <1>1 DEF Assignments
<1>5. tip \in Blocks /\ proofReq \in [Peers -> BlocksProofRequest]
      BY DEF TypeOK, StoredType, PeersType
<1>6. proofReq' \in [Peers -> BlocksProofRequest]
      BY <1>2, <1>4, <1>5 DEF BlocksProofRequest
<1>7. blocksReq' \in [Peers -> BlocksRequest]
      BY <1>3, <1>4 DEF BlocksRequest
<1> QED BY <1>6, <1>7

\* Loading a stored range fills the mirror with a typed value.
LEMMA LoadRangeType ==
    ASSUME TypeOK, NEW r \in MatchedRange, r.proved \subseteq r.hashes,
           NEW br \in [Peers -> BlocksRequest], LoadRange(r, br)
    PROVE  /\ MemoryType'
           /\ proofReq' \in [Peers -> BlocksProofRequest]
           /\ blocksReq' \in [Peers -> BlocksRequest]
<1>1. r.hashes \in SUBSET Blocks /\ r.proved \in SUBSET r.hashes BY DEF MatchedRange
<1>2. ProveOrDownload(r.hashes, r.proved, {}, br) BY DEF LoadRange
<1>3. MemoryType' BY <1>1 DEF LoadRange, MemoryType
<1> QED BY <1>1, <1>2, <1>3, ProveOrDownloadType

\* Peers::add_block closes at most the download slots, and keeps their type.
LEMMA AddBlockType ==
    ASSUME PeersType, NEW b \in Blocks
    PROVE  AddBlock(b) \in [Peers -> BlocksRequest]
BY DEF PeersType, AddBlock, BlocksRequest, NoBlocksReq

\* get_last_state_proof changes one proof request slot and keeps every type.
LEMMA GetLastStateProofType ==
    ASSUME TypeOK, NEW p \in Peers, NEW b \in Heads, GetLastStateProof(p, b)
    PROVE  TypeOK'
<1> DEFINE start == IF proved[p] = NoBlock THEN tip ELSE proved[p]
<1>1. b \in Blocks OBVIOUS
<1>2. start \in Blocks BY DEF TypeOK, StoredType, PeersType
<1>3. LastHeaders(tip) \in SUBSET Blocks BY LastHeadersType DEF TypeOK, StoredType
<1>4. StartOfRequest(start, b, LastHeaders(tip)) \in Blocks
      BY <1>1, <1>2, <1>3, StartOfRequestType
<1>5. proved' \in [Peers -> Blocks \cup {NoBlock}]
      BY <1>1 DEF TypeOK, PeersType, GetLastStateProof, UpdateProveState
<1> HIDE DEF start
<1>6. proveReq' \in [Peers -> ProveRequest]
  <2>1. proveReq \in [Peers -> ProveRequest] BY DEF TypeOK, PeersType
  <2>2. CASE proveReq' = [proveReq EXCEPT ![p] = NoProveReq]
        BY <2>1, <2>2 DEF NoProveReq, ProveRequest
  <2>3. CASE proveReq' = [proveReq EXCEPT ![p] =
                  [last |-> b, start |-> StartOfRequest(start, b, LastHeaders(tip)),
                   longFork |-> FALSE]]
        BY <1>1, <1>4, <2>1, <2>3 DEF ProveRequest
  <2> QED BY <2>2, <2>3 DEF GetLastStateProof, UpdateProveState, start
<1> QED BY <1>5, <1>6 DEF GetLastStateProof, TypeOK, StoredType, MemoryType, PeersType, GhostType,
          stored, memory, ghosts

\* The child update of SendLastState keeps every type.
LEMMA SendLastStateChildType ==
    ASSUME TypeOK, NEW p \in Peers, NEW b \in Heads, SendLastStateChild(p, b)
    PROVE  TypeOK'
<1>1. b \in Blocks OBVIOUS
<1>2. PeersType'
      BY <1>1 DEF TypeOK, PeersType, SendLastStateChild, UpdateProveState, NoProveReq, ProveRequest
<1>3. tip' \in Blocks BY <1>1 DEF TypeOK, StoredType, SendLastStateChild
<1> QED BY <1>2, <1>3 DEF SendLastStateChild, TypeOK, StoredType, MemoryType, GhostType,
          memory, ghosts

\* rollback_to_block, at a block number that is not zero.
LEMMA RollbackType ==
    ASSUME TypeOK, NEW gone, NEW to \in Nat \ {0}, Rollback(gone, to), tip' \in Blocks
    PROVE  StoredType' /\ MemoryType' /\ DOMAIN scripts' = DOMAIN scripts
<1>1. DOMAIN scripts' = DOMAIN scripts /\ scripts' \in [DOMAIN scripts' -> Nat]
      BY DEF TypeOK, StoredType, Rollback, RollbackScripts
<1>2. minFiltered' \in Nat BY DEF TypeOK, StoredType, Rollback, RollbackMinFiltered
<1>3. indexed' \subseteq Scripts \X Blocks BY DEF TypeOK, StoredType, Rollback, RollbackIndex
<1>4. /\ DOMAIN ranges' \subseteq DOMAIN ranges
      /\ ranges' = [k \in DOMAIN ranges' |-> ranges[k]]
      BY DEF Rollback, Without
<1>5. MemoryType' BY DEF Rollback, ClearMatched, MemoryType
<1>6. DOMAIN scripts' \subseteq Scripts BY <1>1 DEF TypeOK, StoredType
<1>7. /\ DOMAIN ranges' \subseteq Nat
      /\ ranges' \in [DOMAIN ranges' -> MatchedRange]
      /\ \A k \in DOMAIN ranges' :
            ranges'[k].hashes # {} /\ ranges'[k].proved \subseteq ranges'[k].hashes
      BY <1>4 DEF TypeOK, StoredType
<1> QED BY <1>1, <1>2, <1>3, <1>5, <1>6, <1>7 DEF StoredType

\* The block number that commit_prove_state rolls back to on a fork is above the
\* start of every range that is kept.
LEMMA RollbackToType ==
    ASSUME TypeOK, NEW fork \in Nat
    PROVE  /\ RollbackTo(fork) \in Nat \ {0}
           /\ \A k \in DOMAIN ranges : k <= fork => k < RollbackTo(fork)
<1> DEFINE kept == {k \in DOMAIN ranges : k <= fork}
<1>1. kept \in SUBSET Nat /\ \A k \in kept : k <= fork BY DEF TypeOK, StoredType
<1>2. CASE kept = {} BY <1>2 DEF RollbackTo
<1>3. CASE kept # {}
  <2> HIDE DEF kept
  <2>1. MaxOf(kept) \in kept /\ \A k \in kept : k <= MaxOf(kept)
        BY <1>1, <1>3, MaxOfIsMax
  <2>2. RollbackTo(fork) = MaxOf(kept) + 1 BY <1>3 DEF RollbackTo, kept
  <2> DEFINE m == MaxOf(kept)
  <2> m \in Nat /\ \A k \in kept : k \in Nat /\ k <= m BY <1>1, <2>1
  <2> HIDE DEF m
  <2>3. RollbackTo(fork) \in Nat \ {0} BY <2>2 DEF m
  <2>4. \A k \in kept : k < RollbackTo(fork) BY <2>2 DEF m
  <2> QED BY <2>3, <2>4 DEF kept
<1> QED BY <1>2, <1>3

\* SendLastStateProof keeps every type, in each outcome of commit_prove_state.
LEMMA SendLastStateProofType ==
    ASSUME TypeOK, NEW p \in Peers, SendLastStateProof(p)
    PROVE  TypeOK'
<1> DEFINE new   == proveReq[p].last
           start == proveReq[p].start
           reorg == ReorgHeaders(start, new)
<1>1. new \in Blocks /\ start \in Blocks
      BY DEF TypeOK, PeersType, SendLastStateProof, ProveRequest
<1>2. /\ proofReq' = proofReq /\ blocksReq' = blocksReq /\ asked' = asked
      /\ since' = since /\ budget' = budget
      BY DEF SendLastStateProof, ghosts
<1> HIDE DEF new, start
<1>3. PeersType'
  <2>1. proved' \in [Peers -> Blocks \cup {NoBlock}]
        BY <1>1 DEF TypeOK, PeersType, SendLastStateProof, UpdateProveState, new
  <2>2. proveReq' \in [Peers -> ProveRequest]
    <3>1. proveReq \in [Peers -> ProveRequest] BY DEF TypeOK, PeersType
    <3>2. CASE proveReq' = [proveReq EXCEPT ![p] = NoProveReq]
          BY <3>1, <3>2 DEF ProveRequest
    <3>3. CASE proveReq' = [proveReq EXCEPT ![p] =
                               [last |-> new, start |-> Genesis, longFork |-> TRUE]]
          BY <1>1, <3>1, <3>3 DEF ProveRequest
    <3> QED BY <3>2, <3>3 DEF SendLastStateProof, UpdateProveState, new
  <2> QED BY <1>2, <2>1, <2>2 DEF TypeOK, PeersType
<1>4. StoredType' /\ MemoryType' /\ DOMAIN scripts' = DOMAIN scripts
  <2>1. \/ UNCHANGED <<stored, memory>>
        \/ CommitNothing(new) \/ CommitExtension(new, reorg)
        \/ CommitAfterBlockOne(new, reorg) \/ CommitReorg(new, reorg)
        BY DEF SendLastStateProof, new, start
  <2>2. CASE UNCHANGED <<stored, memory>> \/ CommitNothing(new)
        BY <2>2 DEF CommitNothing, TypeOK, StoredType, MemoryType, stored, memory
  <2>3. CASE CommitExtension(new, reorg)
        BY <1>1, <2>3 DEF CommitExtension, TypeOK, StoredType, MemoryType, memory
  <2>4. CASE CommitAfterBlockOne(new, reorg)
        BY <1>1, <2>4, RollbackType DEF CommitAfterBlockOne
  <2>5. CASE CommitReorg(new, reorg)
    <3> DEFINE fork == MaxOf(ForkNumbers(reorg, LastHeaders(tip)))
    <3>1. fork \in Nat
      <4>1. LastHeaders(tip) \in SUBSET Blocks BY LastHeadersType DEF TypeOK, StoredType
      <4>2. ForkNumbers(reorg, LastHeaders(tip)) # {} BY <2>5 DEF CommitReorg
      <4> QED BY <1>1, <4>1, <4>2, ForkNumberType
    <3>2. Rollback({k \in DOMAIN ranges : k > fork}, RollbackTo(fork)) /\ tip' = new
          BY <2>5 DEF CommitReorg
    <3> HIDE DEF fork
    <3> QED BY <1>1, <3>1, <3>2, RollbackToType, RollbackType
  <2> QED BY <2>1, <2>2, <2>3, <2>4, <2>5
<1> QED BY <1>2, <1>3, <1>4 DEF TypeOK, GhostType

\* Forgetting a peer keeps every type.
LEMMA DisconnectedType ==
    ASSUME TypeOK, NEW p \in Peers, Disconnected(p)
    PROVE  TypeOK'
<1>1. PeersType'
      BY DEF TypeOK, PeersType, Disconnected, ProveRequest, BlocksProofRequest, BlocksRequest,
             NoBlocksReq
<1>2. budget' \in [commands : 0 .. MaxCommands, losses : 0 .. MaxLosses]
      BY DEF TypeOK, GhostType, Disconnected
<1> QED BY <1>1, <1>2 DEF Disconnected, TypeOK, StoredType, MemoryType, GhostType, stored, memory

\* The memory of a new process has its type.
LEMMA LoseMemoryType ==
    ASSUME LoseMemory
    PROVE  MemoryType' /\ PeersType'
BY DEF LoseMemory, ClearMatched, MemoryType, PeersType, ProveRequest, BlocksProofRequest,
       BlocksRequest, NoBlocksReq

\* A restart keeps the stored part and starts from an empty memory.
LEMMA RestartType == TypeOK /\ Restart => TypeOK'
<1> SUFFICES ASSUME TypeOK, Restart PROVE TypeOK' OBVIOUS
<1>1. MemoryType' /\ PeersType' BY LoseMemoryType DEF Restart
<1>2. budget' \in [commands : 0 .. MaxCommands, losses : 0 .. MaxLosses]
      BY DEF TypeOK, GhostType, Restart
<1> QED BY <1>1, <1>2 DEF Restart, TypeOK, StoredType, GhostType, stored

\* try_send_get_block_filters, recovering a range or not, keeps every type.
LEMMA TrySendGetBlockFiltersType == TypeOK /\ TrySendGetBlockFilters => TypeOK'
<1> SUFFICES ASSUME TypeOK, TrySendGetBlockFilters PROVE TypeOK' OBVIOUS
<1>1. PICK p \in Peers :
         /\ LET ask == IF CouldRequestMore(minFiltered)
                       THEN {<<p, minFiltered + 1>>} ELSE {}
            IN  \/ \E k \in DOMAIN ranges :
                      LoadRange(ranges[k], blocksReq) /\ asked' = asked \cup ask
                \/ asked' = asked \cup ask /\ UNCHANGED <<memory, proofReq, blocksReq>>
         /\ UNCHANGED <<stored, proved, proveReq, ghosts>>
      BY DEF TrySendGetBlockFilters
<1>2. asked' \subseteq Peers \X (Nat \ {0})
  <2>1. asked' \subseteq asked \cup {<<p, minFiltered + 1>>} BY <1>1
  <2> QED BY <2>1 DEF TypeOK, StoredType, PeersType
<1> DEFINE Loaded == /\ MemoryType'
                     /\ proofReq' \in [Peers -> BlocksProofRequest]
                     /\ blocksReq' \in [Peers -> BlocksRequest]
<1>3. Loaded
  <2>1. ASSUME NEW k \in DOMAIN ranges, LoadRange(ranges[k], blocksReq) PROVE Loaded
        BY <2>1, LoadRangeType DEF TypeOK, StoredType, PeersType
  <2>2. CASE UNCHANGED <<memory, proofReq, blocksReq>>
        BY <2>2 DEF TypeOK, MemoryType, PeersType, memory
  <2> QED BY <1>1, <2>1, <2>2
<1> QED BY <1>1, <1>2, <1>3 DEF TypeOK, StoredType, PeersType, GhostType, stored, ghosts

\* A range put at a key keeps the type of the stored ranges.
LEMMA AddRangeType ==
    ASSUME StoredType, NEW start \in Nat, NEW r \in MatchedRange, r.hashes # {}, r.proved \subseteq r.hashes,
           ranges' = Override(ranges, [k \in {start} |-> r])
    PROVE  /\ DOMAIN ranges' = DOMAIN ranges \cup {start}
           /\ \A k \in DOMAIN ranges' : ranges'[k] = IF k = start THEN r ELSE ranges[k]
           /\ ranges' \in [DOMAIN ranges' -> MatchedRange]
           /\ \A k \in DOMAIN ranges' :
                 ranges'[k].hashes # {} /\ ranges'[k].proved \subseteq ranges'[k].hashes
<1>1. DOMAIN ranges' = DOMAIN ranges \cup {start} BY DEF Override
<1>2. ranges' = [k \in DOMAIN ranges \cup {start} |-> IF k = start THEN r ELSE ranges[k]]
      BY DEF Override
<1> QED BY <1>1, <1>2 DEF StoredType

\* An accepted batch of filters stores a typed range and moves the cursor to a number.
LEMMA BlockFiltersAcceptedType ==
    ASSUME TypeOK, NEW p \in Peers, NEW start \in Nat \ {0}, NEW n \in 1 .. MaxBatch,
           BlockFiltersAccepted(p, start, n),
           UNCHANGED <<tip, proved, proveReq, ghosts>>
    PROVE  TypeOK'
<1> DEFINE matches == PossibleMatches(Served(p, start, n), start + n)
           last    == start + n - 1
           range   == [count |-> n, hashes |-> matches, proved |-> matches \cap {proved[p]}]
<1>1. matches \in SUBSET Blocks
  <2>1. proved[p] \in Blocks BY DEF TypeOK, PeersType, BlockFiltersAccepted
  <2> QED BY <2>1 DEF PossibleMatches, Served
<1>2. last \in Nat /\ last >= start /\ n \in Nat \ {0} OBVIOUS
<1>3. range \in MatchedRange /\ range.proved \subseteq range.hashes BY <1>1, <1>2 DEF MatchedRange
<1>4. DOMAIN scripts' = DOMAIN scripts /\ scripts' \in [DOMAIN scripts' -> Nat]
      BY <1>2 DEF TypeOK, StoredType, BlockFiltersAccepted, UpdateBlockNumber
<1>5. minFiltered' = last BY DEF BlockFiltersAccepted
<1>6. asked' \subseteq Peers \X (Nat \ {0})
  <2>1. PICK q \in Peers : asked' \subseteq asked \cup {<<q, last + 1>>}
        BY DEF BlockFiltersAccepted, BestProvedPeers
  <2> QED BY <1>2, <2>1 DEF TypeOK, PeersType
<1>7. /\ DOMAIN ranges' \subseteq Nat
      /\ ranges' \in [DOMAIN ranges' -> MatchedRange]
      /\ \A k \in DOMAIN ranges' :
            ranges'[k].hashes # {} /\ ranges'[k].proved \subseteq ranges'[k].hashes
  <2>1. CASE matches = {}
        BY <2>1 DEF TypeOK, StoredType, BlockFiltersAccepted
  <2>2. CASE matches # {}
    <3>1. ranges' = Override(ranges, [k \in {start} |-> range]) BY <2>2 DEF BlockFiltersAccepted, NewRange
    <3>2. range.hashes # {} BY <2>2
    <3>3. StoredType BY DEF TypeOK
    <3> HIDE DEF range
    <3>4. /\ DOMAIN ranges' = DOMAIN ranges \cup {start}
          /\ ranges' \in [DOMAIN ranges' -> MatchedRange]
          /\ \A k \in DOMAIN ranges' :
                ranges'[k].hashes # {} /\ ranges'[k].proved \subseteq ranges'[k].hashes
          BY <1>3, <3>1, <3>2, <3>3, AddRangeType
    <3> QED BY <3>3, <3>4 DEF StoredType
  <2> QED BY <2>1, <2>2
<1> DEFINE Loaded == /\ MemoryType'
                     /\ proofReq' \in [Peers -> BlocksProofRequest]
                     /\ blocksReq' \in [Peers -> BlocksRequest]
<1>8. Loaded
  <2>1. ASSUME NEW k \in DOMAIN ranges', LoadRange(ranges'[k], blocksReq) PROVE Loaded
        BY <1>7, <2>1, LoadRangeType DEF TypeOK, PeersType
  <2>2. CASE UNCHANGED <<memory, proofReq, blocksReq>>
        BY <2>2 DEF TypeOK, MemoryType, PeersType, memory
  <2> QED BY <2>1, <2>2 DEF BlockFiltersAccepted
<1>9. StoredType'
      BY <1>2, <1>4, <1>5, <1>7 DEF TypeOK, StoredType, BlockFiltersAccepted
<1> QED BY <1>4, <1>6, <1>8, <1>9 DEF TypeOK, PeersType, GhostType, ghosts

\* BlockFiltersProcess keeps every type, whether the batch is stale, ignored, unknown or accepted.
LEMMA BlockFiltersType ==
    ASSUME TypeOK, NEW p, NEW start, BlockFilters(p, start)
    PROVE  TypeOK'
<1>1. p \in Peers /\ start \in Nat \ {0} BY DEF BlockFilters, TypeOK, PeersType
<1>2. CASE BlockFiltersStale(p, start)
  <2>1. DOMAIN scripts' = DOMAIN scripts /\ scripts' \in [DOMAIN scripts' -> Nat]
        BY <1>2 DEF TypeOK, StoredType, BlockFiltersStale, UpdateBlockNumber
  <2> QED BY <1>2, <2>1 DEF BlockFilters, BlockFiltersStale, TypeOK, StoredType, MemoryType,
            PeersType, GhostType, memory, ghosts
<1>5. CASE BlockFiltersUnknown(p, start)
  <2>1. DOMAIN scripts' = DOMAIN scripts /\ scripts' \in [DOMAIN scripts' -> Nat]
        BY <1>5 DEF TypeOK, StoredType, BlockFiltersUnknown, UpdateBlockNumber
  <2> QED BY <1>5, <2>1 DEF BlockFilters, BlockFiltersUnknown, TypeOK, StoredType, MemoryType,
            PeersType, GhostType, memory, ghosts
<1>3. CASE BlockFiltersIgnored(p, start)
      BY <1>3 DEF BlockFilters, BlockFiltersIgnored, TypeOK, StoredType, MemoryType,
            PeersType, GhostType, memory, ghosts
<1>4. ASSUME NEW n \in 1 .. MaxBatch, BlockFiltersAccepted(p, start, n) PROVE TypeOK'
      BY <1>1, <1>4, BlockFiltersAcceptedType DEF BlockFilters
<1> QED BY <1>2, <1>3, <1>4, <1>5 DEF BlockFilters

\* The idle-blocks timer keeps every type.
LEMMA GetIdleBlocksType == TypeOK /\ GetIdleBlocks => TypeOK'
<1> SUFFICES ASSUME TypeOK, GetIdleBlocks PROVE TypeOK' OBVIOUS
<1>1. /\ matched \in SUBSET Blocks /\ matchedProved \in SUBSET matched
      /\ blocksReq \in [Peers -> BlocksRequest]
      BY DEF TypeOK, MemoryType, PeersType
<1>2. /\ proofReq' \in [Peers -> BlocksProofRequest]
      /\ blocksReq' \in [Peers -> BlocksRequest]
      BY <1>1, ProveOrDownloadType DEF GetIdleBlocks
<1> QED BY <1>2 DEF GetIdleBlocks, TypeOK, StoredType, MemoryType, PeersType, GhostType,
          stored, memory, ghosts

\* SendBlocksProof keeps every type: only matched blocks become proved.
LEMMA SendBlocksProofType ==
    ASSUME TypeOK, NEW p \in Peers, SendBlocksProof(p)
    PROVE  TypeOK'
<1>1. proofReq[p].blocks \in SUBSET Blocks
      BY DEF TypeOK, PeersType, SendBlocksProof, BlocksProofRequest
<1>2. matchedProved' \subseteq matched /\ matchedProved \subseteq matchedProved'
      BY DEF TypeOK, MemoryType, SendBlocksProof, BlocksProof, BlocksProofNewState
<1>3. blocksReq' \in [Peers -> BlocksRequest]
  <2>1. blocksReq \in [Peers -> BlocksRequest] BY DEF TypeOK, PeersType
  <2>2. CASE UNCHANGED blocksReq BY <2>1, <2>2
  <2>3. CASE BlocksProof(p)
        BY <1>1, <2>1, <2>3 DEF BlocksProof, BlocksRequest, BestProvedPeers
  <2> QED BY <2>2, <2>3 DEF SendBlocksProof, BlocksProofNewState
<1>4. proofReq' \in [Peers -> BlocksProofRequest]
      BY DEF TypeOK, PeersType, SendBlocksProof, BlocksProofRequest
<1> QED BY <1>2, <1>3, <1>4 DEF SendBlocksProof, TypeOK, StoredType, MemoryType, PeersType,
          GhostType, stored, ghosts

\* SendBlock keeps every type, when the range is finished too.
LEMMA SendBlockType ==
    ASSUME TypeOK, NEW b \in Blocks, SendBlock(b)
    PROVE  TypeOK'
<1>1. AddBlock(b) \in [Peers -> BlocksRequest] BY AddBlockType DEF TypeOK
<1>2. CASE FinishRange(b)
  <2>1. PICK k \in DOMAIN ranges :
           /\ ranges' = Without(ranges, {k})
           /\ indexed' = FilterBlocks(indexed, scripts, matched)
           /\ scripts' = UpdateBlockNumber(scripts, k + ranges[k].count - 1)
           /\ \/ ClearMatched /\ blocksReq' = AddBlock(b) /\ UNCHANGED proofReq
              \/ \E j \in DOMAIN ranges' : LoadRange(ranges'[j], AddBlock(b))
        BY <1>2 DEF FinishRange
  <2>2. /\ DOMAIN ranges' \subseteq DOMAIN ranges
        /\ ranges' = [j \in DOMAIN ranges' |-> ranges[j]]
        BY <2>1 DEF Without
  <2>3. /\ DOMAIN ranges' \subseteq Nat
        /\ ranges' \in [DOMAIN ranges' -> MatchedRange]
        /\ \A j \in DOMAIN ranges' :
              ranges'[j].hashes # {} /\ ranges'[j].proved \subseteq ranges'[j].hashes
        BY <2>2 DEF TypeOK, StoredType
  <2>4. DOMAIN scripts' = DOMAIN scripts /\ scripts' \in [DOMAIN scripts' -> Nat]
    <3>1. k + ranges[k].count - 1 \in Nat BY DEF TypeOK, StoredType, MatchedRange
    <3> QED BY <2>1, <3>1, SMTT(30) DEF TypeOK, StoredType, UpdateBlockNumber
  <2>5. indexed' \subseteq Scripts \X Blocks
        BY <2>1 DEF FilterBlocks, TypeOK, StoredType, MemoryType
  <2>6. StoredType'
        BY <2>3, <2>4, <2>5 DEF SendBlock, TypeOK, StoredType
  <2> DEFINE Loaded == /\ MemoryType'
                       /\ proofReq' \in [Peers -> BlocksProofRequest]
                       /\ blocksReq' \in [Peers -> BlocksRequest]
  <2>7. Loaded
    <3>1. CASE ClearMatched /\ blocksReq' = AddBlock(b) /\ UNCHANGED proofReq
          BY <1>1, <3>1 DEF ClearMatched, MemoryType, TypeOK, PeersType
    <3>2. ASSUME NEW j \in DOMAIN ranges', LoadRange(ranges'[j], AddBlock(b)) PROVE Loaded
          BY <1>1, <2>3, <3>2, LoadRangeType
    <3> QED BY <2>1, <3>1, <3>2
  <2> QED BY <2>4, <2>6, <2>7 DEF SendBlock, TypeOK, PeersType, GhostType, ghosts
<1>3. CASE ~ FinishRange(b)
  <2>1. downloaded' = downloaded \cup ({b} \cap matchedProved) /\ blocksReq' = AddBlock(b)
        BY <1>3 DEF SendBlock, Received
  <2> QED BY <1>1, <1>3, <2>1 DEF SendBlock, TypeOK, StoredType, MemoryType, PeersType,
            GhostType, ghosts
<1> QED BY <1>2, <1>3

\* The tail of update_filter_scripts leaves typed ranges, cursor and mirror.
LEMMA UpdateFilterScriptsType ==
    ASSUME TypeOK, NEW sc, NEW given, DOMAIN sc \subseteq Scripts, sc \in [DOMAIN sc -> Nat],
           UpdateFilterScripts(sc, given), UNCHANGED tip
    PROVE  StoredType' /\ scripts' = sc /\ DOMAIN ranges' = {}
<1>1. minFiltered' \in Nat
  <2>1. minFiltered \in Nat BY DEF TypeOK, StoredType
  <2> QED BY <2>1, MinFilteredType DEF UpdateFilterScripts
<1>2. DOMAIN ranges' = {} /\ ranges' \in [DOMAIN ranges' -> MatchedRange]
      BY DEF UpdateFilterScripts, Without
<1>3. indexed' \subseteq Scripts \X Blocks
      BY DEF UpdateFilterScripts, FilterBlocks, TypeOK, StoredType
<1> QED BY <1>1, <1>2, <1>3 DEF UpdateFilterScripts, TypeOK, StoredType

\* set_scripts keeps every type, for each of its commands.
LEMMA SetScriptsType == TypeOK /\ SetScripts => TypeOK'
<1> SUFFICES ASSUME TypeOK, SetScripts PROVE TypeOK' OBVIOUS
<1>1. /\ budget' \in [commands : 0 .. MaxCommands, losses : 0 .. MaxLosses]
      /\ MemoryType' /\ PeersType' /\ tip' = tip
      BY DEF SetScripts, TypeOK, GhostType, ClearMatched, MemoryType, PeersType, peerVars
<1>2. /\ DOMAIN scripts \subseteq Scripts /\ scripts \in [DOMAIN scripts -> Nat]
      /\ since \in [DOMAIN scripts -> Nat]
      BY DEF TypeOK, StoredType, GhostType
<1>3. ASSUME NEW S \in SUBSET Scripts, NEW given \in [S -> StartNumbers],
             SetScriptsAll(given) \/ SetScriptsPartial(given)
      PROVE  StoredType' /\ since' \in [DOMAIN scripts' -> Nat]
  <2>1. given \in [DOMAIN given -> Nat] /\ DOMAIN given = S OBVIOUS
  <2>2. CASE SetScriptsAll(given)
        BY <1>1, <2>1, <2>2, UpdateFilterScriptsType DEF SetScriptsAll
  <2>3. CASE SetScriptsPartial(given)
    <3> DEFINE sc == Override(scripts, given)
    <3>1. DOMAIN sc = DOMAIN scripts \cup S /\ sc \in [DOMAIN sc -> Nat]
          BY <1>2, <2>1 DEF Override
    <3>2. since' \in [DOMAIN scripts \cup S -> Nat]
          BY <1>2, <2>1, <2>3 DEF SetScriptsPartial, Override
    <3>3. UpdateFilterScripts(sc, given) BY <2>3 DEF SetScriptsPartial
    <3> HIDE DEF sc
    <3>4. DOMAIN sc \subseteq Scripts BY <1>2, <3>1
    <3>5. StoredType' /\ scripts' = sc BY <1>1, <3>1, <3>3, <3>4, UpdateFilterScriptsType
    <3> QED BY <3>1, <3>2, <3>5
  <2> QED BY <1>3, <2>2, <2>3
<1>4. ASSUME NEW S \in SUBSET Scripts, SetScriptsDelete(S)
      PROVE  StoredType' /\ since' \in [DOMAIN scripts' -> Nat]
  <2> DEFINE sc == Without(scripts, S)
  <2>1. DOMAIN sc = DOMAIN scripts \ S /\ sc \in [DOMAIN sc -> Nat]
        BY <1>2 DEF Without
  <2>2. since' \in [DOMAIN scripts \ S -> Nat]
        BY <1>2, <1>4 DEF SetScriptsDelete, Without
  <2>3. UpdateFilterScripts(sc, Without(scripts, DOMAIN scripts))
        BY <1>4 DEF SetScriptsDelete
  <2> HIDE DEF sc
  <2>4. DOMAIN sc \subseteq Scripts BY <1>2, <2>1
  <2>5. StoredType' /\ scripts' = sc BY <1>1, <2>1, <2>3, <2>4, UpdateFilterScriptsType
  <2> QED BY <2>1, <2>2, <2>5
<1>5. CASE SetScriptsNothing
  <2>1. StoredType' /\ since' \in [DOMAIN scripts' -> Nat]
        BY <1>1, <1>5 DEF SetScriptsNothing, TypeOK, StoredType, GhostType
  <2> QED BY <1>1, <2>1 DEF TypeOK, GhostType
<1> QED BY <1>1, <1>3, <1>4, <1>5 DEF SetScripts, TypeOK, GhostType

\* Every step keeps the types: one case per handler.
LEMMA NextType == TypeOK /\ [Next]_vars => TypeOK'
<1> SUFFICES ASSUME TypeOK, [Next]_vars PROVE TypeOK' OBVIOUS
<1>1. CASE LightClientStep
      BY <1>1, GetLastStateProofType, SendLastStateChildType, SendLastStateProofType,
         SendBlocksProofType, DisconnectedType, GetIdleBlocksType DEF LightClientStep
<1>2. CASE FilterStep
      BY <1>2, TrySendGetBlockFiltersType, BlockFiltersType DEF FilterStep
<1>3. CASE SyncStep BY <1>3, SendBlockType DEF SyncStep
<1>4. CASE SetScripts BY <1>4, SetScriptsType
<1>5. CASE Restart BY <1>5, RestartType
<1>6. CASE UNCHANGED vars
      BY <1>6 DEF vars, stored, memory, peerVars, ghosts, TypeOK, StoredType, MemoryType,
         PeersType, GhostType
<1> QED BY <1>1, <1>2, <1>3, <1>4, <1>5, <1>6 DEF Next

\* The state of the filter pipeline stays well typed, whatever the tree, the
\* peers, the scripts and the bounds.
THEOREM TypeCorrect == Spec => []TypeOK
BY InitType, NextType, PTL DEF Spec

-----------------------------------------------------------------------------
(* The mirror of the earliest range *)

\* A new range is stored right after the cursor; RangesBehindCursor is what
\* keeps it from becoming the earliest one under the feet of the mirror.
MirrorInv == RangesBehindCursor /\ MirrorsEarliest

\* A handler that leaves the cursor, the ranges and the mirror alone keeps MirrorInv.
LEMMA MirrorUnchanged ==
    ASSUME MirrorInv, UNCHANGED <<ranges, minFiltered, matched>>
    PROVE  MirrorInv'
BY DEF MirrorInv, RangesBehindCursor, MirrorsEarliest, IsEarliest

\* A handler that empties the mirror only has to keep the ranges behind the cursor.
LEMMA MirrorCleared ==
    ASSUME RangesBehindCursor', matched' = {}
    PROVE  MirrorInv'
BY DEF MirrorInv, MirrorsEarliest

\* SendLastStateProof keeps MirrorInv: a rollback clears the mirror with the ranges.
LEMMA SendLastStateProofMirror ==
    ASSUME TypeOK, TypeOK', MirrorInv, NEW p \in Peers, SendLastStateProof(p)
    PROVE  MirrorInv'
<1> DEFINE new   == proveReq[p].last
           start == proveReq[p].start
           reorg == ReorgHeaders(start, new)
<1>1. new \in Blocks /\ start \in Blocks
      BY DEF TypeOK, PeersType, SendLastStateProof, ProveRequest
<1>2. \/ UNCHANGED <<ranges, minFiltered, matched>>
      \/ CommitAfterBlockOne(new, reorg) \/ CommitReorg(new, reorg)
      BY DEF SendLastStateProof, CommitNothing, CommitExtension, stored, memory
<1> HIDE DEF new, start
<1>3. CASE CommitAfterBlockOne(new, reorg)
  <2>1. DOMAIN ranges' = {} /\ matched' = {}
        BY <1>3 DEF CommitAfterBlockOne, Rollback, Without, ClearMatched
  <2> QED BY <2>1, MirrorCleared DEF RangesBehindCursor
<1>4. CASE CommitReorg(new, reorg)
  <2> DEFINE fork == MaxOf(ForkNumbers(reorg, LastHeaders(tip)))
  <2>1. fork \in Nat
    <3>1. LastHeaders(tip) \in SUBSET Blocks BY LastHeadersType DEF TypeOK, StoredType
    <3>2. ForkNumbers(reorg, LastHeaders(tip)) # {} BY <1>4 DEF CommitReorg
    <3> QED BY <1>1, <3>1, <3>2, ForkNumberType
  <2>2. Rollback({k \in DOMAIN ranges : k > fork}, RollbackTo(fork))
        BY <1>4 DEF CommitReorg
  <2> HIDE DEF fork
  <2> DEFINE to == RollbackTo(fork)
  <2>3. to \in Nat \ {0} /\ \A k \in DOMAIN ranges : k <= fork => k < to
        BY <2>1, RollbackToType
  <2> HIDE DEF to
  <2>4. /\ DOMAIN ranges' = {k \in DOMAIN ranges : ~ (k > fork)} /\ matched' = {}
        /\ minFiltered' = IF minFiltered >= to THEN to - 1 ELSE minFiltered
        BY <2>2 DEF Rollback, Without, ClearMatched, RollbackMinFiltered, to
  <2>5. RangesBehindCursor'
    <3> SUFFICES ASSUME NEW k \in DOMAIN ranges' PROVE 1 <= k /\ k <= minFiltered'
        BY DEF RangesBehindCursor
    <3>1. k \in DOMAIN ranges /\ k \in Nat /\ minFiltered \in Nat BY <2>4 DEF TypeOK, StoredType
    <3>2. 1 <= k /\ k <= minFiltered BY <3>1 DEF MirrorInv, RangesBehindCursor
    <3>3. k < to BY <2>1, <2>3, <2>4, <3>1
    <3> QED BY <2>3, <2>4, <3>1, <3>2, <3>3
  <2> QED BY <2>4, <2>5, MirrorCleared
<1> QED BY <1>2, <1>3, <1>4, MirrorUnchanged

\* Recovery loads the earliest range, so the mirror is that range.
LEMMA TrySendGetBlockFiltersMirror ==
    ASSUME TypeOK, MirrorInv, TrySendGetBlockFilters
    PROVE  MirrorInv'
<1>1. UNCHANGED <<ranges, minFiltered>> BY DEF TrySendGetBlockFilters, stored
<1>2. CASE UNCHANGED matched BY <1>1, <1>2, MirrorUnchanged
<1>3. ASSUME NEW k \in DOMAIN ranges, IsEarliest(ranges, k), matched' = ranges[k].hashes
      PROVE  MirrorInv'
      BY <1>1, <1>3 DEF MirrorInv, RangesBehindCursor, MirrorsEarliest, IsEarliest
<1> QED BY <1>2, <1>3 DEF TrySendGetBlockFilters, LoadRange, memory

\* A new range starts above the older ones and is mirrored only when it is the first.
LEMMA BlockFiltersAcceptedMirror ==
    ASSUME TypeOK, TypeOK', MirrorInv, NEW p, NEW start, NEW n \in 1 .. MaxBatch,
           BlockFiltersAccepted(p, start, n)
    PROVE  MirrorInv'
<1> DEFINE matches == PossibleMatches(Served(p, start, n), start + n)
<1>1. /\ minFiltered \in Nat /\ n \in Nat \ {0}
      /\ start = minFiltered + 1 /\ minFiltered' = start + n - 1
      /\ \A k \in DOMAIN ranges : k \in Nat /\ 1 <= k /\ k <= minFiltered
      BY DEF BlockFiltersAccepted, TypeOK, StoredType, MirrorInv, RangesBehindCursor
<1>2. CASE matches = {}
  <2>1. UNCHANGED <<ranges, matched>> BY <1>2 DEF BlockFiltersAccepted, memory
  <2>2. RangesBehindCursor' BY <1>1, <2>1 DEF RangesBehindCursor
  <2> QED BY <2>1, <2>2 DEF MirrorInv, MirrorsEarliest, IsEarliest
<1>3. CASE matches # {}
  <2>1. /\ DOMAIN ranges' = DOMAIN ranges \cup {start}
        /\ \A k \in DOMAIN ranges : ranges'[k] = ranges[k]
        BY <1>1, <1>3 DEF BlockFiltersAccepted, Override
  <2>2. RangesBehindCursor' BY <1>1, <2>1 DEF RangesBehindCursor
  <2>3. MirrorsEarliest'
    <3>1. CASE matched = {}
          BY <1>3, <3>1 DEF BlockFiltersAccepted, LoadRange, MirrorsEarliest, IsEarliest
    <3>2. CASE matched # {}
      <4>1. matched' = matched BY <3>2 DEF BlockFiltersAccepted, memory
      <4>2. PICK k \in DOMAIN ranges : IsEarliest(ranges, k) /\ matched = ranges[k].hashes
            BY <3>2 DEF MirrorInv, MirrorsEarliest
      <4>3. \A j \in DOMAIN ranges' : k <= j BY <1>1, <2>1, <4>2 DEF IsEarliest
      <4> QED BY <2>1, <4>1, <4>2, <4>3 DEF MirrorsEarliest, IsEarliest
    <3> QED BY <3>1, <3>2
  <2> QED BY <2>2, <2>3 DEF MirrorInv
<1> QED BY <1>2, <1>3

\* Finishing a range removes the earliest one and loads the next.
LEMMA SendBlockMirror ==
    ASSUME TypeOK, MirrorInv, NEW b \in Blocks, SendBlock(b)
    PROVE  MirrorInv'
<1>1. CASE FinishRange(b)
  <2>1. DOMAIN ranges' \subseteq DOMAIN ranges BY <1>1 DEF FinishRange, Without
  <2>2. RangesBehindCursor'
        BY <2>1 DEF SendBlock, MirrorInv, RangesBehindCursor
  <2>3. MirrorsEarliest'
        BY <1>1 DEF FinishRange, LoadRange, ClearMatched, MirrorsEarliest, IsEarliest
  <2> QED BY <2>2, <2>3 DEF MirrorInv
<1>2. CASE ~ FinishRange(b) BY <1>2, MirrorUnchanged DEF SendBlock
<1> QED BY <1>1, <1>2

\* set_scripts drops the ranges and the mirror together.
LEMMA SetScriptsMirror ==
    ASSUME TypeOK, MirrorInv, SetScripts
    PROVE  MirrorInv'
<1>1. matched' = {} BY DEF SetScripts, ClearMatched
<1>2. DOMAIN ranges' = {} \/ UNCHANGED <<ranges, minFiltered>>
      BY DEF SetScripts, SetScriptsAll, SetScriptsPartial, SetScriptsDelete, SetScriptsNothing,
             UpdateFilterScripts, Without
<1>3. RangesBehindCursor' BY <1>2 DEF MirrorInv, RangesBehindCursor
<1> QED BY <1>1, <1>3, MirrorCleared

\* Every step keeps MirrorInv: one case per handler that touches its state.
LEMMA NextMirror == TypeOK /\ TypeOK' /\ MirrorInv /\ [Next]_vars => MirrorInv'
<1> SUFFICES ASSUME TypeOK, TypeOK', MirrorInv, [Next]_vars PROVE MirrorInv' OBVIOUS
<1>1. ASSUME NEW p \in Peers, NEW b \in Heads, GetLastStateProof(p, b) \/ SendLastStateChild(p, b)
      PROVE  MirrorInv'
      BY <1>1, MirrorUnchanged DEF GetLastStateProof, SendLastStateChild, stored, memory
<1>2. ASSUME NEW p \in Peers, SendBlocksProof(p) \/ Disconnected(p)
      PROVE  MirrorInv'
      BY <1>2, MirrorUnchanged DEF SendBlocksProof, Disconnected, stored, memory
<1>3. CASE GetIdleBlocks BY <1>3, MirrorUnchanged DEF GetIdleBlocks, stored, memory
<1>4. CASE LightClientStep
      BY <1>1, <1>2, <1>3, <1>4, SendLastStateProofMirror DEF LightClientStep
<1>5. ASSUME NEW p, NEW start, BlockFilters(p, start) PROVE MirrorInv'
  <2>1. CASE BlockFiltersStale(p, start) \/ BlockFiltersIgnored(p, start) \/ BlockFiltersUnknown(p, start)
        BY <2>1, MirrorUnchanged DEF BlockFiltersStale, BlockFiltersIgnored, BlockFiltersUnknown, memory
  <2> QED BY <1>5, <2>1, BlockFiltersAcceptedMirror DEF BlockFilters
<1>6. CASE FilterStep BY <1>5, <1>6, TrySendGetBlockFiltersMirror DEF FilterStep
<1>7. CASE SyncStep BY <1>7, SendBlockMirror DEF SyncStep
<1>8. CASE SetScripts BY <1>8, SetScriptsMirror
<1>9. CASE Restart
      BY <1>9, MirrorCleared
      DEF Restart, LoseMemory, ClearMatched, stored, MirrorInv, RangesBehindCursor
<1>10. CASE UNCHANGED vars BY <1>10, MirrorUnchanged DEF vars, stored, memory
<1> QED BY <1>4, <1>6, <1>7, <1>8, <1>9, <1>10 DEF Next

\* Every stored range starts at or before the filter cursor, and the matched
\* blocks in memory are those of the earliest stored range: the assertions of
\* SyncProtocol on the last block of a range never fail while the process runs.
THEOREM MirrorCorrect == Spec => [](RangesBehindCursor /\ MirrorsEarliest)
<1>1. Init => MirrorInv BY DEF Init, MirrorInv, RangesBehindCursor, MirrorsEarliest
<1>2. MirrorInv => RangesBehindCursor /\ MirrorsEarliest BY DEF MirrorInv
<1> QED BY <1>1, <1>2, TypeCorrect, NextMirror, PTL DEF Spec

-----------------------------------------------------------------------------
(* No proof is asked of the header it would be rooted in *)

\* The blocks of a new proof request are lighter than the tip they are asked under.
LEMMA ProveOrDownloadTip ==
    ASSUME TypeOK, NeverAsksProofOfTip, NEW m, NEW mp, NEW md, NEW br,
           ProveOrDownload(m, mp, md, br),
           \A b \in m \ mp : TotalDifficulty[b] < TotalDifficulty[tip]
    PROVE  NeverAsksProofOfTip'
<1> DEFINE toProve == (m \ mp) \ UNION {proofReq[p].blocks : p \in Peers}
           idle1   == {p \in BestProvedPeers(tip) : proofReq[p] = NoProofReq}
<1>1. PICK a \in Assignments(toProve, idle1, ProofLimit) :
          proofReq' = [p \in Peers |->
              IF p \in idle1 /\ a[p] # {}
              THEN [last |-> tip, blocks |-> a[p]] ELSE proofReq[p]]
      BY DEF ProveOrDownload
<1>2. tip \notin toProve
  <2>1. TotalDifficulty[tip] \in Nat BY DEF TypeOK, StoredType
  <2> QED BY <2>1
<1> HIDE DEF toProve, idle1
<1>3. a \in [idle1 -> SUBSET toProve] BY DEF Assignments
<1> SUFFICES ASSUME NEW p \in Peers PROVE proofReq'[p].last \notin proofReq'[p].blocks
    BY DEF NeverAsksProofOfTip
<1>4. CASE p \in idle1 /\ a[p] # {} BY <1>1, <1>2, <1>3, <1>4
<1>5. CASE ~ (p \in idle1 /\ a[p] # {})
      BY <1>1, <1>5 DEF NeverAsksProofOfTip
<1> QED BY <1>4, <1>5

\* A step after which peers, ranges and mirror are still below the tip.
LEMMA TipStep ==
    ASSUME TypeOK, TypeOK', UnprovedBelowTip,
           TotalDifficulty[tip] <= TotalDifficulty[tip'],
           \A p \in Peers : \/ proved'[p] \in {NoBlock, proved[p], tip'}
                            \/ \E q \in Peers : proved[q] = proved'[p]
                            \/ /\ proved'[p] \in Blocks
                               /\ TotalDifficulty[proved'[p]] <= TotalDifficulty[tip'],
           DOMAIN ranges' \subseteq DOMAIN ranges,
           \A k \in DOMAIN ranges' : ranges'[k] = ranges[k],
           \/ matched' \ matchedProved' \subseteq matched \ matchedProved
           \/ \E k \in DOMAIN ranges :
                 matched' = ranges[k].hashes /\ matchedProved' = ranges[k].proved
    PROVE  UnprovedBelowTip'
<1>1. tip \in Blocks /\ tip' \in Blocks
      /\ \A p \in Peers : proved[p] \in Blocks \cup {NoBlock}
      BY DEF TypeOK, StoredType, PeersType
<1>2. \A b \in Blocks : TotalDifficulty[b] \in Nat OBVIOUS
<1>3. ASSUME NEW p \in Peers, proved'[p] # NoBlock
      PROVE  TotalDifficulty[proved'[p]] <= TotalDifficulty[tip']
  <2>1. CASE proved'[p] = tip' BY <1>1, <1>2, <2>1
  <2>2. ASSUME NEW q \in Peers, proved[q] = proved'[p]
        PROVE  TotalDifficulty[proved'[p]] <= TotalDifficulty[tip']
    <3>1. TotalDifficulty[proved[q]] <= TotalDifficulty[tip] BY <1>3, <2>2 DEF UnprovedBelowTip
    <3>2. proved[q] \in Blocks BY <1>1, <1>3, <2>2
    <3> QED BY <1>1, <1>2, <2>2, <3>1, <3>2
  <2> QED BY <1>3, <2>1, <2>2
<1>4. ASSUME NEW k \in DOMAIN ranges, NEW b \in ranges[k].hashes \ ranges[k].proved
      PROVE  TotalDifficulty[b] < TotalDifficulty[tip']
  <2>1. b \in Blocks BY DEF TypeOK, StoredType, MatchedRange
  <2>2. TotalDifficulty[b] < TotalDifficulty[tip] BY DEF UnprovedBelowTip
  <2> QED BY <1>1, <1>2, <2>1, <2>2
<1>5. ASSUME NEW b \in matched \ matchedProved
      PROVE  TotalDifficulty[b] < TotalDifficulty[tip']
  <2>1. b \in Blocks BY DEF TypeOK, MemoryType
  <2>2. TotalDifficulty[b] < TotalDifficulty[tip] BY DEF UnprovedBelowTip
  <2> QED BY <1>1, <1>2, <2>1, <2>2
<1>6. \A b \in matched' \ matchedProved' : TotalDifficulty[b] < TotalDifficulty[tip']
      BY <1>4, <1>5
<1>7. \A k \in DOMAIN ranges' : \A b \in ranges'[k].hashes \ ranges'[k].proved :
          TotalDifficulty[b] < TotalDifficulty[tip']
      BY <1>4
<1> QED BY <1>3, <1>6, <1>7 DEF UnprovedBelowTip

TipInv == UnprovedBelowTip /\ NeverAsksProofOfTip

\* TipStep for the handlers that leave the chain and the peers' states alone.
LEMMA TipSameChain ==
    ASSUME TypeOK, TypeOK', UnprovedBelowTip, UNCHANGED <<tip, proved>>,
           DOMAIN ranges' \subseteq DOMAIN ranges,
           \A k \in DOMAIN ranges' : ranges'[k] = ranges[k],
           \/ matched' \ matchedProved' \subseteq matched \ matchedProved
           \/ \E k \in DOMAIN ranges :
                 matched' = ranges[k].hashes /\ matchedProved' = ranges[k].proved
    PROVE  UnprovedBelowTip'
<1>1. TotalDifficulty[tip] <= TotalDifficulty[tip'] BY DEF TypeOK, StoredType
<1> QED BY <1>1, TipStep

\* A last state, as a request or as a child, leaves the stored tip and its blocks alone.
LEMMA SendLastStateTip ==
    ASSUME TypeOK, TypeOK', TipInv, NEW p \in Peers, NEW b \in Heads,
           GetLastStateProof(p, b) \/ SendLastStateChild(p, b)
    PROVE  TipInv'
<1>1. NeverAsksProofOfTip'
      BY DEF TipInv, NeverAsksProofOfTip, GetLastStateProof, SendLastStateChild
<1>2. UNCHANGED <<ranges, matched, matchedProved>>
      BY DEF GetLastStateProof, SendLastStateChild, stored, memory
<1>3. proved \in [Peers -> Blocks \cup {NoBlock}] /\ tip \in Blocks /\ b \in Blocks
      BY DEF TypeOK, PeersType, StoredType
<1>4. CASE GetLastStateProof(p, b)
  <2>1. tip' = tip BY <1>4 DEF GetLastStateProof, stored
  <2>2. \A r \in Peers : \E q \in Peers : proved[q] = proved'[r]
        BY <1>3, <1>4 DEF GetLastStateProof, UpdateProveState
  <2>3. TotalDifficulty[tip] <= TotalDifficulty[tip'] BY <1>3, <2>1
  <2>4. UnprovedBelowTip' BY <1>2, <2>2, <2>3, TipStep DEF TipInv
  <2> QED BY <1>1, <2>4 DEF TipInv
<1>5. CASE SendLastStateChild(p, b)
  <2>1. /\ proved' = [proved EXCEPT ![p] = b]
        /\ tip' = IF TotalDifficulty[b] > TotalDifficulty[tip] THEN b ELSE tip
        BY <1>5 DEF SendLastStateChild, UpdateProveState
  <2>2. /\ TotalDifficulty[tip] <= TotalDifficulty[tip']
        /\ TotalDifficulty[b] <= TotalDifficulty[tip']
        BY <1>3, <2>1
  <2>3. \A r \in Peers : \/ proved'[r] = proved[r]
                          \/ /\ proved'[r] \in Blocks
                             /\ TotalDifficulty[proved'[r]] <= TotalDifficulty[tip']
        BY <1>3, <2>1, <2>2
  <2>4. UnprovedBelowTip' BY <1>2, <2>2, <2>3, TipStep DEF TipInv
  <2> QED BY <1>1, <2>4 DEF TipInv
<1> QED BY <1>4, <1>5

\* A proof raises the tip or leaves it, so what was lighter than it still is.
LEMMA SendLastStateProofTip ==
    ASSUME TypeOK, TypeOK', TipInv, NEW p \in Peers, SendLastStateProof(p)
    PROVE  TipInv'
<1> DEFINE new == proveReq[p].last
<1>1. new \in Blocks /\ tip \in Blocks /\ proved \in [Peers -> Blocks \cup {NoBlock}]
      BY DEF TypeOK, StoredType, PeersType, SendLastStateProof, ProveRequest
<1>2. NeverAsksProofOfTip' BY DEF TipInv, NeverAsksProofOfTip, SendLastStateProof
<1>3. /\ DOMAIN ranges' \subseteq DOMAIN ranges
      /\ \A k \in DOMAIN ranges' : ranges'[k] = ranges[k]
      /\ matched' \ matchedProved' \subseteq matched \ matchedProved
      BY DEF SendLastStateProof, CommitNothing, CommitExtension, CommitAfterBlockOne,
             CommitReorg, Rollback, ClearMatched, Without, stored, memory
<1>4. \/ UNCHANGED <<tip, proved>>
      \/ /\ proved' = [proved EXCEPT ![p] = new]
         /\ \/ tip' = tip /\ TotalDifficulty[new] <= TotalDifficulty[tip]
            \/ tip' = new /\ TotalDifficulty[new] > TotalDifficulty[tip]
      BY DEF SendLastStateProof, CommitNothing, CommitExtension, CommitAfterBlockOne,
             CommitReorg, UpdateProveState, stored
<1> HIDE DEF new
<1>5. TotalDifficulty[tip] <= TotalDifficulty[tip'] BY <1>1, <1>4
<1>6. \A r \in Peers : \/ proved'[r] \in {proved[r], tip'}
                        \/ /\ proved'[r] \in Blocks
                           /\ TotalDifficulty[proved'[r]] <= TotalDifficulty[tip']
      BY <1>1, <1>4
<1>7. UnprovedBelowTip' BY <1>3, <1>5, <1>6, TipStep DEF TipInv
<1> QED BY <1>2, <1>7 DEF TipInv

\* Losing a peer, or the memory, only removes requests and proved states.
LEMMA LossTip ==
    ASSUME TypeOK, TypeOK', TipInv, Restart \/ \E p \in Peers : Disconnected(p)
    PROVE  TipInv'
<1>1. UNCHANGED <<tip, ranges>> BY DEF Restart, Disconnected, stored
<1>2. matched' \ matchedProved' \subseteq matched \ matchedProved
      BY DEF Restart, Disconnected, LoseMemory, ClearMatched, memory
<1>3. \A p \in Peers : proved'[p] \in {NoBlock, proved[p]}
      BY DEF Restart, Disconnected, LoseMemory, TypeOK, PeersType
<1>4. \A p \in Peers : proofReq'[p] \in {NoProofReq, proofReq[p]}
      BY DEF Restart, Disconnected, LoseMemory, TypeOK, PeersType
<1>5. NeverAsksProofOfTip' BY <1>4 DEF TipInv, NeverAsksProofOfTip, NoProofReq
<1>6. TotalDifficulty[tip] <= TotalDifficulty[tip'] BY <1>1 DEF TypeOK, StoredType
<1>7. UnprovedBelowTip' BY <1>1, <1>2, <1>3, <1>6, TipStep DEF TipInv
<1> QED BY <1>5, <1>7 DEF TipInv

\* The range that recovery loads is below the tip already.
LEMMA TrySendGetBlockFiltersTip ==
    ASSUME TypeOK, TypeOK', TipInv, TrySendGetBlockFilters
    PROVE  TipInv'
<1>1. UNCHANGED <<tip, proved, ranges>> BY DEF TrySendGetBlockFilters, stored
<1>2. CASE UNCHANGED <<memory, proofReq>>
      BY <1>1, <1>2, TipSameChain DEF TipInv, NeverAsksProofOfTip, memory
<1>3. ASSUME NEW k \in DOMAIN ranges, LoadRange(ranges[k], blocksReq) PROVE TipInv'
  <2>1. UnprovedBelowTip' BY <1>1, <1>3, TipSameChain DEF LoadRange, TipInv
  <2>2. NeverAsksProofOfTip'
        BY <1>3, ProveOrDownloadTip DEF LoadRange, TipInv, UnprovedBelowTip
  <2> QED BY <2>1, <2>2 DEF TipInv
<1> QED BY <1>2, <1>3 DEF TrySendGetBlockFilters

\* A new unproved block lies below the tip of the peer whose filters matched it.
LEMMA BlockFiltersAcceptedTip ==
    ASSUME TypeOK, TypeOK', TipInv, NEW p \in Peers, NEW start, NEW n,
           BlockFiltersAccepted(p, start, n), UNCHANGED <<tip, proved>>
    PROVE  TipInv'
<1> DEFINE matches == PossibleMatches(Served(p, start, n), start + n)
           range   == [count |-> n, hashes |-> matches, proved |-> matches \cap {proved[p]}]
<1>1. tip \in Blocks /\ proved[p] \in Blocks
      /\ TotalDifficulty[proved[p]] <= TotalDifficulty[tip]
      BY DEF TypeOK, StoredType, PeersType, BlockFiltersAccepted, TipInv, UnprovedBelowTip
<1>2. \A b \in matches \ {proved[p]} : TotalDifficulty[b] < TotalDifficulty[tip]
  <2> TAKE b \in matches \ {proved[p]}
  <2>1. b \in Ancestors[proved[p]] /\ b # proved[p] BY DEF PossibleMatches, Served
  <2>2. b \in Blocks /\ TotalDifficulty[b] < TotalDifficulty[proved[p]]
        BY <1>1, <2>1, AncestorIsLighter
  <2> QED BY <1>1, <2>2
<1> HIDE DEF matches
<1>3. \A k \in DOMAIN ranges' : \/ k \in DOMAIN ranges /\ ranges'[k] = ranges[k]
                                \/ ranges'[k] = range
      BY DEF BlockFiltersAccepted, NewRange, Override, matches
<1>4. \A k \in DOMAIN ranges' : \A b \in ranges'[k].hashes \ ranges'[k].proved :
          TotalDifficulty[b] < TotalDifficulty[tip]
      BY <1>2, <1>3 DEF TipInv, UnprovedBelowTip
<1>5. CASE UNCHANGED <<memory, proofReq>>
      BY <1>4, <1>5 DEF TipInv, UnprovedBelowTip, NeverAsksProofOfTip, memory
<1>6. ASSUME NEW k \in DOMAIN ranges', LoadRange(ranges'[k], blocksReq) PROVE TipInv'
  <2>1. UnprovedBelowTip' BY <1>4, <1>6 DEF LoadRange, TipInv, UnprovedBelowTip
  <2>2. NeverAsksProofOfTip' BY <1>4, <1>6, ProveOrDownloadTip DEF LoadRange, TipInv
  <2> QED BY <2>1, <2>2 DEF TipInv
<1> QED BY <1>5, <1>6 DEF BlockFiltersAccepted

\* BlockFiltersProcess keeps TipInv in each of its outcomes.
LEMMA BlockFiltersTip ==
    ASSUME TypeOK, TypeOK', TipInv, NEW p, NEW start, BlockFilters(p, start)
    PROVE  TipInv'
<1>1. p \in Peers /\ UNCHANGED <<tip, proved>> BY DEF BlockFilters, TypeOK, PeersType
<1>2. CASE BlockFiltersStale(p, start) \/ BlockFiltersIgnored(p, start) \/ BlockFiltersUnknown(p, start)
  <2>1. UNCHANGED <<ranges, matched, matchedProved, proofReq>>
        BY <1>2 DEF BlockFiltersStale, BlockFiltersIgnored, BlockFiltersUnknown, memory
  <2> QED BY <1>1, <2>1, TipSameChain DEF TipInv, NeverAsksProofOfTip
<1> QED BY <1>1, <1>2, BlockFiltersAcceptedTip DEF BlockFilters

\* SendBlocksProof only turns unproved blocks into proved ones.
LEMMA SendBlocksProofTip ==
    ASSUME TypeOK, TypeOK', TipInv, NEW p \in Peers, SendBlocksProof(p)
    PROVE  TipInv'
<1>1. UNCHANGED <<tip, proved, ranges, matched>> BY DEF SendBlocksProof, stored
<1>2. matchedProved \subseteq matchedProved'
      BY DEF SendBlocksProof, BlocksProof, BlocksProofNewState
<1>3. UnprovedBelowTip' BY <1>1, <1>2, TipSameChain DEF TipInv
<1>4. NeverAsksProofOfTip'
      BY DEF SendBlocksProof, TipInv, NeverAsksProofOfTip, NoProofReq, TypeOK, PeersType
<1> QED BY <1>3, <1>4 DEF TipInv

\* Finishing a range loads a range whose unproved blocks are below the tip.
LEMMA SendBlockTip ==
    ASSUME TypeOK, TypeOK', TipInv, NEW b \in Blocks, SendBlock(b)
    PROVE  TipInv'
<1>1. UNCHANGED <<tip, proved>> BY DEF SendBlock
<1>2. CASE FinishRange(b)
  <2>1. /\ DOMAIN ranges' \subseteq DOMAIN ranges
        /\ \A k \in DOMAIN ranges' : ranges'[k] = ranges[k]
        BY <1>2 DEF FinishRange, Without
  <2>2. CASE ClearMatched /\ UNCHANGED proofReq
        BY <1>1, <2>1, <2>2, TipSameChain DEF ClearMatched, TipInv, NeverAsksProofOfTip
  <2>3. ASSUME NEW j \in DOMAIN ranges', LoadRange(ranges'[j], AddBlock(b)) PROVE TipInv'
    <3>1. j \in DOMAIN ranges /\ ranges'[j] = ranges[j] BY <2>1
    <3>2. UnprovedBelowTip' BY <1>1, <2>1, <2>3, <3>1, TipSameChain DEF LoadRange, TipInv
    <3>3. NeverAsksProofOfTip'
          BY <2>3, <3>1, ProveOrDownloadTip DEF LoadRange, TipInv, UnprovedBelowTip
    <3> QED BY <3>2, <3>3 DEF TipInv
  <2> QED BY <1>2, <2>2, <2>3 DEF FinishRange
<1>3. CASE ~ FinishRange(b)
      BY <1>1, <1>3, TipSameChain DEF SendBlock, TipInv, NeverAsksProofOfTip
<1> QED BY <1>2, <1>3

\* set_scripts only removes ranges and matched blocks.
LEMMA SetScriptsTip ==
    ASSUME TypeOK, TypeOK', TipInv, SetScripts
    PROVE  TipInv'
<1>1. UNCHANGED <<tip, proved, proofReq>> /\ matched' = {}
      BY DEF SetScripts, ClearMatched, peerVars
<1>2. DOMAIN ranges' = {} \/ UNCHANGED ranges
      BY DEF SetScripts, SetScriptsAll, SetScriptsPartial, SetScriptsDelete, SetScriptsNothing,
             UpdateFilterScripts, Without
<1>3. UnprovedBelowTip' BY <1>1, <1>2, TipSameChain DEF TipInv
<1> QED BY <1>1, <1>3 DEF TipInv, NeverAsksProofOfTip

\* Every step keeps TipInv: one case per handler.
LEMMA NextTip == TypeOK /\ TypeOK' /\ TipInv /\ [Next]_vars => TipInv'
<1> SUFFICES ASSUME TypeOK, TypeOK', TipInv, [Next]_vars PROVE TipInv' OBVIOUS
<1>1. CASE GetIdleBlocks
  <2>1. UnprovedBelowTip' BY <1>1, TipSameChain DEF GetIdleBlocks, TipInv, stored, memory
  <2>2. NeverAsksProofOfTip'
        BY <1>1, ProveOrDownloadTip DEF GetIdleBlocks, TipInv, UnprovedBelowTip
  <2> QED BY <2>1, <2>2 DEF TipInv
<1>2. CASE LightClientStep
      BY <1>1, <1>2, SendLastStateTip, SendLastStateProofTip, SendBlocksProofTip, LossTip
      DEF LightClientStep
<1>3. CASE FilterStep BY <1>3, TrySendGetBlockFiltersTip, BlockFiltersTip DEF FilterStep
<1>4. CASE SyncStep BY <1>4, SendBlockTip DEF SyncStep
<1>5. CASE SetScripts BY <1>5, SetScriptsTip
<1>6. CASE Restart BY <1>6, LossTip
<1>7. CASE UNCHANGED vars
      BY <1>7, TipSameChain DEF vars, stored, memory, peerVars, TipInv, NeverAsksProofOfTip
<1> QED BY <1>2, <1>3, <1>4, <1>5, <1>6, <1>7 DEF Next

\* The stored tip is heavier than every matched block that waits for its proof,
\* so the requests of prove_or_download_matched_blocks never ask a full node to
\* prove the header that the proof is rooted in, across reorgs and restarts.
THEOREM ProofRequestsAnswerable == Spec => [](UnprovedBelowTip /\ NeverAsksProofOfTip)
<1>1. Init => TipInv
      BY DEF Init, TipInv, UnprovedBelowTip, NeverAsksProofOfTip, NoProofReq
<1>2. TipInv => UnprovedBelowTip /\ NeverAsksProofOfTip BY DEF TipInv
<1> QED BY <1>1, <1>2, TypeCorrect, NextTip, PTL DEF Spec

-----------------------------------------------------------------------------
(* A process that stops in the middle of a handler *)

\* The memory of the next process is typed, whichever handler was interrupted.
LEMMA CrashType ==
    ASSUME TypeOK, NEW point, Crash(point)
    PROVE  /\ MemoryType' /\ PeersType'
           /\ budget' \in [commands : 0 .. MaxCommands, losses : 0 .. MaxLosses]
<1>1. MemoryType' /\ PeersType' BY LoseMemoryType DEF Crash
<1> QED BY <1>1 DEF Crash, TypeOK, GhostType

\* remove_matched_blocks and some of the filter_block calls leave a typed storage.
LEMMA CrashInFinishRangeType == TypeOK /\ CrashInFinishRange => TypeOK'
<1> SUFFICES ASSUME TypeOK, CrashInFinishRange PROVE TypeOK' OBVIOUS
<1>1. PICK k \in DOMAIN ranges, done \in SUBSET matched :
         /\ ranges' = Without(ranges, {k})
         /\ indexed' = FilterBlocks(indexed, scripts, done)
      BY DEF CrashInFinishRange
<1>2. /\ DOMAIN ranges' \subseteq DOMAIN ranges
      /\ ranges' = [j \in DOMAIN ranges' |-> ranges[j]]
      BY <1>1 DEF Without
<1>3. /\ DOMAIN ranges' \subseteq Nat
      /\ ranges' \in [DOMAIN ranges' -> MatchedRange]
      /\ \A j \in DOMAIN ranges' :
            ranges'[j].hashes # {} /\ ranges'[j].proved \subseteq ranges'[j].hashes
      BY <1>2 DEF TypeOK, StoredType
<1>4. indexed' \subseteq Scripts \X Blocks
      BY <1>1 DEF FilterBlocks, TypeOK, StoredType, MemoryType
<1>5. UNCHANGED <<scripts, minFiltered, tip, since>> BY DEF CrashInFinishRange
<1>6. StoredType' BY <1>3, <1>4, <1>5 DEF TypeOK, StoredType
<1>7. Crash("block") BY DEF CrashInFinishRange
<1> QED BY <1>5, <1>6, <1>7, CrashType DEF TypeOK, GhostType

\* A range without its cursor, or the scripts without theirs, are typed.
LEMMA CrashInBlockFiltersType ==
    ASSUME TypeOK, NEW p \in Peers, NEW start \in Nat \ {0}, NEW n \in 1 .. MaxBatch,
           CrashInBlockFilters(p, start, n)
    PROVE  TypeOK'
<1> DEFINE matches == PossibleMatches(Served(p, start, n), start + n)
           range   == [count |-> n, hashes |-> matches, proved |-> matches \cap {proved[p]}]
<1>1. matches \in SUBSET Blocks
  <2>1. proved[p] \in Blocks BY DEF TypeOK, PeersType, CrashInBlockFilters
  <2> QED BY <2>1 DEF PossibleMatches, Served
<1>2. start + n - 1 \in Nat /\ n \in Nat \ {0} OBVIOUS
<1>3. range \in MatchedRange /\ range.proved \subseteq range.hashes
      BY <1>1, <1>2 DEF MatchedRange
<1>4. DOMAIN scripts' = DOMAIN scripts /\ scripts' \in [DOMAIN scripts' -> Nat]
      BY <1>2 DEF TypeOK, StoredType, CrashInBlockFilters, UpdateBlockNumber
<1>5. UNCHANGED <<minFiltered, tip, indexed, since>> BY DEF CrashInBlockFilters
<1>6. /\ DOMAIN ranges' \subseteq Nat
      /\ ranges' \in [DOMAIN ranges' -> MatchedRange]
      /\ \A k \in DOMAIN ranges' :
            ranges'[k].hashes # {} /\ ranges'[k].proved \subseteq ranges'[k].hashes
  <2>1. CASE matches = {}
        BY <2>1 DEF TypeOK, StoredType, CrashInBlockFilters
  <2>2. CASE matches # {}
    <3>1. ranges' = Override(ranges, [k \in {start} |-> range])
          BY <2>2 DEF CrashInBlockFilters, NewRange
    <3>2. range.hashes # {} /\ StoredType BY <2>2 DEF TypeOK
    <3> HIDE DEF range
    <3>3. /\ DOMAIN ranges' = DOMAIN ranges \cup {start}
          /\ ranges' \in [DOMAIN ranges' -> MatchedRange]
          /\ \A k \in DOMAIN ranges' :
                ranges'[k].hashes # {} /\ ranges'[k].proved \subseteq ranges'[k].hashes
          BY <1>3, <3>1, <3>2, AddRangeType
    <3> QED BY <3>2, <3>3 DEF StoredType
  <2> QED BY <2>1, <2>2
<1>7. StoredType' BY <1>4, <1>5, <1>6 DEF TypeOK, StoredType
<1>8. Crash("filters") BY DEF CrashInBlockFilters
<1> QED BY <1>4, <1>5, <1>7, <1>8, CrashType DEF TypeOK, GhostType

\* Every prefix of the writes of update_filter_scripts is typed.
LEMMA CrashInSetScriptsType ==
    ASSUME TypeOK, NEW kept \in SUBSET DOMAIN scripts, NEW given,
           DOMAIN given \subseteq Scripts, given \in [DOMAIN given -> Nat],
           CrashInSetScripts(kept, given)
    PROVE  TypeOK'
<1>1. /\ DOMAIN scripts \subseteq Scripts /\ scripts \in [DOMAIN scripts -> Nat]
      /\ since \in [DOMAIN scripts -> Nat] /\ minFiltered \in Nat
      BY DEF TypeOK, StoredType, GhostType
<1>2. /\ DOMAIN scripts' = kept \cup DOMAIN given
      /\ scripts' \in [DOMAIN scripts' -> Nat]
      /\ since' \in [DOMAIN scripts' -> Nat]
      BY <1>1 DEF CrashInSetScripts, Override, Without
<1>3. minFiltered' \in Nat
  <2>1. MinFilteredByScripts(scripts') \in Nat BY <1>1, <1>2, MinFilteredType
  <2> QED BY <1>1, <2>1 DEF CrashInSetScripts
<1>4. DOMAIN ranges' = {} \/ UNCHANGED ranges BY DEF CrashInSetScripts, Without
<1>5. /\ DOMAIN ranges' \subseteq Nat
      /\ ranges' \in [DOMAIN ranges' -> MatchedRange]
      /\ \A k \in DOMAIN ranges' :
            ranges'[k].hashes # {} /\ ranges'[k].proved \subseteq ranges'[k].hashes
  <2>1. ranges' \in [DOMAIN ranges' -> MatchedRange]
        BY <1>4 DEF CrashInSetScripts, Without, TypeOK, StoredType
  <2> QED BY <1>4, <2>1 DEF TypeOK, StoredType
<1>6. UNCHANGED <<tip, indexed>> BY DEF CrashInSetScripts
<1>7. StoredType' BY <1>1, <1>2, <1>3, <1>5, <1>6 DEF TypeOK, StoredType
<1>8. Crash("scripts") BY DEF CrashInSetScripts
<1> QED BY <1>2, <1>7, <1>8, CrashType DEF TypeOK, GhostType

\* Every prefix of the writes of commit_prove_state on a fork is typed.
LEMMA CrashInCommitReorgType ==
    ASSUME TypeOK, NEW p \in Peers, CrashInCommitReorg(p)
    PROVE  TypeOK'
<1> DEFINE new   == proveReq[p].last
           start == proveReq[p].start
           forks == ForkNumbers(ReorgHeaders(start, new), LastHeaders(tip))
           to    == RollbackTo(MaxOf(forks))
<1>1. new \in Blocks /\ start \in Blocks
      BY DEF TypeOK, PeersType, CrashInCommitReorg, ProveRequest
<1>2. MaxOf(forks) \in Nat
  <2>1. LastHeaders(tip) \in SUBSET Blocks BY LastHeadersType DEF TypeOK, StoredType
  <2>2. forks # {} BY DEF CrashInCommitReorg
  <2> QED BY <1>1, <2>1, <2>2, ForkNumberType
<1>3. /\ DOMAIN ranges' \subseteq DOMAIN ranges
      /\ ranges' = [k \in DOMAIN ranges' |-> ranges[k]]
      BY DEF CrashInCommitReorg, Without
<1>4. /\ \/ UNCHANGED <<scripts, minFiltered, indexed>>
         \/ /\ scripts' = RollbackScripts(to)
            /\ indexed' = RollbackIndex(to)
            /\ minFiltered' = RollbackMinFiltered(to)
      /\ UNCHANGED <<tip, since>>
      /\ Crash("reorg")
      BY DEF CrashInCommitReorg
<1>5. to \in Nat \ {0} BY <1>2, RollbackToType
<1> HIDE DEF to
<1>6. DOMAIN scripts' = DOMAIN scripts /\ scripts' \in [DOMAIN scripts' -> Nat]
      BY <1>4, <1>5 DEF TypeOK, StoredType, RollbackScripts
<1>7. minFiltered' \in Nat BY <1>4, <1>5 DEF TypeOK, StoredType, RollbackMinFiltered
<1>8. indexed' \subseteq Scripts \X Blocks BY <1>4 DEF TypeOK, StoredType, RollbackIndex
<1>9. /\ DOMAIN ranges' \subseteq Nat
      /\ ranges' \in [DOMAIN ranges' -> MatchedRange]
      /\ \A k \in DOMAIN ranges' :
            ranges'[k].hashes # {} /\ ranges'[k].proved \subseteq ranges'[k].hashes
      BY <1>3 DEF TypeOK, StoredType
<1>10. StoredType' BY <1>4, <1>6, <1>7, <1>8, <1>9 DEF TypeOK, StoredType
<1> QED BY <1>4, <1>6, <1>10, CrashType DEF TypeOK, GhostType

\* The steps of CrashStep, one by one, with the types of their parameters.
LEMMA CrashCases ==
    ASSUME TypeOK, CrashStep
    PROVE  \/ CrashInFinishRange
           \/ \E p \in Peers, start \in Nat \ {0}, n \in 1 .. MaxBatch :
                 <<p, start>> \in asked /\ CrashInBlockFilters(p, start, n)
           \/ \E kept \in SUBSET DOMAIN scripts, S \in SUBSET Scripts :
                 \E given \in [S -> Nat] : CrashInSetScripts(kept, given)
           \/ \E p \in Peers : CrashInCommitReorg(p)
<1>1. ASSUME NEW a \in asked, NEW n \in 1 .. MaxBatch, CrashInBlockFilters(a[1], a[2], n)
      PROVE  \E p \in Peers, start \in Nat \ {0} :
                <<p, start>> \in asked /\ CrashInBlockFilters(p, start, n)
  <2>1. a[1] \in Peers /\ a[2] \in Nat \ {0} /\ a = <<a[1], a[2]>> BY DEF TypeOK, PeersType
  <2> QED BY <1>1, <2>1, Zenon
<1>2. ASSUME NEW S \in SUBSET Scripts, NEW given \in [S -> StartNumbers],
             CrashInSetScripts({}, given) \/ CrashInSetScripts(DOMAIN scripts, given)
      PROVE  \E kept \in SUBSET DOMAIN scripts, T \in SUBSET Scripts :
                 \E g \in [T -> Nat] : CrashInSetScripts(kept, g)
  <2>1. given \in [S -> Nat] OBVIOUS
  <2>2. {} \in SUBSET DOMAIN scripts /\ DOMAIN scripts \in SUBSET DOMAIN scripts OBVIOUS
  <2> QED BY <1>2, <2>1, <2>2, Zenon
<1>3. ASSUME NEW S \in (SUBSET Scripts) \ {{}},
             CrashInSetScripts(DOMAIN scripts \ S, [s \in {} |-> 0])
      PROVE  \E kept \in SUBSET DOMAIN scripts, T \in SUBSET Scripts :
                 \E g \in [T -> Nat] : CrashInSetScripts(kept, g)
  <2>1. [s \in {} |-> 0] \in [{} -> Nat] OBVIOUS
  <2>2. DOMAIN scripts \ S \in SUBSET DOMAIN scripts /\ {} \in SUBSET Scripts OBVIOUS
  <2> QED BY <1>3, <2>1, <2>2, Zenon
<1> QED BY <1>1, <1>2, <1>3 DEF CrashStep

\* Every step keeps the types, the interrupted ones too.
LEMMA CrashNextType == TypeOK /\ [CrashNext]_vars => TypeOK'
<1> SUFFICES ASSUME TypeOK, [CrashNext]_vars PROVE TypeOK' OBVIOUS
<1>1. CASE [Next]_vars BY <1>1, NextType
<1>2. CASE CrashStep
  <2>1. ASSUME NEW kept \in SUBSET DOMAIN scripts, NEW S \in SUBSET Scripts, NEW given \in [S -> Nat],
               CrashInSetScripts(kept, given)
        PROVE  TypeOK'
    <3>1. DOMAIN given \subseteq Scripts /\ given \in [DOMAIN given -> Nat] OBVIOUS
    <3> QED BY <2>1, <3>1, CrashInSetScriptsType
  <2> QED BY <1>2, <2>1, CrashCases, CrashInFinishRangeType, CrashInBlockFiltersType,
             CrashInCommitReorgType
<1> QED BY <1>1, <1>2 DEF CrashNext

\* The storage stays well typed when the process is stopped between any two of
\* the writes of a handler.
THEOREM CrashTypeCorrect == CrashSpec => []TypeOK
BY InitType, CrashNextType, PTL DEF CrashSpec

\* A crash forgets peers, requests and mirror; a range it leaves behind names
\* unproved blocks below the last header of a peer, hence below the tip.
LEMMA CrashStepTip == TypeOK /\ TypeOK' /\ TipInv /\ CrashStep => TipInv'
<1> SUFFICES ASSUME TypeOK, TypeOK', TipInv, CrashStep PROVE TipInv' OBVIOUS
<1>1. PICK point : Crash(point)
      BY DEF CrashStep, CrashInFinishRange, CrashInBlockFilters, CrashInSetScripts,
             CrashInCommitReorg
<1>2. /\ matched' = {} /\ \A p \in Peers : proved'[p] = NoBlock
      /\ \A p \in Peers : proofReq'[p] = NoProofReq
      BY <1>1 DEF Crash, LoseMemory, ClearMatched
<1>3. tip' = tip
      BY DEF CrashStep, CrashInFinishRange, CrashInBlockFilters, CrashInSetScripts,
             CrashInCommitReorg
<1>4. NeverAsksProofOfTip' BY <1>2 DEF NeverAsksProofOfTip, NoProofReq
<1>5. \A k \in DOMAIN ranges' : \A b \in ranges'[k].hashes \ ranges'[k].proved :
          TotalDifficulty[b] < TotalDifficulty[tip]
  <2>1. CASE \A k \in DOMAIN ranges' : k \in DOMAIN ranges /\ ranges'[k] = ranges[k]
        BY <2>1 DEF TipInv, UnprovedBelowTip
  <2>2. ASSUME NEW p \in Peers, NEW start, NEW n, CrashInBlockFilters(p, start, n)
        PROVE  \A k \in DOMAIN ranges' : \A b \in ranges'[k].hashes \ ranges'[k].proved :
                  TotalDifficulty[b] < TotalDifficulty[tip]
    <3> DEFINE matches == PossibleMatches(Served(p, start, n), start + n)
               range   == [count |-> n, hashes |-> matches, proved |-> matches \cap {proved[p]}]
    <3>1. tip \in Blocks /\ proved[p] \in Blocks
          /\ TotalDifficulty[proved[p]] <= TotalDifficulty[tip]
          BY <2>2 DEF TypeOK, StoredType, PeersType, CrashInBlockFilters, TipInv, UnprovedBelowTip
    <3>2. \A b \in matches \ {proved[p]} : TotalDifficulty[b] < TotalDifficulty[tip]
      <4> TAKE b \in matches \ {proved[p]}
      <4>1. b \in Ancestors[proved[p]] /\ b # proved[p] BY DEF PossibleMatches, Served
      <4>2. b \in Blocks /\ TotalDifficulty[b] < TotalDifficulty[proved[p]]
            BY <3>1, <4>1, AncestorIsLighter
      <4> QED BY <3>1, <4>2
    <3> HIDE DEF matches
    <3>3. \A k \in DOMAIN ranges' : \/ k \in DOMAIN ranges /\ ranges'[k] = ranges[k]
                                    \/ ranges'[k] = range
          BY <2>2 DEF CrashInBlockFilters, NewRange, Override, matches
    <3> QED BY <3>2, <3>3 DEF TipInv, UnprovedBelowTip
  <2>3. CASE \/ CrashInFinishRange
             \/ \E p \in Peers : CrashInCommitReorg(p)
             \/ \E kept, given : CrashInSetScripts(kept, given)
    <3>1. CASE CrashInFinishRange BY <2>1, <3>1 DEF CrashInFinishRange, Without
    <3>2. ASSUME NEW p \in Peers, CrashInCommitReorg(p)
          PROVE  \A k \in DOMAIN ranges' : k \in DOMAIN ranges /\ ranges'[k] = ranges[k]
      <4>1. \E gone : ranges' = Without(ranges, gone) BY <3>2, Zenon DEF CrashInCommitReorg
      <4> QED BY <4>1 DEF Without
    <3>3. ASSUME NEW kept, NEW given, CrashInSetScripts(kept, given)
          PROVE  \A k \in DOMAIN ranges' : k \in DOMAIN ranges /\ ranges'[k] = ranges[k]
          BY <3>3 DEF CrashInSetScripts, Without
    <3> QED BY <2>1, <2>3, <3>1, <3>2, <3>3
  <2> QED BY <2>2, <2>3, CrashCases
<1> QED BY <1>2, <1>3, <1>4, <1>5 DEF TipInv, UnprovedBelowTip

\* The requests of prove_or_download_matched_blocks never ask a full node to prove
\* the header that the proof is rooted in, after a stop in the middle of a
\* handler too.
THEOREM ProofRequestsSurviveCrash == CrashSpec => [](UnprovedBelowTip /\ NeverAsksProofOfTip)
<1>1. Init => TipInv
      BY DEF Init, TipInv, UnprovedBelowTip, NeverAsksProofOfTip, NoProofReq
<1>2. TypeOK /\ TypeOK' /\ TipInv /\ [CrashNext]_vars => TipInv'
      BY NextTip, CrashStepTip DEF CrashNext
<1>3. TipInv => UnprovedBelowTip /\ NeverAsksProofOfTip BY DEF TipInv
<1> QED BY <1>1, <1>2, <1>3, CrashTypeCorrect, PTL DEF CrashSpec

-----------------------------------------------------------------------------
(* No block is lost and no number is too high, as long as the chain only grows *)

\* What the two results below assume of the tree: the full nodes follow one chain,
\* and none of them announces block 1 (the tip after which commit_prove_state
\* rolls back to block 1 without a fork).
SingleChain ==
    /\ \A a, b \in Heads : a \in Ancestors[b] \/ b \in Ancestors[a]
    /\ \A h \in Heads : Number[h] # 1

\* The blocks of that chain.
MainChain == {Genesis} \cup UNION {Ancestors[h] : h \in Heads}

\* On it, the block with the lower number is an ancestor of the other.
LEMMA MainChainOrder ==
    ASSUME SingleChain, NEW x \in MainChain, NEW y \in MainChain, Number[x] <= Number[y]
    PROVE  /\ x \in Blocks /\ y \in Blocks
           /\ x \in Ancestors[y] /\ Ancestors[y] \subseteq MainChain
           /\ Number[x] = Number[y] => x = y
<1>1. MainChain \subseteq Blocks
  <2>1. \A h \in Heads : Ancestors[h] \subseteq Blocks OBVIOUS
  <2> QED BY <2>1 DEF MainChain
<1>2. ASSUME NEW h \in Heads, x \in Ancestors[h], y \in Ancestors[h]
      PROVE  /\ x \in Ancestors[y] /\ Ancestors[y] \subseteq MainChain
             /\ Number[x] = Number[y] => x = y
  <2>1. h \in Blocks OBVIOUS
  <2>2. x \in Ancestors[y] /\ (Number[x] = Number[y] => x = y) BY <1>2, <2>1, ChainOrder
  <2>3. Ancestors[y] \subseteq Ancestors[h] BY <1>2, <2>1, AncestorsNest
  <2> QED BY <2>2, <2>3 DEF MainChain
<1>3. \A h \in Heads : Genesis \in Ancestors[h] /\ h \in Blocks OBVIOUS
<1>4. CASE \E h \in Heads : x \in Ancestors[h] /\ y \in Ancestors[h] BY <1>1, <1>2, <1>4
<1>5. CASE x = Genesis /\ y = Genesis
  <2>1. Ancestors[Genesis] \subseteq {Genesis}
    <3> SUFFICES ASSUME NEW a \in Ancestors[Genesis], a # Genesis PROVE FALSE OBVIOUS
    <3>1. a \in Blocks /\ Number[a] < Number[Genesis] BY TreeAssumption
    <3>2. Number[Genesis] = 0 /\ Number[a] \in Nat BY <3>1
    <3> QED BY <3>1, <3>2
  <2> QED BY <1>1, <1>5, <2>1 DEF MainChain
<1>6. CASE ~ \E h \in Heads : x \in Ancestors[h] /\ y \in Ancestors[h]
  <2>1. ~ (\E g, h \in Heads : x \in Ancestors[g] /\ y \in Ancestors[h])
    <3> SUFFICES ASSUME NEW g \in Heads, NEW h \in Heads, x \in Ancestors[g], y \in Ancestors[h]
                 PROVE  FALSE
        OBVIOUS
    <3>1. g \in Blocks /\ h \in Blocks OBVIOUS
    <3>2. CASE g \in Ancestors[h] BY <1>6, <3>1, <3>2, AncestorsNest
    <3>3. CASE h \in Ancestors[g]
      <4>1. Ancestors[h] \subseteq Ancestors[g] BY <3>1, <3>3, AncestorsNest
      <4> QED BY <1>6, <4>1
    <3> QED BY <3>2, <3>3 DEF SingleChain
  <2>2. x = Genesis /\ y = Genesis BY <1>3, <1>6, <2>1 DEF MainChain
  <2> QED BY <1>5, <2>2
<1> QED BY <1>4, <1>6

\* The client follows that chain: its tip and the peers' states are heads, and
\* every proof request starts on the chain of its last header, so that the answer
\* has no reorg headers.
FollowsChain ==
    /\ tip \in Heads \cup {Genesis}
    /\ \A p \in Peers : proved[p] \in Heads \cup {NoBlock}
    /\ \A p \in Peers : proveReq[p] # NoProveReq =>
          /\ proveReq[p].last \in Heads
          /\ proveReq[p].start \in Ancestors[proveReq[p].last]

\* A request for a heavier head starts on its chain.
LEMMA GetLastStateProofFollows ==
    ASSUME SingleChain, TypeOK, FollowsChain, NEW p \in Peers, NEW b \in Heads,
           GetLastStateProof(p, b)
    PROVE  FollowsChain'
<1> DEFINE start == IF proved[p] = NoBlock THEN tip ELSE proved[p]
           from  == StartOfRequest(start, b, LastHeaders(tip))
<1>1. tip' = tip BY DEF GetLastStateProof, stored
<1>2. proved \in [Peers -> Blocks \cup {NoBlock}] /\ proveReq \in [Peers -> ProveRequest]
      BY DEF TypeOK, PeersType
<1>3. CASE UpdateProveState(p, b)
      BY <1>1, <1>2, <1>3 DEF FollowsChain, UpdateProveState
<1>4. CASE /\ Number[start] < Number[b]
           /\ proveReq' = [proveReq EXCEPT ![p] = [last |-> b, start |-> from, longFork |-> FALSE]]
           /\ UNCHANGED proved
  <2>1. \A h \in Heads : h \in MainChain /\ Ancestors[h] \subseteq MainChain BY DEF MainChain
  <2>2. start \in MainChain /\ b \in MainChain /\ LastHeaders(tip) \subseteq MainChain
    <3>1. Ancestors[Genesis] \subseteq MainChain
      <4>1. Genesis \in MainChain /\ Number[Genesis] <= Number[Genesis] BY DEF MainChain
      <4> QED BY <4>1, MainChainOrder
    <3>2. start \in Heads \cup {Genesis} /\ tip \in Heads \cup {Genesis} BY DEF FollowsChain
    <3>3. LastHeaders(tip) \subseteq Ancestors[tip] BY DEF LastHeaders
    <3> QED BY <2>1, <3>1, <3>2, <3>3 DEF MainChain
  <2>3. start \in Blocks /\ b \in Blocks /\ MainChain \subseteq Blocks
    <3>1. start \in Blocks /\ b \in Blocks BY DEF TypeOK, StoredType, PeersType
    <3>2. \A h \in Heads : Ancestors[h] \subseteq Blocks OBVIOUS
    <3> QED BY <3>1, <3>2 DEF MainChain
  <2>4. from \in MainChain /\ Number[from] <= Number[b]
    <3> DEFINE older == {h \in LastHeaders(tip) :
                           Number[h] < Number[start] /\ Number[b] <= Number[h] + LastN}
    <3>1. ASSUME older # {}
          PROVE  \E h \in older : \A g \in older : Number[h] <= Number[g]
      <4> DEFINE numbers == {Number[h] : h \in older}
      <4>1. numbers \in SUBSET Nat /\ numbers # {} BY <2>2, <2>3, <3>1
      <4>2. PICK n \in numbers : \A m \in numbers : n <= m BY <4>1, NatMin
      <4> QED BY <4>2
    <3>2. from = start \/ from \in older
      <4>1. CASE older = {} BY <4>1 DEF StartOfRequest
      <4>2. CASE older # {} BY <3>1, <4>2 DEF StartOfRequest
      <4> QED BY <4>1, <4>2
    <3> HIDE DEF from, start
    <3>3. CASE from = start BY <1>4, <2>2, <2>3, <3>3
    <3>4. CASE from \in older
      <4>1. from \in Blocks /\ from \in MainChain /\ Number[from] < Number[start] BY <2>2, <2>3, <3>4
      <4> QED BY <1>4, <2>3, <4>1
    <3> QED BY <3>2, <3>3, <3>4
  <2> HIDE DEF from, start
  <2>5. from \in Ancestors[b] BY <2>2, <2>4, MainChainOrder
  <2>6. proveReq'[p].last = b /\ proveReq'[p].start = from BY <1>2, <1>4
  <2>7. \A q \in Peers \ {p} : proveReq'[q] = proveReq[q] BY <1>2, <1>4
  <2> QED BY <1>1, <1>4, <2>5, <2>6, <2>7 DEF FollowsChain
<1> QED BY <1>3, <1>4 DEF GetLastStateProof

\* Every proof of a growing chain commits an extension, or nothing.
LEMMA SendLastStateProofFollows ==
    ASSUME SingleChain, TypeOK, FollowsChain, NEW p \in Peers, SendLastStateProof(p)
    PROVE  FollowsChain' /\ UNCHANGED <<scripts, minFiltered, ranges, indexed, memory>>
<1> DEFINE new   == proveReq[p].last
           reorg == ReorgHeaders(proveReq[p].start, new)
<1>1. new \in Heads /\ reorg = {} /\ proveReq[p] # NoProveReq
  <2>1. proveReq[p] # NoProveReq BY DEF SendLastStateProof
  <2> QED BY <2>1 DEF FollowsChain, ReorgHeaders
<1>2. Number[tip] # 1
  <2>1. Number[Genesis] = 0 OBVIOUS
  <2> QED BY <2>1 DEF FollowsChain, SingleChain
<1>3. ForkNumbers(reorg, LastHeaders(tip)) = {} BY <1>1 DEF ForkNumbers
<1> HIDE DEF new, reorg
<1>4. (CommitNothing(new) \/ CommitExtension(new, reorg)) /\ UpdateProveState(p, new)
      BY <1>1, <1>2, <1>3 DEF SendLastStateProof, CommitAfterBlockOne, CommitReorg, new, reorg
<1>5. UNCHANGED <<scripts, minFiltered, ranges, indexed, memory>> /\ tip' \in {tip, new}
      BY <1>4 DEF CommitNothing, CommitExtension, stored
<1>6. proved \in [Peers -> Blocks \cup {NoBlock}] /\ proveReq \in [Peers -> ProveRequest]
      BY DEF TypeOK, PeersType
<1> QED BY <1>1, <1>4, <1>5, <1>6 DEF FollowsChain, UpdateProveState

\* Script s asks for block b of the chain, whether the stored tip has reached it
\* or not.
Asks(s, b) ==
    /\ b \in MainChain /\ s \in Touches[b]
    /\ Number[b] > since[s] \/ (b = Genesis /\ since[s] = 0)

\* A stored range starts at most one block after the cursor (where a crash may
\* leave it), has no block before its start, and among the blocks it stands for it
\* has every one that is asked for and not in the index.
RangesHold ==
    \A k \in DOMAIN ranges :
        /\ k <= minFiltered + 1
        /\ \A b \in ranges[k].hashes : k <= Number[b]
        /\ \A s \in DOMAIN scripts : \A b \in MainChain :
              Asks(s, b) /\ k <= Number[b] /\ Number[b] < k + ranges[k].count
                  => <<s, b>> \in indexed \/ b \in ranges[k].hashes

\* ProgressIsTrue and NothingLost for the whole chain.
NumbersTrue ==
    \A s \in DOMAIN scripts : \A b \in MainChain :
        Asks(s, b) /\ Number[b] <= scripts[s] => <<s, b>> \in indexed
NoneSkipped ==
    \A s \in DOMAIN scripts : \A b \in MainChain :
        Asks(s, b) => \/ <<s, b>> \in indexed
                      \/ \E k \in DOMAIN ranges : b \in ranges[k].hashes
                      \/ Number[b] > minFiltered

\* Filters are only asked for when the earliest range, if any, is in memory: a batch
\* that finds the mirror empty finds no range either, and may raise the numbers.
AskedMirrored == asked # {} /\ matched = {} => DOMAIN ranges = {}

ScanInv == RangesHold /\ NumbersTrue /\ NoneSkipped

\* The facts about types that the arithmetic below needs.
LEMMA ScanTypes ==
    ASSUME TypeOK
    PROVE  /\ MainChain \subseteq Blocks
           /\ \A b \in MainChain : Number[b] \in Nat
           /\ scripts \in [DOMAIN scripts -> Nat] /\ since \in [DOMAIN scripts -> Nat]
           /\ minFiltered \in Nat
           /\ \A k \in DOMAIN ranges : k \in Nat /\ ranges[k].count \in Nat \ {0}
                                       /\ ranges[k].hashes # {} /\ ranges[k].hashes \subseteq Blocks
<1>1. \A h \in Heads : Ancestors[h] \subseteq Blocks OBVIOUS
<1>2. MainChain \subseteq Blocks BY <1>1 DEF MainChain
<1>3. \A b \in MainChain : Number[b] \in Nat BY <1>2
<1> QED BY <1>2, <1>3 DEF TypeOK, StoredType, GhostType, MatchedRange

\* A handler that leaves the storage alone keeps ScanInv.
LEMMA ScanUnchanged ==
    ASSUME ScanInv, UNCHANGED <<scripts, minFiltered, ranges, indexed, since>>
    PROVE  ScanInv'
BY DEF ScanInv, RangesHold, NumbersTrue, NoneSkipped, Asks

\* update_block_number keeps ScanInv when every block up to the number that some
\* script asks for is in the index.
LEMMA RaiseNumbers ==
    ASSUME TypeOK, ScanInv, NEW n \in Nat,
           UNCHANGED <<minFiltered, ranges, indexed, since>>,
           \/ scripts' = scripts
           \/ /\ scripts' = UpdateBlockNumber(scripts, n)
              /\ \A s \in DOMAIN scripts : \A b \in MainChain :
                    Asks(s, b) /\ Number[b] <= n => <<s, b>> \in indexed
    PROVE  ScanInv'
<1>1. CASE scripts' = scripts BY <1>1, ScanUnchanged
<1>2. CASE /\ scripts' = UpdateBlockNumber(scripts, n)
           /\ \A s \in DOMAIN scripts : \A b \in MainChain :
                 Asks(s, b) /\ Number[b] <= n => <<s, b>> \in indexed
  <2>1. /\ DOMAIN scripts' = DOMAIN scripts
        /\ \A s \in DOMAIN scripts : scripts'[s] \in {n, scripts[s]}
        BY <1>2 DEF UpdateBlockNumber
  <2>2. \A s, b : Asks(s, b)' <=> Asks(s, b) BY DEF Asks
  <2>3. RangesHold' BY <2>1, <2>2 DEF ScanInv, RangesHold
  <2>4. NoneSkipped' BY <2>1, <2>2 DEF ScanInv, NoneSkipped
  <2>5. NumbersTrue' BY <1>2, <2>1, <2>2 DEF ScanInv, NumbersTrue
  <2> QED BY <2>3, <2>4, <2>5 DEF ScanInv
<1> QED BY <1>1, <1>2

\* Without a stored range, every block up to the cursor that is asked for is in
\* the index.
LEMMA NothingPending ==
    ASSUME TypeOK, ScanInv, DOMAIN ranges = {}, NEW s \in DOMAIN scripts, NEW b \in MainChain,
           Asks(s, b), Number[b] <= minFiltered
    PROVE  <<s, b>> \in indexed
<1>1. Number[b] \in Nat /\ minFiltered \in Nat BY ScanTypes
<1> QED BY <1>1 DEF ScanInv, NoneSkipped

\* What a batch of n filters finds: every block it covers that a script asks for is
\* among the matches, or is in the index already.
LEMMA BatchFindsAll ==
    ASSUME SingleChain, TypeOK, FollowsChain, ScanInv,
           NEW p \in Peers, NEW start \in Nat, NEW n \in Nat \ {0}, proved[p] # NoBlock,
           Cardinality(Served(p, start, n)) = n,
           NEW s \in DOMAIN scripts, NEW b \in MainChain,
           Asks(s, b), start <= Number[b], Number[b] < start + n
    PROVE  \/ <<s, b>> \in indexed
           \/ b \in PossibleMatches(Served(p, start, n), start + n)
<1> DEFINE h == proved[p]
<1>1. h \in Heads /\ h \in Blocks /\ h \in MainChain
  <2>1. h \in Heads /\ h \in Blocks BY DEF FollowsChain
  <2> QED BY <2>1 DEF MainChain
<1>2. b \in Blocks /\ Number[b] \in Nat /\ Number[h] \in Nat /\ scripts[s] \in Nat
      BY <1>1, ScanTypes
<1>3. start + n <= Number[h] + 1 BY <1>1, FullInterval DEF Served
<1>4. b \in Served(p, start, n)
  <2>1. Number[b] <= Number[h] BY <1>2, <1>3
  <2>2. b \in Ancestors[h] BY <1>1, <2>1, MainChainOrder
  <2> QED BY <2>2 DEF Served
<1>5. CASE scripts[s] < start + n
  <2>1. s \in FilterMatches[b] BY <1>2 DEF Asks
  <2> QED BY <1>4, <1>5, <2>1 DEF PossibleMatches
<1>6. CASE ~ (scripts[s] < start + n)
  <2>1. Number[b] <= scripts[s] BY <1>2, <1>6
  <2> QED BY <2>1 DEF ScanInv, NumbersTrue
<1> QED BY <1>5, <1>6

\* A range that is stored after the cursor keeps ScanInv, with the cursor moved to its
\* end or not yet, in the place of an older range with the same start or not.
LEMMA NewRangeScan ==
    ASSUME SingleChain, TypeOK, FollowsChain, ScanInv,
           NEW p \in Peers, NEW start \in Nat, NEW n \in Nat \ {0}, proved[p] # NoBlock,
           start = minFiltered + 1, Cardinality(Served(p, start, n)) = n,
           ranges' = Override(ranges, [k \in {start} |->
                        NewRange(p, n, PossibleMatches(Served(p, start, n), start + n))]),
           minFiltered' \in {minFiltered, start + n - 1},
           UNCHANGED <<scripts, indexed, since>>
    PROVE  ScanInv'
<1> DEFINE matches == PossibleMatches(Served(p, start, n), start + n)
<1>1. ASSUME NEW s \in DOMAIN scripts, NEW b \in MainChain,
             Asks(s, b), start <= Number[b], Number[b] < start + n
      PROVE  <<s, b>> \in indexed \/ b \in matches
      BY <1>1, BatchFindsAll
<1>2. \A b \in matches : start <= Number[b] BY DEF PossibleMatches, Served
<1> HIDE DEF matches
<1>3. /\ DOMAIN ranges' = DOMAIN ranges \cup {start}
      /\ \A k \in DOMAIN ranges \ {start} : ranges'[k] = ranges[k]
      /\ ranges'[start].count = n /\ ranges'[start].hashes = matches
      BY DEF Override, NewRange, matches
<1>4. \A s, b : Asks(s, b)' <=> Asks(s, b) BY DEF Asks
<1>5. \A b \in MainChain : Number[b] \in Nat BY ScanTypes
<1>6. /\ minFiltered \in Nat /\ minFiltered' \in Nat /\ minFiltered <= minFiltered'
      /\ minFiltered' < start + n /\ start <= minFiltered' + 1
      BY ScanTypes
<1>7. RangesHold'
  <2> SUFFICES ASSUME NEW k \in DOMAIN ranges'
               PROVE  /\ k <= minFiltered' + 1
                      /\ \A b \in ranges'[k].hashes : k <= Number[b]
                      /\ \A s \in DOMAIN scripts : \A b \in MainChain :
                            Asks(s, b) /\ k <= Number[b] /\ Number[b] < k + ranges'[k].count
                                => <<s, b>> \in indexed \/ b \in ranges'[k].hashes
      BY <1>4 DEF RangesHold
  <2>1. CASE k = start
    <3>3. k <= minFiltered' + 1 BY <1>6, <2>1
    <3>2. ranges'[k].count = n /\ ranges'[k].hashes = matches BY <1>3, <2>1
    <3> QED BY <1>1, <1>2, <2>1, <3>2, <3>3
  <2>2. CASE k # start
    <3>1. k \in DOMAIN ranges /\ ranges'[k] = ranges[k] /\ k \in Nat BY <1>3, <2>2, ScanTypes
    <3>2. k <= minFiltered + 1 BY <3>1 DEF ScanInv, RangesHold
    <3>3. k <= minFiltered' + 1 BY <1>6, <3>1, <3>2
    <3> QED BY <3>1, <3>3 DEF ScanInv, RangesHold
  <2> QED BY <2>1, <2>2
<1>8. NoneSkipped'
  <2> SUFFICES ASSUME NEW s \in DOMAIN scripts, NEW b \in MainChain, Asks(s, b),
                      <<s, b>> \notin indexed, ~ (Number[b] > minFiltered')
               PROVE  \E k \in DOMAIN ranges' : b \in ranges'[k].hashes
      BY <1>4 DEF NoneSkipped
  <2>1. CASE start <= Number[b]
    <3>1. Number[b] < start + n BY <1>5, <1>6
    <3>2. b \in ranges'[start].hashes BY <1>1, <1>3, <2>1, <3>1
    <3> QED BY <1>3, <3>2
  <2>2. CASE ~ (start <= Number[b])
    <3>1. ~ (Number[b] > minFiltered) BY <1>5, <1>6, <2>2
    <3>2. PICK k \in DOMAIN ranges : b \in ranges[k].hashes BY <3>1 DEF ScanInv, NoneSkipped
    <3>3. k # start BY <2>2, <3>2 DEF ScanInv, RangesHold
    <3> QED BY <1>3, <3>2, <3>3
  <2> QED BY <2>1, <2>2
<1>9. NumbersTrue' BY <1>4 DEF ScanInv, NumbersTrue
<1> QED BY <1>7, <1>8, <1>9 DEF ScanInv

\* A batch without a match keeps ScanInv: the numbers move to its end only when
\* no range is stored, the cursor moves there or not yet.
LEMMA NoMatchScan ==
    ASSUME SingleChain, TypeOK, FollowsChain, ScanInv,
           NEW p \in Peers, NEW start \in Nat, NEW n \in Nat \ {0}, proved[p] # NoBlock,
           start = minFiltered + 1, Cardinality(Served(p, start, n)) = n,
           PossibleMatches(Served(p, start, n), start + n) = {},
           \/ scripts' = scripts
           \/ scripts' = UpdateBlockNumber(scripts, start + n - 1) /\ DOMAIN ranges = {},
           minFiltered' \in {minFiltered, start + n - 1},
           UNCHANGED <<ranges, indexed, since>>
    PROVE  ScanInv'
<1> DEFINE last == start + n - 1
<1>1. ASSUME NEW s \in DOMAIN scripts, NEW b \in MainChain,
             Asks(s, b), start <= Number[b], Number[b] < start + n
      PROVE  <<s, b>> \in indexed
      BY <1>1, BatchFindsAll
<1>2. \A b \in MainChain : Number[b] \in Nat BY ScanTypes
<1>3. /\ last \in Nat /\ minFiltered \in Nat /\ minFiltered' \in Nat
      /\ minFiltered <= minFiltered' /\ minFiltered' <= last
      BY ScanTypes, SMTT(20)
<1>4. \A s, b : Asks(s, b)' <=> Asks(s, b) BY DEF Asks
<1>5. DOMAIN scripts' = DOMAIN scripts BY DEF UpdateBlockNumber
<1>6. RangesHold'
  <2>1. \A k \in DOMAIN ranges : k \in Nat /\ k <= minFiltered + 1
        BY ScanTypes DEF ScanInv, RangesHold
  <2>2. \A k \in DOMAIN ranges : k <= minFiltered' + 1 BY <1>3, <2>1
  <2> QED BY <1>4, <1>5, <2>2 DEF ScanInv, RangesHold
<1>7. NoneSkipped'
  <2> SUFFICES ASSUME NEW s \in DOMAIN scripts, NEW b \in MainChain, Asks(s, b),
                      <<s, b>> \notin indexed, ~ (Number[b] > minFiltered')
               PROVE  \E k \in DOMAIN ranges : b \in ranges[k].hashes
      BY <1>4, <1>5 DEF NoneSkipped
  <2>1. ~ (start <= Number[b] /\ Number[b] < start + n) BY <1>1
  <2>2. ~ (Number[b] > minFiltered) BY <1>2, <1>3, <2>1
  <2> QED BY <2>2 DEF ScanInv, NoneSkipped
<1>8. NumbersTrue'
  <2> SUFFICES ASSUME NEW s \in DOMAIN scripts, NEW b \in MainChain, Asks(s, b),
                      Number[b] <= scripts'[s]
               PROVE  <<s, b>> \in indexed
      BY <1>4, <1>5 DEF NumbersTrue
  <2>1. CASE Number[b] <= scripts[s] BY <2>1 DEF ScanInv, NumbersTrue
  <2>2. CASE ~ (Number[b] <= scripts[s])
    <3>1. scripts'[s] = last /\ DOMAIN ranges = {} BY <2>2 DEF UpdateBlockNumber
    <3>2. CASE Number[b] <= minFiltered BY <3>1, <3>2, NothingPending
    <3>3. CASE ~ (Number[b] <= minFiltered)
      <4>1. start <= Number[b] /\ Number[b] < start + n BY <1>2, <1>3, <3>1, <3>3
      <4> QED BY <1>1, <4>1
    <3> QED BY <3>2, <3>3
  <2> QED BY <2>1, <2>2
<1> QED BY <1>6, <1>7, <1>8 DEF ScanInv

\* BlockFiltersProcess keeps ScanInv in each of its outcomes.
LEMMA BlockFiltersScan ==
    ASSUME SingleChain, TypeOK, FollowsChain, ScanInv, AskedMirrored,
           NEW p, NEW start, BlockFilters(p, start)
    PROVE  ScanInv'
<1>1. p \in Peers /\ start \in Nat \ {0} /\ minFiltered \in Nat /\ since' = since
      BY DEF BlockFilters, TypeOK, StoredType, PeersType, ghosts
<1>2. matched = {} => DOMAIN ranges = {} BY DEF BlockFilters, AskedMirrored
<1>3. CASE BlockFiltersIgnored(p, start)
      BY <1>1, <1>3, ScanUnchanged DEF BlockFiltersIgnored
<1>4. CASE BlockFiltersStale(p, start) \/ BlockFiltersUnknown(p, start)
  <2>1. /\ UNCHANGED <<minFiltered, ranges, indexed>>
        /\ \/ scripts' = scripts
           \/ scripts' = UpdateBlockNumber(scripts, minFiltered) /\ DOMAIN ranges = {}
        BY <1>2, <1>4 DEF BlockFiltersStale, BlockFiltersUnknown
  <2>2. CASE scripts' = scripts BY <1>1, <2>1, <2>2, ScanUnchanged
  <2>3. CASE scripts' = UpdateBlockNumber(scripts, minFiltered) /\ DOMAIN ranges = {}
        BY <1>1, <2>1, <2>3, NothingPending, RaiseNumbers
  <2> QED BY <2>1, <2>2, <2>3
<1>5. ASSUME NEW n \in 1 .. MaxBatch, BlockFiltersAccepted(p, start, n) PROVE ScanInv'
  <2> DEFINE matches == PossibleMatches(Served(p, start, n), start + n)
  <2>1. n \in Nat \ {0} OBVIOUS
  <2>2. /\ proved[p] # NoBlock /\ start = minFiltered + 1
        /\ Cardinality(Served(p, start, n)) = n
        /\ minFiltered' = start + n - 1 /\ indexed' = indexed
        BY <1>5 DEF BlockFiltersAccepted
  <2>3. CASE matches # {}
    <3>1. /\ ranges' = Override(ranges, [k \in {start} |-> NewRange(p, n, matches)])
          /\ scripts' = scripts
          BY <1>5, <2>3 DEF BlockFiltersAccepted
    <3> QED BY <1>1, <2>1, <2>2, <3>1, NewRangeScan
  <2>4. CASE matches = {}
    <3>1. /\ ranges' = ranges
          /\ \/ scripts' = scripts
             \/ scripts' = UpdateBlockNumber(scripts, start + n - 1) /\ DOMAIN ranges = {}
          BY <1>2, <1>5, <2>4 DEF BlockFiltersAccepted
    <3> QED BY <1>1, <2>1, <2>2, <2>4, <3>1, NoMatchScan
  <2> QED BY <2>3, <2>4
<1> QED BY <1>3, <1>4, <1>5 DEF BlockFilters

\* A stop between its two writes keeps ScanInv too.
LEMMA CrashInBlockFiltersScan ==
    ASSUME SingleChain, TypeOK, FollowsChain, ScanInv, AskedMirrored,
           NEW p \in Peers, NEW start \in Nat \ {0}, NEW n \in 1 .. MaxBatch,
           <<p, start>> \in asked, CrashInBlockFilters(p, start, n)
    PROVE  ScanInv'
<1> DEFINE matches == PossibleMatches(Served(p, start, n), start + n)
<1>1. n \in Nat \ {0} /\ start \in Nat OBVIOUS
<1>2. /\ proved[p] # NoBlock /\ start = minFiltered + 1
      /\ Cardinality(Served(p, start, n)) = n
      /\ UNCHANGED <<minFiltered, indexed, since>>
      BY DEF CrashInBlockFilters
<1>3. CASE matches # {}
  <2>1. /\ ranges' = Override(ranges, [k \in {start} |-> NewRange(p, n, matches)])
        /\ scripts' = scripts
        BY <1>3 DEF CrashInBlockFilters
  <2> QED BY <1>1, <1>2, <2>1, NewRangeScan
<1>4. CASE matches = {}
  <2>1. ranges' = ranges /\ scripts' = UpdateBlockNumber(scripts, start + n - 1)
        /\ matched = {}
        BY <1>4 DEF CrashInBlockFilters
  <2>2. DOMAIN ranges = {} BY <2>1 DEF AskedMirrored
  <2> QED BY <1>1, <1>2, <1>4, <2>1, <2>2, NoMatchScan
<1> QED BY <1>3, <1>4

\* Finishing the earliest range keeps ScanInv: its blocks are in the index now, and
\* no block before it was pending anywhere else.
LEMMA SendBlockScan ==
    ASSUME TypeOK, ScanInv, NEW c \in Blocks, SendBlock(c)
    PROVE  ScanInv'
<1>1. CASE ~ FinishRange(c)
      BY <1>1, ScanUnchanged DEF SendBlock, ghosts
<1>2. CASE FinishRange(c)
  <2>1. PICK k \in DOMAIN ranges :
           /\ IsEarliest(ranges, k) /\ matched = ranges[k].hashes
           /\ ranges' = Without(ranges, {k})
           /\ indexed' = FilterBlocks(indexed, scripts, matched)
           /\ scripts' = UpdateBlockNumber(scripts, k + ranges[k].count - 1)
        BY <1>2 DEF FinishRange
  <2> DEFINE end == k + ranges[k].count
  <2>2. UNCHANGED <<minFiltered, since>> BY DEF SendBlock, ghosts
  <2>3. \A s, b : Asks(s, b)' <=> Asks(s, b) BY <2>2 DEF Asks
  <2>4. /\ DOMAIN ranges' = DOMAIN ranges \ {k}
        /\ \A j \in DOMAIN ranges' : ranges'[j] = ranges[j]
        BY <2>1 DEF Without
  <2>5. /\ DOMAIN scripts' = DOMAIN scripts
        /\ \A s \in DOMAIN scripts : scripts'[s] \in {scripts[s], end - 1}
    <3>1. k \in Nat /\ ranges[k].count \in Nat BY ScanTypes
    <3>2. k + ranges[k].count - 1 = end - 1 BY ONLY <3>1
    <3> QED BY <2>1, <3>2 DEF UpdateBlockNumber
  <2>6. /\ indexed \subseteq indexed'
        /\ \A s \in DOMAIN scripts : \A b \in MainChain :
              Asks(s, b) /\ b \in ranges[k].hashes => <<s, b>> \in indexed'
        BY <2>1 DEF FilterBlocks, Asks
  <2>7. /\ \A b \in MainChain : Number[b] \in Nat
        /\ minFiltered \in Nat /\ k \in Nat /\ end \in Nat \ {0}
        /\ \A j \in DOMAIN ranges : j \in Nat
    <3>1. k \in Nat /\ ranges[k].count \in Nat \ {0} BY ScanTypes
    <3>2. end \in Nat \ {0} BY ONLY <3>1
    <3> QED BY <3>1, <3>2, ScanTypes
  <2> HIDE DEF end
  <2>8. RangesHold' BY <2>2, <2>3, <2>4, <2>5, <2>6 DEF ScanInv, RangesHold
  <2>9. NoneSkipped'
    <3> SUFFICES ASSUME NEW s \in DOMAIN scripts, NEW b \in MainChain, Asks(s, b),
                        <<s, b>> \notin indexed', ~ (Number[b] > minFiltered)
                 PROVE  \E j \in DOMAIN ranges' : b \in ranges'[j].hashes
        BY <2>2, <2>3, <2>5 DEF NoneSkipped
    <3>1. PICK j \in DOMAIN ranges : b \in ranges[j].hashes
          BY <2>6 DEF ScanInv, NoneSkipped
    <3>2. j # k BY <2>6, <3>1
    <3> QED BY <2>4, <3>1, <3>2
  <2>10. NumbersTrue'
    <3> SUFFICES ASSUME NEW s \in DOMAIN scripts, NEW b \in MainChain, Asks(s, b),
                        Number[b] <= scripts'[s], <<s, b>> \notin indexed'
                 PROVE  FALSE
        BY <2>3, <2>5 DEF NumbersTrue
    <3>1. <<s, b>> \notin indexed /\ b \notin ranges[k].hashes BY <2>6
    <3>2. ~ (Number[b] <= scripts[s]) BY <3>1 DEF ScanInv, NumbersTrue
    <3>3. Number[b] <= end - 1 BY <2>5, <3>2
    <3>4. Number[b] < end BY <2>7, <3>3
    <3>5. ~ (k <= Number[b])
          BY <3>1, <3>4 DEF ScanInv, RangesHold, end
    <3>6. k <= minFiltered + 1 BY DEF ScanInv, RangesHold
    <3>7. ~ (Number[b] > minFiltered) BY <2>7, <3>5, <3>6
    <3>8. PICK j \in DOMAIN ranges : b \in ranges[j].hashes
          BY <3>1, <3>7 DEF ScanInv, NoneSkipped
    <3>9. j <= Number[b] BY <3>8 DEF ScanInv, RangesHold
    <3>10. k <= j BY <2>1, <3>8 DEF IsEarliest
    <3> QED BY <2>7, <3>5, <3>9, <3>10
  <2> QED BY <2>8, <2>9, <2>10 DEF ScanInv
<1> QED BY <1>1, <1>2

\* The cursor that set_scripts computes is behind every script.
LEMMA MinFilteredIsLeast ==
    ASSUME NEW sc, sc \in [DOMAIN sc -> Nat], NEW s \in DOMAIN sc
    PROVE  MinFilteredByScripts(sc) \in Nat /\ MinFilteredByScripts(sc) <= sc[s]
<1> DEFINE numbers == {sc[r] : r \in DOMAIN sc}
<1>1. numbers \in SUBSET Nat /\ numbers # {} OBVIOUS
<1>2. \E n \in numbers : \A m \in numbers : n <= m BY <1>1, NatMin
<1>3. \E n \in numbers : \A r \in DOMAIN sc : n <= sc[r] BY <1>2, SMTT(20)
<1> QED BY <1>1, <1>3 DEF MinFilteredByScripts

\* set_scripts drops the ranges and takes the cursor back to the least number, so that
\* a kept script stays true and a new one starts at its number; the genesis block,
\* which no filter covers, is indexed at once for a script that starts at 0.
LEMMA UpdateFilterScriptsScan ==
    ASSUME TypeOK, ScanInv, NEW sc, NEW given, sc \in [DOMAIN sc -> Nat],
           UpdateFilterScripts(sc, given),
           \A s \in DOMAIN sc :
              \/ s \in DOMAIN given /\ sc[s] = given[s] /\ since'[s] = given[s]
              \/ s \in DOMAIN scripts /\ sc[s] = scripts[s] /\ since'[s] = since[s]
    PROVE  ScanInv'
<1>1. /\ scripts' = sc /\ DOMAIN ranges' = {} /\ minFiltered' = MinFilteredByScripts(sc)
      /\ indexed \subseteq indexed'
      BY DEF UpdateFilterScripts, Without, FilterBlocks
<1>2. /\ MainChain \subseteq Blocks /\ \A b \in MainChain : Number[b] \in Nat
      /\ scripts \in [DOMAIN scripts -> Nat] /\ since \in [DOMAIN scripts -> Nat]
      BY ScanTypes
<1>3. NumbersTrue'
  <2> SUFFICES ASSUME NEW s \in DOMAIN sc, NEW b \in MainChain, Asks(s, b)',
                      Number[b] <= sc[s]
               PROVE  <<s, b>> \in indexed'
      BY <1>1 DEF NumbersTrue
  <2>1. CASE s \in DOMAIN given /\ sc[s] = given[s] /\ since'[s] = given[s]
    <3>1. Number[b] \in Nat /\ sc[s] \in Nat BY <1>2
    <3>2. b = Genesis /\ given[s] = 0 /\ s \in Touches[b] BY <2>1, <3>1 DEF Asks
    <3>3. indexed' = FilterBlocks(indexed, sc, {Genesis}) BY <2>1, <3>2 DEF UpdateFilterScripts
    <3> QED BY <3>2, <3>3 DEF FilterBlocks
  <2>2. CASE s \in DOMAIN scripts /\ sc[s] = scripts[s] /\ since'[s] = since[s]
    <3>1. Asks(s, b) BY <2>2 DEF Asks
    <3> QED BY <1>1, <2>2, <3>1 DEF ScanInv, NumbersTrue
  <2> QED BY <2>1, <2>2
<1>4. NoneSkipped'
  <2> SUFFICES ASSUME NEW s \in DOMAIN sc, NEW b \in MainChain, Asks(s, b)',
                      ~ (Number[b] > minFiltered')
               PROVE  <<s, b>> \in indexed'
      BY <1>1 DEF NoneSkipped
  <2>1. minFiltered' \in Nat /\ minFiltered' <= sc[s] BY <1>1, MinFilteredIsLeast
  <2>2. Number[b] <= sc[s] BY <1>2, <2>1
  <2> QED BY <1>1, <1>3, <2>2 DEF NumbersTrue
<1>5. RangesHold' BY <1>1 DEF RangesHold
<1> QED BY <1>3, <1>4, <1>5 DEF ScanInv

\* set_scripts keeps ScanInv, for each of its commands.
LEMMA SetScriptsScan ==
    ASSUME ~ EmptyCommands, TypeOK, ScanInv, SetScripts
    PROVE  ScanInv' /\ DOMAIN ranges' = {}
<1>1. scripts \in [DOMAIN scripts -> Nat] /\ since \in [DOMAIN scripts -> Nat] BY ScanTypes
<1>2. DOMAIN ranges' = {}
      BY DEF SetScripts, SetScriptsAll, SetScriptsPartial, SetScriptsDelete, SetScriptsNothing,
             UpdateFilterScripts, Without
<1>3. ASSUME NEW S \in SUBSET Scripts, NEW given \in [S -> StartNumbers],
             SetScriptsAll(given) \/ SetScriptsPartial(given)
      PROVE  ScanInv'
  <2>1. given \in [DOMAIN given -> Nat] /\ DOMAIN given = S OBVIOUS
  <2>2. CASE SetScriptsAll(given)
        BY <2>1, <2>2, UpdateFilterScriptsScan DEF SetScriptsAll
  <2>3. CASE SetScriptsPartial(given)
    <3> DEFINE sc == Override(scripts, given)
    <3>1. sc \in [DOMAIN sc -> Nat] BY <1>1, <2>1 DEF Override
    <3>2. \A s \in DOMAIN sc :
             \/ s \in DOMAIN given /\ sc[s] = given[s] /\ since'[s] = given[s]
             \/ s \in DOMAIN scripts /\ sc[s] = scripts[s] /\ since'[s] = since[s]
          BY <1>1, <2>1, <2>3 DEF SetScriptsPartial, Override
    <3>3. UpdateFilterScripts(sc, given) BY <2>3 DEF SetScriptsPartial
    <3> HIDE DEF sc
    <3> QED BY <3>1, <3>2, <3>3, UpdateFilterScriptsScan
  <2> QED BY <1>3, <2>2, <2>3
<1>4. ASSUME NEW S \in SUBSET Scripts, SetScriptsDelete(S) PROVE ScanInv'
  <2> DEFINE sc == Without(scripts, S)
  <2>1. sc \in [DOMAIN sc -> Nat] BY <1>1 DEF Without
  <2>2. \A s \in DOMAIN sc : s \in DOMAIN scripts /\ sc[s] = scripts[s] /\ since'[s] = since[s]
        BY <1>1, <1>4 DEF SetScriptsDelete, Without
  <2>3. UpdateFilterScripts(sc, Without(scripts, DOMAIN scripts))
        BY <1>4 DEF SetScriptsDelete
  <2> HIDE DEF sc
  <2> QED BY <2>1, <2>2, <2>3, UpdateFilterScriptsScan
<1> QED BY <1>2, <1>3, <1>4 DEF SetScripts, SetScriptsNothing

\* Every handler keeps AskedMirrored: filters are asked for after the earliest range
\* was loaded, and the mirror is emptied only together with the ranges, or with the
\* requests.
LEMMA NextAskedMirrored ==
    ASSUME SingleChain, ~ EmptyCommands, TypeOK, TypeOK', FollowsChain, AskedMirrored,
           [Next]_vars
    PROVE  AskedMirrored'
<1>1. \A k \in DOMAIN ranges' : ranges'[k].hashes # {} BY DEF TypeOK, StoredType
<1>2. CASE UNCHANGED <<matched, ranges>> /\ asked' \subseteq asked
      BY <1>2 DEF AskedMirrored
<1>3. CASE DOMAIN ranges' = {} \/ matched' # {} \/ asked' = {} BY <1>3 DEF AskedMirrored
<1>4. ASSUME NEW p \in Peers, NEW b \in Heads, GetLastStateProof(p, b) \/ SendLastStateChild(p, b)
      PROVE  AskedMirrored'
      BY <1>2, <1>4 DEF GetLastStateProof, SendLastStateChild, stored, memory
<1>5. ASSUME NEW p \in Peers, SendLastStateProof(p) PROVE AskedMirrored'
  <2>1. UNCHANGED <<ranges, memory>> BY <1>5, SendLastStateProofFollows
  <2> QED BY <1>2, <1>5, <2>1 DEF SendLastStateProof, memory
<1>6. ASSUME NEW p \in Peers, SendBlocksProof(p) \/ Disconnected(p) PROVE AskedMirrored'
      BY <1>2, <1>6 DEF SendBlocksProof, Disconnected, stored, memory
<1>7. CASE GetIdleBlocks BY <1>2, <1>7 DEF GetIdleBlocks, stored, memory
<1>8. CASE TrySendGetBlockFilters
  <2>1. ranges' = ranges BY <1>8 DEF TrySendGetBlockFilters, stored
  <2>2. DOMAIN ranges = {} \/ \E k \in DOMAIN ranges : matched' = ranges[k].hashes
        BY <1>8 DEF TrySendGetBlockFilters, LoadRange
  <2> QED BY <1>1, <1>3, <2>1, <2>2
<1>9. ASSUME NEW p, NEW start, BlockFilters(p, start) PROVE AskedMirrored'
  <2>1. CASE BlockFiltersStale(p, start) \/ BlockFiltersIgnored(p, start) \/ BlockFiltersUnknown(p, start)
        BY <1>2, <2>1 DEF BlockFiltersStale, BlockFiltersIgnored, BlockFiltersUnknown, memory
  <2>2. ASSUME NEW n \in 1 .. MaxBatch, BlockFiltersAccepted(p, start, n) PROVE AskedMirrored'
    <3>1. \/ UNCHANGED <<matched, ranges>>
          \/ matched' = matched /\ matched # {}
          \/ \E k \in DOMAIN ranges' : matched' = ranges'[k].hashes
          BY <2>2 DEF BlockFiltersAccepted, LoadRange, memory
    <3>2. CASE UNCHANGED <<matched, ranges>>
          BY <1>9, <3>2 DEF BlockFilters, AskedMirrored
    <3> QED BY <1>1, <1>3, <3>1, <3>2
  <2> QED BY <1>9, <2>1, <2>2 DEF BlockFilters
<1>10. ASSUME NEW b \in Blocks, SendBlock(b) PROVE AskedMirrored'
  <2>1. CASE FinishRange(b)
    <3>1. DOMAIN ranges' = {} \/ \E k \in DOMAIN ranges' : matched' = ranges'[k].hashes
          BY <2>1 DEF FinishRange, LoadRange
    <3> QED BY <1>1, <1>3, <3>1
  <2>2. CASE ~ FinishRange(b) BY <1>2, <1>10, <2>2 DEF SendBlock
  <2> QED BY <2>1, <2>2
<1>11. CASE SetScripts
  <2>1. DOMAIN ranges' = {}
        BY <1>11 DEF SetScripts, SetScriptsAll, SetScriptsPartial, SetScriptsDelete,
           SetScriptsNothing, UpdateFilterScripts, Without
  <2> QED BY <1>3, <2>1
<1>12. CASE Restart BY <1>3, <1>12 DEF Restart, LoseMemory
<1>13. CASE UNCHANGED vars BY <1>2, <1>13 DEF vars, stored, memory, peerVars
<1> QED BY <1>4, <1>5, <1>6, <1>7, <1>8, <1>9, <1>10, <1>11, <1>12, <1>13
        DEF Next, LightClientStep, FilterStep, SyncStep

\* Every handler keeps FollowsChain.
LEMMA NextFollows ==
    ASSUME SingleChain, TypeOK, FollowsChain, [Next]_vars
    PROVE  FollowsChain'
<1>1. proved \in [Peers -> Blocks \cup {NoBlock}] /\ proveReq \in [Peers -> ProveRequest]
      BY DEF TypeOK, PeersType
<1>2. CASE UNCHANGED <<tip, proved, proveReq>> BY <1>2 DEF FollowsChain
<1>3. ASSUME NEW p \in Peers, NEW b \in Heads, SendLastStateChild(p, b) PROVE FollowsChain'
      BY <1>1, <1>3 DEF SendLastStateChild, UpdateProveState, FollowsChain
<1>4. CASE Restart \/ \E p \in Peers : Disconnected(p)
  <2>1. /\ tip' = tip
        /\ \A q \in Peers : proved'[q] \in {NoBlock, proved[q]}
        /\ \A q \in Peers : proveReq'[q] \in {NoProveReq, proveReq[q]}
        BY <1>1, <1>4 DEF Restart, LoseMemory, Disconnected, stored
  <2> QED BY <2>1 DEF FollowsChain
<1>5. CASE LightClientStep
  <2>1. ASSUME NEW p \in Peers, SendBlocksProof(p) PROVE FollowsChain'
        BY <1>2, <2>1 DEF SendBlocksProof, stored
  <2>2. CASE GetIdleBlocks BY <1>2, <2>2 DEF GetIdleBlocks, stored
  <2> QED BY <1>3, <1>4, <1>5, <2>1, <2>2, GetLastStateProofFollows, SendLastStateProofFollows
          DEF LightClientStep
<1>6. CASE FilterStep
      BY <1>2, <1>6 DEF FilterStep, TrySendGetBlockFilters, BlockFilters, stored
<1>7. CASE SyncStep \/ SetScripts \/ UNCHANGED vars
      BY <1>2, <1>7 DEF SyncStep, SendBlock, SetScripts, vars, stored, peerVars
<1> QED BY <1>4, <1>5, <1>6, <1>7 DEF Next

\* Every handler keeps ScanInv.
LEMMA NextScan ==
    ASSUME SingleChain, ~ EmptyCommands, TypeOK, FollowsChain, ScanInv, AskedMirrored,
           [Next]_vars
    PROVE  ScanInv'
<1>1. CASE UNCHANGED <<scripts, minFiltered, ranges, indexed, since>> BY <1>1, ScanUnchanged
<1>2. CASE LightClientStep
  <2>1. ASSUME NEW p \in Peers, SendLastStateProof(p) PROVE ScanInv'
    <3>1. UNCHANGED <<scripts, minFiltered, ranges, indexed>> BY <2>1, SendLastStateProofFollows
    <3> QED BY <1>1, <2>1, <3>1 DEF SendLastStateProof, ghosts
  <2>2. ASSUME NEW p \in Peers, SendBlocksProof(p) \/ Disconnected(p) PROVE ScanInv'
        BY <1>1, <2>2 DEF SendBlocksProof, Disconnected, stored, ghosts
  <2>3. ASSUME NEW p \in Peers, NEW b \in Heads, GetLastStateProof(p, b) \/ SendLastStateChild(p, b)
        PROVE  ScanInv'
        BY <1>1, <2>3 DEF GetLastStateProof, SendLastStateChild, stored, ghosts
  <2>4. CASE GetIdleBlocks BY <1>1, <2>4 DEF GetIdleBlocks, stored, ghosts
  <2> QED BY <1>2, <2>1, <2>2, <2>3, <2>4 DEF LightClientStep
<1>3. CASE TrySendGetBlockFilters
      BY <1>1, <1>3 DEF TrySendGetBlockFilters, stored, ghosts
<1>4. CASE FilterStep BY <1>3, <1>4, BlockFiltersScan DEF FilterStep
<1>5. CASE SyncStep BY <1>5, SendBlockScan DEF SyncStep
<1>6. CASE SetScripts BY <1>6, SetScriptsScan
<1>7. CASE Restart \/ UNCHANGED vars
      BY <1>1, <1>7 DEF Restart, vars, stored, ghosts
<1> QED BY <1>2, <1>4, <1>5, <1>6, <1>7 DEF Next

\* A stop in BlockFiltersProcess keeps all three; on a growing chain there is no
\* reorg to be stopped in.
LEMMA CrashStepScan ==
    ASSUME SingleChain, CrashPoints \cap {"block", "scripts"} = {},
           TypeOK, FollowsChain, ScanInv, AskedMirrored, CrashStep
    PROVE  FollowsChain' /\ ScanInv' /\ AskedMirrored'
<1>1. PICK p \in Peers, start \in Nat \ {0}, n \in 1 .. MaxBatch :
         <<p, start>> \in asked /\ CrashInBlockFilters(p, start, n)
  <2>1. ~ CrashInFinishRange BY DEF CrashInFinishRange, Crash
  <2>2. \A kept, given : ~ CrashInSetScripts(kept, given) BY DEF CrashInSetScripts, Crash
  <2>3. \A q \in Peers : ~ CrashInCommitReorg(q)
    <3> SUFFICES ASSUME NEW q \in Peers, CrashInCommitReorg(q) PROVE FALSE OBVIOUS
    <3>1. proveReq[q] # NoProveReq BY DEF CrashInCommitReorg
    <3>2. ReorgHeaders(proveReq[q].start, proveReq[q].last) = {}
          BY <3>1 DEF FollowsChain, ReorgHeaders
    <3>3. ForkNumbers(ReorgHeaders(proveReq[q].start, proveReq[q].last), LastHeaders(tip)) = {}
          BY <3>2 DEF ForkNumbers
    <3> QED BY <3>3 DEF CrashInCommitReorg
  <2> QED BY <2>1, <2>2, <2>3, CrashCases
<1>2. ScanInv' BY <1>1, CrashInBlockFiltersScan
<1>3. /\ tip' = tip /\ asked' = {}
      /\ \A q \in Peers : proved'[q] = NoBlock /\ proveReq'[q] = NoProveReq
      BY <1>1 DEF CrashInBlockFilters, Crash, LoseMemory
<1> QED BY <1>2, <1>3 DEF FollowsChain, AskedMirrored

\* The inductive invariant of the two results.
ProgressInv == FollowsChain /\ ScanInv /\ AskedMirrored

\* It holds in an empty database.
LEMMA InitProgress == Init => ProgressInv
BY DEF Init, ProgressInv, FollowsChain, ScanInv, RangesHold, NumbersTrue, NoneSkipped,
       AskedMirrored

\* What the invariant says of the whole chain, it says of the part up to the tip.
LEMMA ProgressSuffices ==
    ASSUME SingleChain, TypeOK, ProgressInv
    PROVE  NothingLost /\ ProgressIsTrue
<1>1. Ancestors[tip] \subseteq MainChain
  <2>1. Genesis \in MainChain /\ Number[Genesis] <= Number[Genesis] BY DEF MainChain
  <2>2. Ancestors[Genesis] \subseteq MainChain BY <2>1, MainChainOrder
  <2> QED BY <2>2 DEF ProgressInv, FollowsChain, MainChain
<1>2. \A s : \A b \in Wanted(s) : b \in MainChain /\ Asks(s, b) BY <1>1 DEF Wanted, Asks
<1> QED BY <1>2 DEF ProgressInv, ScanInv, NumbersTrue, NoneSkipped, NothingLost, ProgressIsTrue

\* On a chain that only grows, no wanted block is lost between the filters, the stored
\* ranges, the mirror, the proofs and the downloads, and the number that get_scripts
\* reports for a script is true, whatever set_scripts calls, restarts, lost peers and
\* stale or repeated answers come in between.
THEOREM ProgressCorrect ==
    ASSUME SingleChain, ~ EmptyCommands
    PROVE  Spec => [](NothingLost /\ ProgressIsTrue)
<1>1. TypeOK /\ TypeOK' /\ ProgressInv /\ [Next]_vars => ProgressInv'
      BY NextAskedMirrored, NextFollows, NextScan DEF ProgressInv
<1>2. TypeOK /\ ProgressInv => NothingLost /\ ProgressIsTrue BY ProgressSuffices
<1> QED BY <1>1, <1>2, InitProgress, TypeCorrect, PTL DEF Spec

\* The same when the process may also stop between the two writes of
\* BlockFiltersProcess: the range that was stored without its cursor is filtered again.
THEOREM ProgressSurvivesCrash ==
    ASSUME SingleChain, ~ EmptyCommands, CrashPoints \cap {"block", "scripts"} = {}
    PROVE  CrashSpec => [](NothingLost /\ ProgressIsTrue)
<1>1. TypeOK /\ TypeOK' /\ ProgressInv /\ [CrashNext]_vars => ProgressInv'
      BY NextAskedMirrored, NextFollows, NextScan, CrashStepScan DEF ProgressInv, CrashNext
<1>2. TypeOK /\ ProgressInv => NothingLost /\ ProgressIsTrue BY ProgressSuffices
<1> QED BY <1>1, <1>2, InitProgress, CrashTypeCorrect, PTL DEF CrashSpec
=============================================================================
