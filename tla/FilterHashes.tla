---------------------------- MODULE FilterHashes ----------------------------
(***************************************************************************)
(* The block filter hashes against which block filters are checked.  Up to *)
(* the last finalized check point one interval of them is cached for all    *)
(* peers; after it every proved peer has its own list and the peers vote.  *)
(* The filter cursor is moved by filters, by reorgs and by set_scripts, the *)
(* check points by the light client's timer, and both leave hashes behind   *)
(* that belong to another interval or another chain.                       *)
(*                                                                         *)
(* The hash of a filter covers all filters before it: it is written as the  *)
(* block.  A full node answers from the chain it followed when it was asked *)
(* or later; messages of one peer stay in order.  The check points of a     *)
(* proved peer are at hand at once (see CheckPoints), no block matches (see *)
(* FilterSync).                                                            *)
(***************************************************************************)
EXTENDS Chain, Sequences

CONSTANTS
    Peers,         \* peer indexes
    NoBlock,       \* "no prove state"
    Heads,         \* peer -> the blocks whose chain it follows, one after the other
    Required,      \* required_peers_count
    Interval,      \* CHECK_POINT_INTERVAL
    MaxHashes,     \* hashes in one BlockFilterHashes message
    MaxFilters,    \* filters in one BlockFilters message
    StartNumbers,  \* where set_scripts may put the cursor
    MaxCommands,   \* bound: calls of set_scripts
    MaxQueue       \* bound: unanswered requests to one peer

AllHeads == UNION {Heads[p] : p \in Peers}

ASSUME FilterHashesAssumption ==
    /\ NoBlock \notin Blocks
    /\ IsFiniteSet(Peers) /\ Heads \in [Peers -> (SUBSET Blocks) \ {{}}]
    /\ \E h \in AllHeads : \A b \in AllHeads : Number[b] <= Number[h]
    /\ Required \in Nat \ {0} /\ Interval \in Nat \ {0}
    /\ MaxHashes \in Nat \ {0} /\ MaxFilters \in Nat \ {0}
    /\ StartNumbers \subseteq Nat /\ MaxCommands \in Nat /\ MaxQueue \in Nat \ {0}

\* Full nodes share the blocks that are an interval below one of their heads, which
\* are those that can be finalized.
ASSUME ForksAreShort ==
    \A a, b \in AllHeads : \A c \in Ancestors[a] :
        Number[c] + Interval <= Number[a] => Number[b] < Number[c] \/ c \in Ancestors[b]

VARIABLES
    \* RocksDB
    minFiltered,  \* MIN_FILTERED_BLOCK_NUMBER
    finalized,    \* MAX_CHECK_POINT_INDEX
    tip,          \* LAST_STATE
    \* Peers
    cachedIndex,  \* cached_block_filter_hashes.0
    cached,       \* cached_block_filter_hashes.1
    proved,       \* peer -> last header of its prove state
    reorged,      \* the peers whose prove state has reorg_last_headers
    first,        \* peer -> index of its first check point, where `latest` starts too
    latest,       \* peer -> latest_block_filter_hashes
    \* the network
    head,         \* peer -> last block of the chain it follows
    asked,        \* peer -> unanswered requests, oldest first: [kind, start, at]
    \* not part of the program
    blamed,       \* peers that got a 4xx status
    panicked,     \* an index of a list was out of range
    commands      \* calls of set_scripts left

cacheVars == <<cachedIndex, cached>>
peerVars == <<proved, reorged, first, latest, head>>
vars == <<minFiltered, finalized, tip, cacheVars, peerVars, asked, blamed, panicked, commands>>

-----------------------------------------------------------------------------
(* Numbers, chains and queues *)

Chains == [h \in Blocks |-> [n \in 0 .. Number[h] |->
              CHOOSE b \in Ancestors[h] : Number[b] = n]]
At(h, n) == Chains[h][n]
Segment(h, from, to) == [i \in 1 .. to - from + 1 |-> At(h, from + i - 1)]
MinOf(a, b) == IF a <= b THEN a ELSE b

\* Without the entries below the cursor.
DropFirst(s, n) == SubSeq(s, n + 1, Len(s))

\* calc_check_point_number.
PointNumber(i) == i * Interval

\* get_check_points: the check points are those of the chain.
HighestHead == CHOOSE h \in AllHeads : \A b \in AllHeads : Number[b] <= Number[h]
CheckPoint(i) == At(HighestHead, PointNumber(i))

\* Mutant: the interval of a block that ends one is the next one.
SyncIndexLate(n) == n \div Interval

\* calc_cached_check_point_index_when_sync_at: [ki+1, (k+1)i] -> k.
SyncIndex(n) == (IF n = 0 THEN 0 ELSE n - 1) \div Interval

Ask(q, p, kind, start) ==
    IF Len(q[p]) < MaxQueue
    THEN [q EXCEPT ![p] = Append(@, [kind |-> kind, start |-> start, at |-> head[p]])]
    ELSE q
Answered(p) == [asked EXCEPT ![p] = Tail(@)]

ProvedPeers == {p \in Peers : proved[p] # NoBlock}

-----------------------------------------------------------------------------
(* The vote on the latest hashes *)

\* The peers whose list starts at the last finalized check point.
PeersWithData == {p \in ProvedPeers : first[p] = finalized}

\* The required_peers_count-th smallest of the sizes of the peers ps.
LengthMax(size, ps) ==
    CHOOSE n \in {size[p] : p \in ps} :
        /\ Cardinality({p \in ps : size[p] < n}) < Required
        /\ Cardinality({p \in ps : size[p] <= n}) >= Required

\* How many of the peers that have agreed on vs have v next.
Votes(vs, v) ==
    Cardinality({p \in PeersWithData :
        /\ Len(vs) < Len(latest[p]) /\ latest[p][Len(vs) + 1] = v
        /\ SubSeq(latest[p], 1, Len(vs)) = vs})

Winners(vs) ==
    LET next == {latest[p][Len(vs) + 1] :
                    p \in {q \in PeersWithData : Len(vs) < Len(latest[q])}}
    IN  {v \in next : /\ Votes(vs, v) >= Required
                      /\ \A b \in next : Votes(vs, b) <= Votes(vs, v)}

\* get_latest_block_filter_hashes: every result it may have, since a tie is
\* decided by the order of a HashMap.  The peers are asked for one hash after the
\* other up to max, so that a result is the beginning of the lists that won.
LatestHashes ==
    LET max      == LengthMax([p \in Peers |-> Len(latest[p])], PeersWithData)
        prefixes == UNION {{SubSeq(latest[p], 1, n) : n \in 0 .. Len(latest[p])} :
                              p \in PeersWithData}
    IN  IF Cardinality(PeersWithData) < Required THEN {<<>>}
        ELSE {vs \in prefixes :
                 /\ \A i \in 1 .. Len(vs) : vs[i] \in Winners(SubSeq(vs, 1, i - 1))
                 /\ Len(vs) = max \/ (Len(vs) < max /\ Winners(vs) = {})}

-----------------------------------------------------------------------------
(* Requests *)

\* could_request_more_block_filters, with the cache <<ci, ch>> and agreed hashes vs.
CouldRequestMore(n, ci, ch, vs) ==
    IF SyncIndex(n + 1) >= finalized
    THEN PointNumber(finalized) + Len(vs) >= n + 1
    ELSE SyncIndex(n + 1) = ci /\ Len(ch) = Interval

\* try_send_get_block_filters (see FilterSync for the matched blocks): the queues
\* that may result.
GetBlockFilters(q, n, ci, ch) ==
    LET best == {p \in ProvedPeers : \A r \in ProvedPeers :
                    TotalDifficulty[proved[r]] <= TotalDifficulty[proved[p]]}
    IN  UNION {IF best # {} /\ CouldRequestMore(n, ci, ch, vs)
               THEN {Ask(q, p, "filters", n + 1) : p \in best} ELSE {q} : vs \in LatestHashes}

\* Mutant: the latest hashes are asked for from the check point on again.
LatestStartAtPoint(p) == PointNumber(first[p]) + 1

\* Where the next request for the latest hashes of p starts.
LatestStart(p) == PointNumber(first[p]) + Len(latest[p]) + 1

\* get_peers_which_require_more_latest_block_filter_hashes.
RequireMoreLatest ==
    {p \in PeersWithData :
        LET last == PointNumber(first[p]) + Len(latest[p])
        IN  last < Number[proved[p]] /\ Number[proved[p]] - last < 2 * Interval}

\* The second half of try_send_get_block_filter_hashes, after the cache has been
\* brought to the cursor's interval: a peer that has the finalized check point is
\* asked for the cache, or else every peer for its latest hashes.
GetBlockFilterHashes(q, ci, ch) ==
    LET best == {p \in ProvedPeers : first[p] >= finalized}
    IN  IF ci < finalized
        THEN IF Len(ch) < Interval /\ best # {}
             THEN {Ask(q, p, "hashes", PointNumber(ci) + Len(ch) + 1) : p \in best}
             ELSE {q}
        ELSE {[p \in Peers |->
                  IF p \in RequireMoreLatest
                  THEN Ask(q, p, "hashes", LatestStart(p))[p]
                  ELSE q[p]]}

\* Mutant: the hashes of the old interval stay.
CacheKept(n) == cached

\* Peers::update_min_filtered_block_number.
CacheAt(n) == IF cachedIndex = SyncIndex(n + 1) THEN cached ELSE <<>>

\* The two timers of FilterProtocol.
TryGetBlockFilters ==
    /\ UNCHANGED <<minFiltered, finalized, tip, cacheVars, peerVars, blamed, panicked, commands>>
    /\ asked' \in GetBlockFilters(asked, minFiltered, cachedIndex, cached)

TryGetBlockFilterHashes ==
    /\ UNCHANGED <<minFiltered, finalized, tip, peerVars, blamed, panicked, commands>>
    /\ cachedIndex' = SyncIndex(minFiltered + 1)
    /\ cached' = CacheAt(minFiltered)
    /\ asked' \in GetBlockFilterHashes(asked, cachedIndex', cached')

-----------------------------------------------------------------------------
(* BlockFilterHashesProcess *)

\* What the full node answers to a request, from the chain of h.
Answer(h, start, n) == Segment(h, start, MinOf(start + n - 1, Number[h]))

\* Every other status than "OK" leaves the lists as they are: "Ignore", a 4xx
\* status "Unexpected", or "Panic", an index or a slice out of range.
Refuse(p, status) ==
    /\ status # "OK"
    /\ blamed' = IF status = "Unexpected" THEN blamed \cup {p} ELSE blamed
    /\ panicked' = (panicked \/ status = "Panic")
    /\ asked' = Answered(p)
    /\ UNCHANGED <<cacheVars, latest>>

\* Two lists agree where both have an entry.
Overlap(old, new) == \A i \in 1 .. MinOf(Len(old), Len(new)) : old[i] = new[i]

\* The branch of the cached interval.
ForCache(start) ==
    /\ start <= PointNumber(finalized)
    /\ PointNumber(cachedIndex) < start /\ start <= PointNumber(cachedIndex + 1)

\* Hashes from `start` on for the cache, behind the hash `parent`: they must be
\* continuous with it, and lead to the next check point if they go beyond it.
CacheStatus(start, parent, hashes) ==
    LET skip == start - PointNumber(cachedIndex) - 1
        room == Interval - skip
    IN  IF skip > Len(cached) THEN "Ignore"
        ELSE IF skip = 0 /\ parent # CheckPoint(cachedIndex) THEN "Unexpected"
        ELSE IF skip > 0 /\ parent # cached[skip] THEN "Ignore"
        ELSE IF Len(hashes) > room /\ hashes[room] # CheckPoint(cachedIndex + 1)
             THEN "Unexpected"
        ELSE IF ~ Overlap(DropFirst(cached, skip), hashes) THEN "Ignore"
        ELSE IF Len(cached) - skip > MinOf(Len(hashes), room) THEN "Panic" ELSE "OK"

\* The cache after hashes for the numbers behind its first `skip` ones; what lies
\* after the next check point is left out.
ExtendCache(skip, hashes) ==
    cached \o SubSeq(hashes, Len(cached) - skip + 1, MinOf(Len(hashes), Interval - skip))

\* Another peer is asked for the rest, or the filters when there is none.
CacheHashes(p, start, parent, hashes) ==
    LET end   == start + Len(hashes) - 1
        peers == {q \in ProvedPeers \ {p} : first[q] >= finalized}
    IN  \/ Refuse(p, CacheStatus(start, parent, hashes))
        \/ /\ CacheStatus(start, parent, hashes) = "OK"
           /\ cached' = ExtendCache(start - PointNumber(cachedIndex) - 1, hashes)
           /\ asked' \in IF end < PointNumber(cachedIndex + 1)
                         THEN {Ask(Answered(p), q, "hashes", end + 1) :
                                  q \in IF peers = {} THEN {p} ELSE peers}
                         ELSE GetBlockFilters(Answered(p), minFiltered, cachedIndex, cached')
           /\ UNCHANGED <<cachedIndex, latest, blamed, panicked>>

\* Cut at the proved number of p.
WithinProved(p, start, hashes) ==
    SubSeq(hashes, 1, MinOf(Len(hashes), Number[proved[p]] - start + 1))

\* Mutant: the parent of the first hash is not compared.
LatestStatusNoParent(p, start, parent, new) ==
    IF \/ PointNumber(finalized) >= Number[proved[p]] \/ first[p] # finalized
       \/ start > Number[proved[p]] \/ start > PointNumber(finalized) + Len(latest[p]) + 1
       \/ ~ Overlap(DropFirst(latest[p], start - PointNumber(finalized) - 1), new)
    THEN "Ignore" ELSE "OK"

\* Hashes from `start` on for the latest ones of p; the caller has seen that this
\* is after the finalized check point.
LatestStatus(p, start, parent, new) ==
    LET skip  == start - PointNumber(finalized) - 1
        known == DropFirst(latest[p], skip)
    IN  IF \/ PointNumber(finalized) >= Number[proved[p]]
           \/ first[p] # finalized
           \/ start > Number[proved[p]]
           \/ skip > Len(latest[p])
        THEN "Ignore"
        ELSE IF parent # (IF skip = 0 THEN CheckPoint(finalized) ELSE latest[p][skip])
             THEN "Unexpected"
        ELSE IF ~ Overlap(known, new) THEN "Ignore"
        ELSE IF Len(known) > Len(new) THEN "Panic" ELSE "OK"

\* LatestBlockFilterHashes::update_latest_block_filter_hashes; p is asked for the
\* rest.
UpdateLatest(p, start, parent, hashes) ==
    LET new == WithinProved(p, start, hashes)
        end == start + Len(new) - 1
    IN  \/ Refuse(p, LatestStatus(p, start, parent, new))
        \/ /\ LatestStatus(p, start, parent, new) = "OK"
           /\ latest' = [latest EXCEPT ![p] =
                 SubSeq(@, 1, start - PointNumber(finalized) - 1) \o new]
           /\ asked' = IF end < Number[proved[p]]
                       THEN Ask(Answered(p), p, "hashes", end + 1) ELSE Answered(p)
           /\ UNCHANGED <<cacheVars, blamed, panicked>>

\* The oldest request of p is answered from the chain of h, or, when that chain
\* is too short, not at all.
BlockFilterHashes(p, h) ==
    LET start  == asked[p][1].start
        hashes == Answer(h, start, MaxHashes)
        isOut  == \/ proved[p] = NoBlock \/ Number[h] < start
                  \/ start <= PointNumber(finalized) /\ ~ ForCache(start)
    IN  /\ asked[p][1].kind = "hashes"
        /\ \/ isOut /\ Refuse(p, "Ignore")
           \/ ~ isOut /\ ForCache(start) /\ CacheHashes(p, start, At(h, start - 1), hashes)
           \/ ~ isOut /\ ~ ForCache(start) /\ UpdateLatest(p, start, At(h, start - 1), hashes)
        /\ UNCHANGED minFiltered

-----------------------------------------------------------------------------
(* BlockFiltersProcess *)

\* n filters are accepted; the next request follows.
AcceptFilters(p, start, hashes, n) ==
    LET last   == start + n - 1
        others == {q \in ProvedPeers \ {p} : tip \in Ancestors[proved[q]]}
    IN  /\ minFiltered' = last
        /\ cachedIndex' = SyncIndex(last + 1)
        /\ cached' = CacheAt(last)
        /\ \E vs \in LatestHashes :
              asked' \in IF CouldRequestMore(last, cachedIndex', cached', vs)
                         THEN {Ask(Answered(p), q, "filters", last + 1) :
                                  q \in IF others = {} THEN {p} ELSE others}
                         ELSE GetBlockFilterHashes(Answered(p), cachedIndex', cached')
        /\ UNCHANGED <<latest, blamed, panicked>>

\* The expected hashes of the filters from the cursor on: the rest of the cache,
\* or what is left of the agreed hashes vs.
Expected(start, vs) ==
    IF start <= PointNumber(finalized)
    THEN DropFirst(cached, start - PointNumber(cachedIndex) - 1)
    ELSE DropFirst(vs, start - PointNumber(finalized) - 1)

\* The filters are hashed one after the other on top of the expected parent.
FiltersStatus(p, start, hashes, vs) ==
    IF \/ proved[p] = NoBlock \/ hashes = <<>> \/ start # minFiltered + 1
       \/ start <= PointNumber(finalized) /\ (~ ForCache(start) \/ cached = <<>>)
       \/ start - PointNumber(finalized) - 1 > Len(vs)
    THEN "Ignore"
    ELSE IF ForCache(start) /\ start - PointNumber(cachedIndex) - 1 > Len(cached) THEN "Panic"
    ELSE IF Overlap(Expected(start, vs), hashes) THEN "OK" ELSE "Unexpected"

BlockFilters(p, h) ==
    LET start  == asked[p][1].start
        hashes == Answer(h, start, MaxFilters)
    IN  /\ asked[p][1].kind = "filters"
        /\ \E vs \in LatestHashes :
              \/ Refuse(p, FiltersStatus(p, start, hashes, vs)) /\ UNCHANGED minFiltered
              \/ /\ FiltersStatus(p, start, hashes, vs) = "OK"
                 /\ AcceptFilters(p, start, hashes, MinOf(Len(hashes), Len(Expected(start, vs))))

\* The chains an answer may come from: an answer is not on its way for as long as
\* the chain takes to grow by an interval.
AnswerHeads(p) == {h \in {asked[p][1].at, head[p]} : Number[head[p]] < Number[h] + Interval}

Received(p) ==
    /\ UNCHANGED <<finalized, tip, proved, reorged, first, head, commands>>
    /\ asked[p] # <<>>
    /\ \E h \in AnswerHeads(p) : BlockFilterHashes(p, h) \/ BlockFilters(p, h)

-----------------------------------------------------------------------------
(* The light client task and the RPC *)

\* The full node moves to a heavier chain.
SwitchHead(p, h) ==
    /\ TotalDifficulty[head[p]] < TotalDifficulty[h]
    /\ head' = [head EXCEPT ![p] = h]
    /\ UNCHANGED <<minFiltered, finalized, tip, cacheVars, proved, reorged, first, latest>>
    /\ UNCHANGED <<asked, blamed, panicked, commands>>

\* update_prove_state.
LatestAfter(p, isReorg) == IF isReorg THEN [latest EXCEPT ![p] = <<>>] ELSE latest

UpdateProveState(p, h, isReorg) ==
    /\ proved' = [proved EXCEPT ![p] = h]
    /\ reorged' = IF isReorg THEN reorged \cup {p} ELSE reorged \ {p}
    /\ latest' = LatestAfter(p, isReorg)

\* The storage is moved to a heavier proved chain, the cursor back to the fork.
MoveTip(h, reorg) ==
    LET to == MaxOf(ForkNumbers(reorg, LastHeaders(tip))) + 1
        n  == IF reorg # {} /\ minFiltered >= to THEN to - 1 ELSE minFiltered
    IN  IF TotalDifficulty[h] > TotalDifficulty[tip]
        THEN /\ reorg # {} => ForkNumbers(reorg, LastHeaders(tip)) # {}
             /\ tip' = h
             /\ minFiltered' = n
        ELSE UNCHANGED <<tip, minFiltered>>

\* The chain of p is proved: as a child of the proved one (new_child keeps the
\* reorg headers), as proved by another peer, or by a proof.
Prove(p) ==
    LET h     == head[p]
        old   == IF proved[p] = NoBlock THEN tip ELSE proved[p]
        reorg == ReorgHeaders(StartOfRequest(old, h, LastHeaders(tip)), h)
    IN  /\ proved[p] # h
        /\ IF proved[p] # NoBlock /\ IsParentOf(proved[p], h)
           THEN MoveTip(h, {}) /\ UpdateProveState(p, h, p \in reorged)
           ELSE \/ \E q \in Peers :
                      /\ proved[q] = h
                      /\ UpdateProveState(p, h, q \in reorged)
                      /\ UNCHANGED <<tip, minFiltered>>
                \/ /\ h \notin {proved[q] : q \in Peers}
                   /\ Number[old] < Number[h]
                   /\ MoveTip(h, reorg)
                   /\ UpdateProveState(p, h, reorg # {})
        /\ UNCHANGED <<finalized, cacheVars, first, head, asked, blamed, panicked, commands>>

\* The last check point that p has reported.
LastPoint(p) ==
    LET n == Number[proved[p]] \div Interval - 1
    IN  IF n < first[p] THEN first[p] ELSE n

\* finalize_check_points: the lists of the peers that have the finalized check
\* point are moved to it, then the next ones are stored that enough peers have.
FinalizeCheckPoints ==
    LET clean == {p \in ProvedPeers : finalized <= LastPoint(p)}
        new   == {i \in finalized .. LengthMax([p \in clean |-> LastPoint(p)], clean) :
                     Cardinality({p \in clean : i <= LastPoint(p)}) >= Required}
    IN  /\ UNCHANGED <<minFiltered, tip, cacheVars, proved, reorged, head>>
        /\ UNCHANGED <<asked, blamed, panicked, commands>>
        /\ Cardinality(ProvedPeers) >= Required
        /\ first' = [p \in Peers |-> IF p \in clean THEN finalized ELSE first[p]]
        /\ latest' = [p \in Peers |->
              IF p \in clean /\ first[p] # finalized THEN <<>> ELSE latest[p]]
        /\ finalized' = IF Cardinality(clean) >= Required THEN MaxOf(new) ELSE finalized

\* set_scripts writes the cursor; the cache is left to the next timer.
SetScripts(n) ==
    /\ commands > 0 /\ n # minFiltered
    /\ commands' = commands - 1
    /\ minFiltered' = n
    /\ UNCHANGED <<finalized, tip, cacheVars, peerVars, asked, blamed, panicked>>

-----------------------------------------------------------------------------
(* The specification *)

Init ==
    /\ minFiltered = 0
    /\ finalized = 0 /\ tip = Genesis
    /\ cachedIndex = 0 /\ cached = <<>>
    /\ proved = [p \in Peers |-> NoBlock] /\ reorged = {}
    /\ first = [p \in Peers |-> 0]
    /\ latest = [p \in Peers |-> <<>>]
    /\ head = [p \in Peers |-> CHOOSE h \in Heads[p] :
                  \A b \in Heads[p] : TotalDifficulty[h] <= TotalDifficulty[b]]
    /\ asked = [p \in Peers |-> <<>>]
    /\ blamed = {} /\ panicked = FALSE
    /\ commands = MaxCommands

Next ==
    \/ TryGetBlockFilters \/ TryGetBlockFilterHashes \/ FinalizeCheckPoints
    \/ \E p \in Peers : Received(p) \/ Prove(p) \/ \E h \in Heads[p] : SwitchHead(p, h)
    \/ \E n \in StartNumbers : SetScripts(n)

Spec == Init /\ [][Next]_vars

\* The timers fire, full nodes follow the heaviest chain, are proved and answer.
Fairness ==
    /\ WF_vars(TryGetBlockFilters) /\ WF_vars(TryGetBlockFilterHashes)
    /\ WF_vars(FinalizeCheckPoints)
    /\ \A p \in Peers :
          /\ WF_vars(Received(p)) /\ WF_vars(Prove(p))
          /\ WF_vars(\E h \in Heads[p] : SwitchHead(p, h))

FairSpec == Spec /\ Fairness

-----------------------------------------------------------------------------
(* Properties *)

\* A sequence of hashes is the part of one chain behind check point i.
IsBehind(i, hs) ==
    /\ hs # <<>> => IsParentOf(CheckPoint(i), hs[1])
    /\ \A j \in 1 .. Len(hs) - 1 : IsParentOf(hs[j], hs[j + 1])

\* The cached hashes are those of the chain in the interval that cachedIndex
\* names, wherever set_scripts, reorgs and late answers moved the cursor.
CacheIsRight ==
    cached # <<>> => /\ cachedIndex < finalized
                     /\ cached = SubSeq(Segment(CheckPoint(cachedIndex + 1), PointNumber(cachedIndex) + 1,
                                   PointNumber(cachedIndex + 1)), 1, Len(cached))

\* Whatever chains the lists of the peers follow, every result of the vote is
\* one chain that starts behind the finalized check point.
AgreedIsChain == \A vs \in LatestHashes : IsBehind(finalized, vs)

\* No list is read past its end: the slices and indexes of the two handlers.
NoPanic == ~ panicked

\* A peer's latest hashes are those of the chain it has proved.
LatestOnChain ==
    \A p \in ProvedPeers : \A i \in 1 .. Len(latest[p]) : latest[p][i] \in Ancestors[proved[p]]

\* "4xx: Remote errors - The error seems to have been caused by the remote (the
\* server)" (status.rs): a full node that was asked, and answers, on the chain
\* that it has proved gets none.
ProvedChainNotBlamed ==
    [][\A p \in blamed' \ blamed : head[p] # proved[p] \/ asked[p][1].at # head[p]]_vars

\* The filters reach the end of the heaviest chain, whatever calls of set_scripts
\* and reorgs came before, unless a list is left on another chain for good: no
\* timer or answer waits for another one, in either regime or between them.
EventuallyFiltered ==
    <>[]LatestOnChain => <>[](minFiltered = Number[HighestHead])
=============================================================================
