-------------------------- MODULE FilterSyncCrash --------------------------
(***************************************************************************)
(* FilterSync with the process stopping in the middle of a handler.  The   *)
(* handlers write to RocksDB in several calls, each of them atomic (a put  *)
(* or a batch) but not all of them together: a crash keeps a prefix of the *)
(* writes and loses the memory.                                            *)
(***************************************************************************)
EXTENDS FilterSync

CONSTANT CrashPoints   \* the handlers in which a crash is considered

ASSUME CrashAssumption == CrashPoints \subseteq {"block", "filters", "scripts", "reorg"}

Crash(point) ==
    /\ point \in CrashPoints
    /\ budget.losses > 0
    /\ budget' = [budget EXCEPT !.losses = @ - 1]
    /\ LoseMemory

\* SendBlock of the last missing block: remove_matched_blocks, filter_block for
\* one block after the other, update_block_number.
CrashInFinishRange ==
    /\ Crash("block")
    /\ matched # {} /\ matchedProved = matched
    /\ Cardinality(matched \ downloaded) <= 1
    /\ \E k \in DOMAIN ranges, done \in SUBSET matched :
          /\ IsEarliest(ranges, k) /\ matched = ranges[k].hashes
          /\ ranges' = Without(ranges, {k})
          /\ indexed' = FilterBlocks(indexed, scripts, done)
    /\ UNCHANGED <<scripts, minFiltered, tip, since>>

\* BlockFiltersProcess: add_matched_blocks or update_block_number, then
\* update_min_filtered_block_number.
CrashInBlockFilters(p, start, n) ==
    LET bs      == Served(p, start, n)
        matches == PossibleMatches(bs, start + n)
        range   == NewRange(p, n, matches)
    IN  /\ Crash("filters")
        /\ DOMAIN scripts # {} /\ proved[p] # NoBlock
        /\ start = minFiltered + 1
        /\ Cardinality(bs) = n /\ \A b \in bs : Supported(b)
        /\ IF matches # {}
           THEN /\ ranges' = Override(ranges, [k \in {start} |-> range])
                /\ UNCHANGED scripts
           ELSE /\ matched = {}
                /\ scripts' = UpdateBlockNumber(scripts, start + n - 1)
                /\ UNCHANGED ranges
        /\ UNCHANGED <<minFiltered, tip, indexed, since>>

\* update_filter_scripts: the scripts in one batch (some kept, some given), then
\* the cursor, then the ranges, then the genesis block.
CrashInSetScripts(kept, given) ==
    /\ Crash("scripts")
    /\ scripts' = Override(Without(scripts, DOMAIN scripts \ kept), given)
    /\ since' = Override(Without(since, DOMAIN since \ kept), given)
    /\ \/ UNCHANGED <<minFiltered, ranges>>
       \/ minFiltered' = MinFilteredByScripts(scripts') /\ UNCHANGED ranges
       \/ /\ minFiltered' = MinFilteredByScripts(scripts')
          /\ ranges' = Without(ranges, DOMAIN ranges)
    /\ UNCHANGED <<tip, indexed>>

\* commit_prove_state on a fork: the ranges one by one from the latest on, then
\* the batch of rollback_to_block, then update_last_state.
CrashInCommitReorg(p) ==
    LET new   == proveReq[p].last
        forks == ForkNumbers(ReorgHeaders(proveReq[p].start, new), LastHeaders(tip))
        fork  == MaxOf(forks)
        gone  == {k \in DOMAIN ranges : k > fork}
        to    == RollbackTo(fork)
    IN  /\ Crash("reorg")
        /\ proveReq[p] # NoProveReq /\ ~ proveReq[p].longFork
        /\ TotalDifficulty[new] > TotalDifficulty[tip]
        /\ forks # {}
        /\ \/ /\ \E k \in gone : ranges' = Without(ranges, {j \in gone : j >= k})
              /\ UNCHANGED <<scripts, minFiltered, indexed>>
           \/ /\ ranges' = Without(ranges, gone)
              /\ scripts' = RollbackScripts(to)
              /\ indexed' = RollbackIndex(to)
              /\ minFiltered' = RollbackMinFiltered(to)
        /\ UNCHANGED <<tip, since>>

CrashStep ==
    \/ CrashInFinishRange
    \/ \E a \in asked, n \in 1 .. MaxBatch : CrashInBlockFilters(a[1], a[2], n)
    \/ \E S \in SUBSET Scripts : \E given \in [S -> StartNumbers] :
          \/ CrashInSetScripts({}, given)
          \/ S # {} /\ CrashInSetScripts(DOMAIN scripts, given)
    \/ \E S \in (SUBSET Scripts) \ {{}} :
          CrashInSetScripts(DOMAIN scripts \ S, [s \in {} |-> 0])
    \/ \E p \in Peers : CrashInCommitReorg(p)

CrashNext == Next \/ CrashStep

CrashSpec == Init /\ [][CrashNext]_vars

-----------------------------------------------------------------------------
(* Properties.  A crash may break these for good (README),                     *)
(* so they are stated for as long as no peer, no memory and no write is lost. *)

Undisturbed == budget.losses = MaxLosses

\* Across reorgs of any depth and empty set_scripts calls, no wanted block is
\* skipped: commit_prove_state takes cursor, ranges and index back far enough.
NothingLostInReorg == Undisturbed => NothingLost

\* The index follows the chain of the stored tip: what rollback_to_block leaves
\* is on the new chain.
IndexFollowsReorg == Undisturbed => IndexOnChain
=============================================================================
