------------------------------- MODULE Cells -------------------------------
(***************************************************************************)
(* The index that the light client keeps of the cells and the transactions *)
(* of the registered scripts, at the level of database keys:               *)
(*   - filter_block and rollback_to_block, which add a block to the index  *)
(*     and take blocks away again, each in one batch of puts and deletes;  *)
(*   - add_fetched_tx and add_fetched_header, with which the answers to    *)
(*     fetch_transaction and fetch_header write into the same tables;      *)
(*   - get_cells, get_transactions and get_cells_capacity, which page      *)
(*     through the tables with a cursor that the caller keeps.             *)
(*                                                                         *)
(* The filter pipeline (FilterSync) is reduced to its result: the blocks   *)
(* after the cursor are filtered one at a time, on the chain of the stored *)
(* tip.  Scripts of the two kinds, lock and type, are handled by the same  *)
(* code with another key prefix, so a script here is a script together     *)
(* with its kind, and an output is the set of its one or two scripts.      *)
(***************************************************************************)
EXTENDS Chain, Sequences, FiniteSetsExt

CONSTANTS
    Scripts,        \* scripts (with their kind) that may be registered
    Transactions,   \* every transaction of the tree
    Body,           \* Body[b]: the transactions of block b, in order
    Inputs,         \* Inputs[t]: sequence of out points [tx, out]
    Outputs,        \* Outputs[t]: sequence of sets of scripts
    Commands,       \* set_scripts calls: [command, scripts]
    MaxCommands,    \* bound: set_scripts calls after the first
    Heads,          \* tips that commit_prove_state may store, by difficulty
    MaxCalls,       \* bound: fetch_transaction and fetch_header calls and scans
    Headers,        \* blocks whose header a user may fetch
    Filters,        \* search filters: [script, from, to], None for no restriction
    Limit,          \* page size of a scan
    MaxIndex,       \* u32::MAX, the transaction index of fetched transactions
    None            \* no script, no range, no cursor

ASSUME CellsAssumption ==
    /\ Body \in [Blocks -> Seq(Transactions)]
    /\ Inputs \in [Transactions -> Seq([tx : Transactions, out : Nat])]
    /\ Outputs \in [Transactions -> Seq(SUBSET Scripts)]
    /\ Genesis \in Heads /\ Heads \subseteq Blocks
    /\ Headers \subseteq Blocks
    /\ {MaxCommands, MaxCalls, Limit, MaxIndex} \subseteq Nat
    /\ \A b \in Blocks : Len(Body[b]) < MaxIndex
    /\ \A t \in Transactions : Len(Inputs[t]) < MaxIndex /\ Len(Outputs[t]) < MaxIndex
    /\ \A c \in Commands :
          /\ c.command \in {"all", "partial", "delete"}
          /\ DOMAIN c.scripts \subseteq Scripts
          /\ \A s \in DOMAIN c.scripts : c.scripts[s] \in Nat

\* The blocks are valid: a chain has a transaction once and spends an output
\* once, and what an input spends is an output of an earlier transaction.
ASSUME InputsAssumption ==
    /\ \A t \in Transactions : \A x \in DOMAIN Inputs[t] :
          Inputs[t][x].out \in DOMAIN Outputs[Inputs[t][x].tx]
    /\ \A b \in Blocks : \A i \in DOMAIN Body[b] : \A x \in DOMAIN Inputs[Body[b][i]] :
          \E c \in Ancestors[b] : \E j \in DOMAIN Body[c] :
              Body[c][j] = Inputs[Body[b][i]][x].tx /\ (c = b => j < i)
    /\ \A h \in Blocks : \A b, c \in Ancestors[h] : \A i \in DOMAIN Body[b], j \in DOMAIN Body[c] :
          (\/ Body[b][i] = Body[c][j]
           \/ \E x \in DOMAIN Inputs[Body[b][i]], y \in DOMAIN Inputs[Body[c][j]] :
                 Inputs[Body[b][i]][x] = Inputs[Body[c][j]][y])
            => b = c /\ i = j

VARIABLES
    tip,          \* LAST_STATE_KEY: the stored tip
    scripts,      \* FILTER_SCRIPTS_KEY: registered script -> filtered number
    minFiltered,  \* MIN_FILTERED_BLOCK_NUMBER
    txs,          \* TxHash -> [number, index]
    cells,        \* CellLockScript/CellTypeScript key -> transaction
    history,      \* TxLockScript/TxTypeScript key -> transaction
    byNumber,     \* BlockNumber -> block hash
    headers,      \* BlockHash: blocks whose header is stored
    asked,        \* fetching transactions: <<t, tip of the request>>
    askedHeaders, \* fetching headers: <<b, tip of the request>>
    commands,     \* set_scripts calls made
    calls,        \* fetch_transaction and fetch_header calls and scans made
    scan,         \* one caller that pages through get_cells
    applied,      \* history variable: script -> blocks filtered for it and not rolled back
    upset         \* history variable: <<script, what went wrong for it>>, see Upsets

dbVars == <<scripts, minFiltered, txs, cells, history, byNumber, headers>>
ghostVars == <<applied, upset>>
vars == <<tip, dbVars, asked, askedHeaders, commands, calls, scan, ghostVars>>

\* What makes the index of a script depart from its blocks:
\*   "misread":  a spent cell was looked up where the chain does not have its
\*               transaction (a fetched transaction, or one of another fork);
\*   "redone":   a block was filtered again behind the number of the script,
\*               for the sake of another script;
\*   "orphaned": entries above the number of the script, or of a script that is
\*               not registered, stayed when their block was rolled back;
\*   "revived":  a rollback put a cell "back" that was never in the index of the
\*               script, which had been registered between the block of the
\*               cell and the one that spends it; without an entry for its
\*               output no rollback takes it away.
Upsets == {"misread", "redone", "orphaned", "revived"}

EmptyMap == [x \in {} |-> None]

Put(map, key, value) ==
    [k \in DOMAIN map \cup {key} |-> IF k = key THEN value ELSE map[k]]

-----------------------------------------------------------------------------
(* Keys and batches.  A cell key is <<script, number, index, output>>, a     *)
(* history key <<script, number, index, cell index, io type>> with 0 for an  *)
(* input.  The keys of one script are ordered by the numbers that follow it. *)

\* The history entry of the output that a cell is.
EntryOf(k) == <<k[1], k[2], k[3], k[4], 1>>

\* append_key: big-endian numbers after the script.
Rank(key) ==
    LET io == IF Len(key) = 5 THEN key[5] ELSE 0
        width == MaxIndex + 1
    IN  (((key[2] * width) + key[3]) * width + key[4]) * 2 + io

\* Mutant: the batch is applied deletes first.
CommitPutsLast(map, puts, deletes) ==
    LET added == {p.key : p \in puts}
    IN  [k \in (DOMAIN map \ {d.key : d \in deletes}) \cup added |->
            IF k \in added THEN (CHOOSE p \in puts : p.key = k).tx ELSE map[k]]

\* WriteBatch: the last of the puts and deletes of a key decides.
Commit(map, puts, deletes) ==
    LET added == {p.key : p \in puts}
        gone == {d.key : d \in {d \in deletes :
                    \A p \in puts : p.key = d.key => p.at < d.at}}
        last(k) == CHOOSE p \in puts :
                      p.key = k /\ \A q \in puts : q.key = k => q.at <= p.at
    IN  [k \in (DOMAIN map \cup added) \ gone |->
            IF k \in added THEN last(k).tx ELSE map[k]]

-----------------------------------------------------------------------------
(* filter_block.                                                             *)

\* get_transaction(previous) or an earlier transaction of the same block: the
\* positions found, none or one.  The database is read before the batch.
Positions(t, b, i) ==
    IF t \in DOMAIN txs
    THEN {txs[t]}
    ELSE {[number |-> Number[b], index |-> j] : j \in {j \in 1 .. i - 1 : Body[b][j] = t}}

\* Where the chain that ends in b has t (not in the code: for the properties).
PositionOn(t, b) ==
    LET a == CHOOSE a \in Ancestors[b] : \E i \in DOMAIN Body[a] : Body[a][i] = t
    IN  [number |-> Number[a], index |-> CHOOSE i \in DOMAIN Body[a] : Body[a][i] = t]

\* The outputs spent by transaction i of block b whose scripts are in S:
\* [script, input, tx, out, at] with the position `at` found for them.
SpentBy(b, i, S) ==
    UNION {UNION {
        {[script |-> s, input |-> x, tx |-> Inputs[Body[b][i]][x].tx,
          out |-> Inputs[Body[b][i]][x].out, at |-> p] :
            s \in Outputs[Inputs[Body[b][i]][x].tx][Inputs[Body[b][i]][x].out] \cap S} :
        p \in Positions(Inputs[Body[b][i]][x].tx, b, i)} :
        x \in DOMAIN Inputs[Body[b][i]]}

\* The outputs of transaction i of block b whose scripts are in S.
CreatedBy(b, i, S) ==
    UNION {{[script |-> s, out |-> o] : s \in Outputs[Body[b][i]][o] \cap S} :
              o \in DOMAIN Outputs[Body[b][i]]}

\* Utxos deleted: at the position where the previous transaction was found.
\* The inputs of a transaction come before its outputs.
UtxoDeletes(b, S) ==
    UNION {{[key |-> <<c.script, c.at.number, c.at.index, c.out>>, at |-> 2 * i] :
               c \in SpentBy(b, i, S)} : i \in DOMAIN Body[b]}

\* Utxos inserted.
UtxoPuts(b, S) ==
    UNION {{[key |-> <<c.script, Number[b], i, c.out>>, tx |-> Body[b][i], at |-> 2 * i + 1] :
               c \in CreatedBy(b, i, S)} : i \in DOMAIN Body[b]}

\* Mutant: the history has no inputs.
HistoryOutputsOnly(b, S) ==
    UNION {{[key |-> <<c.script, Number[b], i, c.out, 1>>, tx |-> Body[b][i], at |-> 0] :
               c \in CreatedBy(b, i, S)} : i \in DOMAIN Body[b]}

\* Entries of the transaction history inserted.
HistoryPuts(b, S) ==
    UNION {{[key |-> <<c.script, Number[b], i, c.input, 0>>, tx |-> Body[b][i], at |-> 0] :
               c \in SpentBy(b, i, S)}
           \cup {[key |-> <<c.script, Number[b], i, c.out, 1>>, tx |-> Body[b][i], at |-> 0] :
               c \in CreatedBy(b, i, S)} : i \in DOMAIN Body[b]}

\* The scripts whose spent cells are not at the position found for them.
Misread(b, S) ==
    UNION {{c.script : c \in {c \in SpentBy(b, i, S) : c.at # PositionOn(c.tx, b)}} :
              i \in DOMAIN Body[b]}

\* Mutant: only outputs count as a match of the block.
StoredOutputsOnly(b, S) == {i \in DOMAIN Body[b] : CreatedBy(b, i, S) # {}}

\* The transactions of b that are stored, by index; the header is stored when
\* there is one (filter_matched).
Stored(b, S) ==
    {i \in DOMAIN Body[b] : SpentBy(b, i, S) # {} \/ CreatedBy(b, i, S) # {}}

\* The whole of filter_block(b) for the registered scripts `known`, whatever
\* their filtered number is.
FilterBlock(b, known) ==
    LET S == DOMAIN known
        stored == Stored(b, S)
        new == {Body[b][i] : i \in stored}
        at(t) == [number |-> Number[b],
                  index |-> CHOOSE i \in stored : Body[b][i] = t]
    IN  /\ cells' = Commit(cells, UtxoPuts(b, S), UtxoDeletes(b, S))
        /\ history' = Commit(history, HistoryPuts(b, S), {})
        /\ txs' = [t \in DOMAIN txs \cup new |-> IF t \in new THEN at(t) ELSE txs[t]]
        /\ IF stored = {}
           THEN UNCHANGED <<byNumber, headers>>
           ELSE /\ byNumber' = Put(byNumber, Number[b], b)
                /\ headers' = headers \cup {b}

-----------------------------------------------------------------------------
(* rollback_to_block.                                                        *)

\* The history entries of a script from block `to` on.
EntriesFrom(s, to) == {e \in DOMAIN history : e[1] = s /\ e[2] >= to}

\* The registered scripts that are behind block `to` keep their entries.
RolledBack(to) == {s \in DOMAIN scripts : scripts[s] >= to}

\* The entries are visited from the last to the first.  An input puts the cell
\* it spent back, at the position of its transaction; an output is deleted.
RestorePuts(E) ==
    UNION {LET p == Inputs[history[e]][e[4]]
           IN  IF p.tx \in DOMAIN txs
               THEN {[key |-> <<e[1], txs[p.tx].number, txs[p.tx].index, p.out>>,
                      tx |-> p.tx, at |-> 0 - Rank(e)]}
               ELSE {} : e \in {e \in E : e[5] = 0}}

RestoreDeletes(E) ==
    {[key |-> <<e[1], e[2], e[3], e[4]>>, at |-> 0 - Rank(e)] : e \in {e \in E : e[5] = 1}}

RollbackToBlock(to) ==
    LET S == RolledBack(to)
        E == UNION {EntriesFrom(s, to) : s \in S}
    IN  /\ cells' = Commit(cells, RestorePuts(E), RestoreDeletes(E))
        /\ history' = [e \in DOMAIN history \ E |-> history[e]]
        /\ scripts' = [s \in DOMAIN scripts |-> IF s \in S THEN to ELSE scripts[s]]
        /\ minFiltered' = IF minFiltered >= to THEN to - 1 ELSE minFiltered
        /\ applied' = [s \in Scripts |-> IF s \in S
                          THEN {b \in applied[s] : Number[b] < to} ELSE applied[s]]
        /\ upset' = upset
              \cup {<<p.key[1], "misread">> : p \in {p \in RestorePuts(E) :
                       PositionOn(p.tx, tip) # [number |-> p.key[2], index |-> p.key[3]]}}
              \cup {<<p.key[1], "revived">> : p \in {p \in RestorePuts(E) :
                       EntryOf(p.key) \notin DOMAIN history}}
              \cup {<<s, "orphaned">> : s \in {s \in Scripts \ S : EntriesFrom(s, to) # {}}}
        /\ UNCHANGED <<txs, byNumber, headers>>

-----------------------------------------------------------------------------
(* Pages of get_cells and get_transactions.                                  *)

\* Keys of one script that come before key k in the order of the query.
Before(order, j, k) == IF order = "asc" THEN Rank(j) < Rank(k) ELSE Rank(j) > Rank(k)

\* Mutant: the key of the cursor is not skipped.
IterateFromCursor(K, order, cursor) == {k \in K : cursor = None \/ ~Before(order, k, cursor)}

\* Mutant: one key too many is skipped.
IterateSkipsTwo(K, order, cursor) ==
    LET from == {k \in K : cursor = None \/ ~Before(order, k, cursor)}
    IN  {k \in from : cursor = None \/ Cardinality({j \in from : Before(order, j, k)}) > 1}

\* build_query_options and the iterator: the keys from the cursor on, without
\* the first of them, which is skipped whatever key it is.
Iterate(K, order, cursor) ==
    IF cursor = None
    THEN K
    ELSE LET from == {k \in K : ~Before(order, k, cursor)}
         IN  {k \in from : \E j \in from : Before(order, j, k)}

\* The first n of the keys.
Take(K, order, n) == {k \in K : Cardinality({j \in K : Before(order, j, k)}) < n}

LastOf(K, order) == CHOOSE k \in K : \A j \in K : j = k \/ Before(order, j, k)

\* The block range of a filter, if it has one.
InRange(k, f) == f.to = None \/ (f.from <= k[2] /\ k[2] < f.to)

\* get_cells: the other script of the output itself, and the block range.
\* (The ranges of lengths and of capacity are predicates of the output too.)
CellMatches(k, f) ==
    /\ f.script = None \/ f.script \in Outputs[cells[k]][k[4]]
    /\ InRange(k, f)

\* get_transactions: the other script must have an entry at the same place.
EntryMatches(e, f) ==
    /\ f.script = None \/ <<f.script, e[2], e[3], e[4], e[5]>> \in DOMAIN history
    /\ InRange(e, f)

CellsOf(s) == {k \in DOMAIN cells : k[1] = s}
EntriesOf(s) == {e \in DOMAIN history : e[1] = s}

\* get_cells: a page, and the cursor that the caller gets with it.
CellPage(s, f, order, cursor, n) ==
    LET page == Take({k \in Iterate(CellsOf(s), order, cursor) : CellMatches(k, f)}, order, n)
    IN  [page |-> page, cursor |-> IF page = {} THEN None ELSE LastOf(page, order)]

\* get_transactions with group_by_transaction: entries are taken until the
\* page holds n transactions and another one begins; the cursor also moves over
\* entries that the filter leaves out.
GroupedPage(s, f, order, cursor, n) ==
    LET from == Iterate(EntriesOf(s), order, cursor)
        kept(e) == {j \in from : Before(order, j, e) /\ EntryMatches(j, f)}
        full(e) == /\ Cardinality({history[j] : j \in kept(e)}) = n
                   /\ history[e] # history[LastOf(kept(e), order)]
        stops == {e \in from : full(e)}
        seen == {e \in from : \A x \in stops : Before(order, e, x)}
    IN  [page |-> {e \in seen : EntryMatches(e, f)},
         cursor |-> IF seen = {} THEN None ELSE LastOf(seen, order)]

\* get_cells_capacity, with the cell as its own unit of capacity.
CellsCapacity(s, f) == Cardinality({k \in CellsOf(s) : CellMatches(k, f)})

NoScan == [on |-> FALSE, script |-> None, order |-> "asc", cursor |-> None,
           seen |-> {}, live |-> {}, moved |-> FALSE, missed |-> {}]

\* The cells that have been in the index since the scan began, and whether the
\* cell under its cursor has gone.
Watch ==
    scan' = [scan EXCEPT
        !.live = @ \cap DOMAIN cells',
        !.moved = @ \/ (scan.on /\ scan.cursor # None /\ scan.cursor \notin DOMAIN cells')]

-----------------------------------------------------------------------------
\* init_genesis_block stores the transactions of the genesis block.
GenesisTxs ==
    [t \in {Body[Genesis][i] : i \in DOMAIN Body[Genesis]} |->
        [number |-> 0, index |-> CHOOSE i \in DOMAIN Body[Genesis] : Body[Genesis][i] = t]]

Init ==
    /\ tip = Genesis
    /\ scripts = EmptyMap /\ minFiltered = 0
    /\ txs = GenesisTxs /\ cells = EmptyMap /\ history = EmptyMap
    /\ byNumber = [n \in {0} |-> Genesis] /\ headers = {Genesis}
    /\ asked = {} /\ askedHeaders = {} /\ commands = 0 /\ calls = 0
    /\ scan = NoScan
    /\ applied = [s \in Scripts |-> {}] /\ upset = {}

\* update_filter_scripts: the scripts of a command replace the registered ones,
\* are added to them or are removed; the index itself keeps its entries.
NewScripts(c) ==
    CASE c.command = "all"     -> c.scripts
      [] c.command = "partial" -> [s \in DOMAIN scripts \cup DOMAIN c.scripts |->
                                      IF s \in DOMAIN c.scripts THEN c.scripts[s] ELSE scripts[s]]
      [] c.command = "delete"  -> [s \in DOMAIN scripts \ DOMAIN c.scripts |-> scripts[s]]

\* Scripts that start at number 0 have the genesis block filtered at once, for
\* every registered script.
SetScripts(c) ==
    LET new == NewScripts(c)
        numbers == {new[s] : s \in DOMAIN new}
        genesis == c.command # "delete" /\ \E s \in DOMAIN c.scripts : c.scripts[s] = 0
    IN  /\ commands <= MaxCommands
        /\ commands' = commands + 1
        /\ scripts' = new
        /\ minFiltered' = IF numbers = {} THEN minFiltered ELSE Min(numbers)
        /\ IF genesis
           THEN FilterBlock(Genesis, new)
           ELSE UNCHANGED <<cells, history, txs, byNumber, headers>>
        /\ applied' = [s \in Scripts |->
              (IF s \in DOMAIN c.scripts \/ s \notin DOMAIN new THEN {} ELSE applied[s])
              \cup (IF genesis /\ s \in DOMAIN new THEN {Genesis} ELSE {})]
        /\ upset' = upset
              \cup {<<s, "misread">> : s \in {s \in Misread(Genesis, DOMAIN new) : genesis}}
              \cup {<<s, "redone">> : s \in {s \in DOMAIN new \ DOMAIN c.scripts :
                                                genesis /\ applied[s] # {}}}
        /\ Watch
        /\ UNCHANGED <<tip, asked, askedHeaders, calls>>

\* External: the block filter that full nodes build holds the scripts of the
\* outputs of a block and of the cells it spends.
FilterHas(b, S) ==
    \E i \in DOMAIN Body[b] :
        \/ \E o \in DOMAIN Outputs[Body[b][i]] : Outputs[Body[b][i]][o] \cap S # {}
        \/ \E x \in DOMAIN Inputs[Body[b][i]] :
              LET p == Inputs[Body[b][i]][x] IN Outputs[p.tx][p.out] \cap S # {}

\* The next block of the stored chain: it is downloaded and filtered when its
\* filter has a script whose number is lower; then the numbers move on.
FilterNext ==
    \E b \in Ancestors[tip] :
        LET due == {s \in DOMAIN scripts : scripts[s] < Number[b]}
        IN  /\ DOMAIN scripts # {}
            /\ Number[b] = minFiltered + 1
            /\ minFiltered' = Number[b]
            /\ scripts' = [s \in DOMAIN scripts |-> IF s \in due THEN Number[b] ELSE scripts[s]]
            /\ IF FilterHas(b, due)
               THEN /\ FilterBlock(b, scripts)
                    /\ upset' = upset
                          \cup {<<s, "misread">> : s \in Misread(b, DOMAIN scripts)}
                          \cup {<<s, "redone">> : s \in {s \in DOMAIN scripts \ due :
                                   /\ FilterHas(b, {s})
                                   /\ \E c \in applied[s] : Number[c] >= Number[b]}}
               ELSE UNCHANGED <<cells, history, txs, byNumber, headers, upset>>
            /\ applied' = [s \in Scripts |->
                  IF s \in due \/ (FilterHas(b, due) /\ s \in DOMAIN scripts)
                  THEN applied[s] \cup {b} ELSE applied[s]]
            /\ Watch
            /\ UNCHANGED <<tip, asked, askedHeaders, commands, calls>>

\* commit_prove_state: the tip moves to a heavier head; a fork rolls the index
\* back to the block after the last common one.
MoveTip(h) ==
    LET fork == MaxOf({Number[a] : a \in Ancestors[h] \cap Ancestors[tip]})
    IN  /\ TotalDifficulty[h] > TotalDifficulty[tip]
        /\ tip' = h
        /\ IF tip \in Ancestors[h]
           THEN UNCHANGED <<dbVars, ghostVars>>
           ELSE RollbackToBlock(fork + 1)
        /\ Watch
        /\ UNCHANGED <<asked, askedHeaders, commands, calls>>

\* fetch_transaction of a transaction that is not stored; the request names the
\* tip of the moment.
FetchTransaction(t) ==
    /\ t \notin DOMAIN txs /\ t \notin {a[1] : a \in asked}
    /\ calls < MaxCalls
    /\ calls' = calls + 1
    /\ asked' = asked \cup {<<t, tip>>}
    /\ UNCHANGED <<tip, dbVars, askedHeaders, commands, scan, ghostVars>>

\* add_fetched_tx.
AddFetchedTx(t, b) ==
    /\ headers' = headers \cup {b}
    /\ byNumber' = Put(byNumber, Number[b], b)
    /\ txs' = Put(txs, t, [number |-> Number[b], index |-> MaxIndex])

\* SendTransactionsProof: the transaction is on the chain of the request, or
\* missing there.
TransactionAnswered(a) ==
    LET found == {b \in Ancestors[a[2]] : \E i \in DOMAIN Body[b] : Body[b][i] = a[1]}
    IN  /\ asked' = asked \ {a}
        /\ \/ /\ found = {}
              /\ UNCHANGED dbVars
           \/ /\ \E b \in found : AddFetchedTx(a[1], b)
              /\ UNCHANGED <<scripts, minFiltered, cells, history>>
        /\ UNCHANGED <<tip, askedHeaders, commands, calls, scan, ghostVars>>

\* fetch_header of a block whose header is not stored.
FetchHeader(b) ==
    /\ b \notin headers /\ b \notin {a[1] : a \in askedHeaders}
    /\ b \in Ancestors[tip]
    /\ calls < MaxCalls
    /\ calls' = calls + 1
    /\ askedHeaders' = askedHeaders \cup {<<b, tip>>}
    /\ UNCHANGED <<tip, dbVars, asked, commands, scan, ghostVars>>

\* SendBlocksProof and add_fetched_header.
HeaderAnswered(a) ==
    /\ askedHeaders' = askedHeaders \ {a}
    /\ headers' = headers \cup {a[1]}
    /\ byNumber' = Put(byNumber, Number[a[1]], a[1])
    /\ UNCHANGED <<tip, scripts, minFiltered, txs, cells, history, asked, commands,
                   calls, scan, ghostVars>>

\* A caller begins to page through the cells of a script.
ScanStart(s, order) ==
    /\ ~scan.on
    /\ calls < MaxCalls
    /\ calls' = calls + 1
    /\ scan' = [NoScan EXCEPT !.on = TRUE, !.script = s, !.order = order,
                              !.live = CellsOf(s)]
    /\ UNCHANGED <<tip, dbVars, asked, askedHeaders, commands, ghostVars>>

\* get_cells with the cursor of the page before; a short page is the last one.
ScanPage ==
    LET r == CellPage(scan.script, [script |-> None, from |-> 0, to |-> None],
                      scan.order, scan.cursor, Limit)
        ended == Cardinality(r.page) < Limit
    IN  /\ scan.on
        /\ scan' = IF ended
                   THEN [NoScan EXCEPT !.moved = scan.moved,
                                       !.missed = scan.live \ (scan.seen \cup r.page)]
                   ELSE [scan EXCEPT !.seen = @ \cup r.page, !.cursor = r.cursor]
        /\ UNCHANGED <<tip, dbVars, asked, askedHeaders, commands, calls, ghostVars>>

Next ==
    \/ \E c \in Commands : SetScripts(c)
    \/ FilterNext
    \/ \E h \in Heads : MoveTip(h)
    \/ \E t \in Transactions : FetchTransaction(t)
    \/ \E a \in asked : TransactionAnswered(a)
    \/ \E b \in Headers : FetchHeader(b)
    \/ \E a \in askedHeaders : HeaderAnswered(a)
    \/ \E s \in Scripts, order \in {"asc", "desc"} : ScanStart(s, order)
    \/ ScanPage

Spec == Init /\ [][Next]_vars

-----------------------------------------------------------------------------
(* Properties.                                                               *)

\* The outputs of block b with script s, and the inputs of b that spend such an
\* output, as positions in the block.
OutputsIn(b, s) ==
    {p \in (DOMAIN Body[b]) \X (1 .. MaxIndex) :
        p[2] \in DOMAIN Outputs[Body[b][p[1]]] /\ s \in Outputs[Body[b][p[1]]][p[2]]}
InputsIn(b, s) ==
    {p \in (DOMAIN Body[b]) \X (1 .. MaxIndex) :
        /\ p[2] \in DOMAIN Inputs[Body[b][p[1]]]
        /\ s \in Outputs[Inputs[Body[b][p[1]]][p[2]].tx][Inputs[Body[b][p[1]]][p[2]].out]}
SpendsIn(b, t, o) ==
    \E i \in DOMAIN Body[b] : \E x \in DOMAIN Inputs[Body[b][i]] :
        Inputs[Body[b][i]][x] = [tx |-> t, out |-> o]

\* The cells of a registered script are what filtering its blocks from scratch
\* would leave: whatever filter_block and rollback_to_block have done in
\* between, an output of a filtered block is in the index exactly when no
\* filtered block spends it, and its block has no other cell there.  The scripts
\* of the four cases of Upsets are left out: there the code departs from it.
CellsAreReplay ==
    \A s \in {s \in DOMAIN scripts : \A u \in Upsets : <<s, u>> \notin upset} : \A b \in applied[s] :
        {k \in CellsOf(s) : k[2] = Number[b]}
          = {<<s, Number[b], p[1], p[2]>> : p \in {p \in OutputsIn(b, s) :
                \A c \in applied[s] : ~SpendsIn(c, Body[b][p[1]], p[2])}}

\* The transaction history of a registered script is that of its filtered
\* blocks, wherever spent cells were looked up: each output, each input that
\* spends an output of a filtered block, and nothing that the block does not
\* have, unless entries were orphaned.  A script for which an earlier block was
\* filtered after a later one may lack the inputs of the later one: it was
\* filtered when the cells it spends were not known.
HistoryIsReplay ==
    \A s \in {s \in DOMAIN scripts : <<s, "orphaned">> \notin upset} : \A b \in applied[s] :
        LET entries == {e \in EntriesOf(s) : e[2] = Number[b]}
            outs == {<<s, Number[b], p[1], p[2], 1>> : p \in OutputsIn(b, s)}
            ins == {<<s, Number[b], p[1], p[2], 0>> : p \in InputsIn(b, s)}
            known == {<<s, Number[b], p[1], p[2], 0>> : p \in {p \in InputsIn(b, s) :
                         /\ <<s, "redone">> \notin upset
                         /\ \E c \in applied[s] : \E i \in DOMAIN Body[c] :
                               Body[c][i] = Inputs[Body[b][p[1]]][p[2]].tx}}
        IN  /\ outs \cup known \subseteq entries
            /\ entries \subseteq outs \cup ins
            /\ \A e \in entries : history[e] = Body[b][e[3]]

\* Every read that the queries take for granted succeeds (the `expect` calls of
\* get_cells, get_transactions, get_transaction_with_header and cell): the
\* transaction of a cell and of a history entry is stored and has that output,
\* and the block number of a stored transaction leads to a stored header.
ReadsSucceed ==
    /\ \A k \in DOMAIN cells : cells[k] \in DOMAIN txs /\ k[4] \in DOMAIN Outputs[cells[k]]
    /\ \A e \in DOMAIN history : history[e] \in DOMAIN txs
    /\ \A t \in DOMAIN txs :
          txs[t].number \in DOMAIN byNumber /\ byNumber[txs[t].number] \in headers

\* Paging: with any filter, order and page size, the pages of get_cells hold
\* every matching cell once (their number is what get_cells_capacity counts),
\* and the pages of the grouped get_transactions hold every matching entry and
\* never split a transaction (one with orphaned entries is in two places).
PagesAgree ==
    \A s \in DOMAIN scripts, f \in Filters, order \in {"asc", "desc"}, n \in 1 .. 2 :
        LET size == Cardinality(CellsOf(s)) + Cardinality(EntriesOf(s)) + 1
            start == [seen |-> {}, cursor |-> None, count |-> 0, over |-> FALSE, split |-> FALSE]
            cellPages[m \in 0 .. size] ==
                IF m = 0 THEN start
                ELSE LET q == cellPages[m - 1]
                         r == CellPage(s, f, order, q.cursor, n)
                     IN  IF q.over THEN q
                         ELSE [q EXCEPT !.seen = @ \cup r.page, !.cursor = r.cursor,
                                        !.count = @ + Cardinality(r.page), !.over = r.page = {}]
            txPages[m \in 0 .. size] ==
                IF m = 0 THEN start
                ELSE LET q == txPages[m - 1]
                         r == GroupedPage(s, f, order, q.cursor, n)
                     IN  IF q.over THEN q
                         ELSE [q EXCEPT !.seen = @ \cup r.page, !.cursor = r.cursor,
                                        !.over = r.cursor = None,
                                        !.split = @ \/ {history[e] : e \in q.seen}
                                                        \cap {history[e] : e \in r.page} # {}]
        IN  /\ cellPages[size].seen = {k \in CellsOf(s) : CellMatches(k, f)}
            /\ cellPages[size].count = CellsCapacity(s, f)
            /\ txPages[size].seen = {e \in EntriesOf(s) : EntryMatches(e, f)}
            /\ txPages[size].split => <<s, "orphaned">> \in upset

\* A caller who pages through get_cells while blocks are filtered and rolled
\* back sees every cell that is in the index all the time, as long as the cell
\* under the cursor stays too.
ScanIsComplete == scan.missed = {} \/ scan.moved

\* What filter_block's comment "delete utxo" says: a cell that a filtered block
\* spends is no longer in the index.
SpentCellsAreGone ==
    \A s \in DOMAIN scripts : \A b \in applied[s] : \A k \in CellsOf(s) :
        ~SpendsIn(b, cells[k], k[4])

\* What the README says of get_transaction: block_hash is "the block hash which
\* contains this transaction".
CommittedBlockContains ==
    \A t \in DOMAIN txs : \E i \in DOMAIN Body[byNumber[txs[t].number]] :
        Body[byNumber[txs[t].number]][i] = t
=============================================================================
