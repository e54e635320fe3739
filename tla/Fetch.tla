------------------------------- MODULE Fetch -------------------------------
(***************************************************************************)
(* The fetch queue: fetch_header and fetch_transaction put a hash into      *)
(* Peers::fetching_headers or fetching_txs; every three seconds             *)
(* fetch_headers_txs sends what is new or timed out to peers that have      *)
(* proved the stored tip; SendBlocksProof and SendTransactionsProof bring   *)
(* the answers.                                                             *)
(*                                                                          *)
(* Three threads of control share the peers: the task of the light client   *)
(* protocol (its timers and its message handlers, one at a time), the tasks *)
(* that call prove_or_download_matched_blocks (filter and sync protocol),   *)
(* and the RPC threads.  A peer has one slot for a blocks proof request,    *)
(* which the first two both check and then set, without a lock in between.  *)
(***************************************************************************)
EXTENDS Chain, Sequences

CONSTANTS
    Peers,
    HeaderItems,   \* blocks whose header a user may fetch
    TxItems,       \* transactions that a user may fetch
    TxBlocks,      \* TxBlocks[t]: the blocks of the tree that contain t
    Matched,       \* blocks that the filter protocol wants to have proved
    ProofLimit,    \* GET_BLOCKS_PROOF_LIMIT, GET_TRANSACTIONS_PROOF_LIMIT (1000)
    ServerHeads,   \* ServerHeads[p]: heads that peer p moves through, by difficulty
    MaxAsks,       \* bound: calls of fetch_header and fetch_transaction
    MaxTimeouts,   \* bound: requests that time out
    MaxClashes,    \* bound: clashes over a slot before the filter task rests
    NoPeer

Items == HeaderItems \cup TxItems

ASSUME FetchAssumption ==
    /\ HeaderItems \subseteq Blocks /\ Matched \subseteq Blocks
    /\ HeaderItems \cap TxItems = {}
    /\ TxBlocks \in [TxItems -> SUBSET Blocks]
    /\ ServerHeads \in [Peers -> SUBSET Blocks]
    /\ ProofLimit \in Nat \ {0} /\ MaxAsks \in Nat /\ MaxTimeouts \in Nat /\ MaxClashes \in Nat
    /\ IsFiniteSet(HeaderItems) /\ IsFiniteSet(TxItems) /\ IsFiniteSet(Matched)
    /\ NoPeer \notin Peers

VARIABLES
    tip,        \* the stored tip header
    proved,     \* proved[p]: the last header proved by p, Genesis before that
    fetching,   \* fetching_headers and fetching_txs: item -> FetchInfo
    stored,     \* items whose header or transaction is in the storage
    blocksSlot, \* blocks_proof_request of each peer
    txsSlot,    \* txs_proof_request of each peer
    unproved,   \* matched_blocks that are not proved
    wire,       \* wire[p]: requests of p that are not answered, in order
    task,       \* where the task of the light client protocol is
    filterTask, \* the filter protocol: the peer it is about to ask, or NoPeer, and the tip it has read
    asks,       \* calls of the fetch RPCs made
    timeouts,   \* requests that timed out
    closing,    \* peers that are being disconnected
    clashes     \* history variable: how often a slot was set while it was in use

peerVars == <<proved, closing>>
vars == <<tip, peerVars, fetching, stored, blocksSlot, txsSlot, unproved, wire,
          task, filterTask, asks, timeouts, clashes>>

NoRequest == [kind |-> "none", items |-> {}, last |-> Genesis, getBlocks |-> FALSE]
NoFilterTask == [peer |-> NoPeer, last |-> Genesis]
Idle == [at |-> "idle", peer |-> NoPeer, best |-> {}, todo |-> {}, items |-> {}, missing |-> {}]

\* FetchInfo, and FetchInfo::new_add; the time stamps are kept as whether a request was sent.
FetchInfo == [sent : BOOLEAN, timeout : BOOLEAN, missing : BOOLEAN]
NewAdd == [sent |-> FALSE, timeout |-> FALSE, missing |-> FALSE]

\* Mutant: what timed out is not sent again.
ToFetchNew(S) == {i \in DOMAIN fetching \cap S : ~fetching[i].sent}

\* get_headers_to_fetch, get_txs_to_fetch.
ToFetch(S) == {i \in DOMAIN fetching \cap S : ~fetching[i].sent \/ fetching[i].timeout}

\* get_best_proved_peers(tip): the tip is the last header of their prove state
\* or one of the headers before it.
BestPeers == {p \in Peers : proved[p] # Genesis /\ tip \in {proved[p]} \cup LastHeaders(proved[p])}

\* A chunk of at most ProofLimit items.
Chunks(S) == {c \in SUBSET S : Cardinality(c) = IF Cardinality(S) < ProofLimit
                                                 THEN Cardinality(S) ELSE ProofLimit}

\* Mutant: the items of the slot keep waiting.
MarkNoTimeout(f, S) == f

\* Mutant: an entry is made for every item of the slot.
MarkTimeoutInserts(f, S) ==
    [i \in DOMAIN f \cup S |-> IF i \in S THEN [NewAdd EXCEPT !.timeout = TRUE] ELSE f[i]]

\* mark_fetching_headers_timeout, mark_fetching_txs_timeout: the items of the
\* request in the slot of a peer.
MarkTimeout(f, S) == [i \in DOMAIN f |-> IF i \in S THEN [f[i] EXCEPT !.timeout = TRUE] ELSE f[i]]

\* fetching_idle_headers, fetching_idle_txs.
MarkSent(f, S) ==
    [i \in DOMAIN f |-> IF i \in S THEN [f[i] EXCEPT !.sent = TRUE, !.timeout = FALSE] ELSE f[i]]

\* mark_fetching_headers_missing, mark_fetching_txs_missing.
MarkMissing(f, S) == [i \in DOMAIN f |-> IF i \in S THEN [f[i] EXCEPT !.missing = TRUE] ELSE f[i]]

\* Mutant: what the peer does not have is dropped as well.
RemoveMissingToo(f, found, missing) == [i \in DOMAIN f \ (found \cup missing) |-> f[i]]

\* remove_fetching_header, remove_fetching_transaction: the items found leave
\* the queue; those that the peer does not have stay.
RemoveFetching(f, found, missing) == [i \in DOMAIN f \ found |-> f[i]]

-----------------------------------------------------------------------------
Init ==
    /\ tip = Genesis
    /\ proved = [p \in Peers |-> Genesis]
    /\ fetching = [i \in {} |-> NewAdd] /\ stored = {}
    /\ blocksSlot = [p \in Peers |-> NoRequest] /\ txsSlot = [p \in Peers |-> NoRequest]
    /\ unproved = Matched
    /\ wire = [p \in Peers |-> <<>>]
    /\ task = Idle /\ filterTask = NoFilterTask
    /\ asks = 0 /\ timeouts = 0 /\ closing = {} /\ clashes = 0

\* fetch_header, fetch_transaction: nothing for an item that is stored or in
\* the queue, except that one reported as missing is put there anew.
Rpc(i) ==
    /\ asks < MaxAsks
    /\ i \notin stored
    /\ i \in DOMAIN fetching => fetching[i].missing
    /\ asks' = asks + 1
    /\ fetching' = [j \in DOMAIN fetching \cup {i} |-> IF j = i THEN NewAdd ELSE fetching[j]]
    /\ UNCHANGED <<tip, peerVars, stored, blocksSlot, txsSlot, unproved, wire, task,
                   filterTask, timeouts, clashes>>

\* Where fetch_headers_txs goes on with the peers B and the headers H left.
Continue(B, H) ==
    IF H # {} THEN [Idle EXCEPT !.at = "headers", !.best = B, !.todo = H]
    ELSE IF ToFetch(TxItems) # {} THEN [Idle EXCEPT !.at = "txs", !.best = B, !.todo = ToFetch(TxItems)]
    ELSE Idle

\* fetch_headers_txs begins: its peers and its headers are read once.
FetchStart ==
    /\ task.at = "idle" /\ DOMAIN fetching # {} /\ BestPeers # {}
    /\ ToFetch(Items) # {}
    /\ task' = Continue(BestPeers, ToFetch(HeaderItems))
    /\ UNCHANGED <<tip, peerVars, fetching, stored, blocksSlot, txsSlot, unproved, wire,
                   filterTask, asks, timeouts, clashes>>

\* The next chunk of headers and a peer whose slot is free.
FetchPick ==
    /\ task.at = "headers"
    /\ \E p \in {p \in task.best : blocksSlot[p] = NoRequest}, c \in Chunks(task.todo) :
          task' = [task EXCEPT !.at = "send", !.peer = p, !.items = c]
    /\ UNCHANGED <<tip, peerVars, fetching, stored, blocksSlot, txsSlot, unproved, wire,
                   filterTask, asks, timeouts, clashes>>

\* All peers are busy: the transactions are next.
FetchHeadersBusy ==
    /\ task.at = "headers"
    /\ \A p \in task.best : blocksSlot[p] # NoRequest
    /\ task' = Continue(task.best, {})
    /\ UNCHANGED <<tip, peerVars, fetching, stored, blocksSlot, txsSlot, unproved, wire,
                   filterTask, asks, timeouts, clashes>>

Request(kind, S, last, get) == [kind |-> kind, items |-> S, last |-> last, getBlocks |-> get]

\* update_blocks_proof_request and the message; the slot may be in use again by
\* now.
SendBlocksRequest(p, r) ==
    /\ blocksSlot' = [blocksSlot EXCEPT ![p] = r]
    /\ wire' = [wire EXCEPT ![p] = Append(@, r)]
    /\ clashes' = IF blocksSlot[p] = NoRequest THEN clashes ELSE clashes + 1

FetchSend ==
    /\ task.at = "send"
    /\ SendBlocksRequest(task.peer, Request("blocksProof", task.items, tip, FALSE))
    /\ fetching' = MarkSent(fetching, task.items)
    /\ task' = Continue(task.best, task.todo \ task.items)
    /\ UNCHANGED <<tip, peerVars, stored, txsSlot, unproved, filterTask, asks, timeouts>>

\* The chunks of transactions; only this task uses their slots.
FetchTxs ==
    /\ task.at = "txs"
    /\ \/ /\ \E p \in {p \in task.best : txsSlot[p] = NoRequest}, c \in Chunks(task.todo) :
                LET r == Request("txsProof", c, tip, FALSE)
                IN  /\ txsSlot' = [txsSlot EXCEPT ![p] = r]
                    /\ wire' = [wire EXCEPT ![p] = Append(@, r)]
                    /\ fetching' = MarkSent(fetching, c)
                    /\ task' = IF task.todo = c THEN Idle ELSE [task EXCEPT !.todo = @ \ c]
       \/ /\ \A p \in task.best : txsSlot[p] # NoRequest
          /\ task' = Idle
          /\ UNCHANGED <<txsSlot, wire, fetching>>
    /\ UNCHANGED <<tip, peerVars, stored, blocksSlot, unproved, filterTask, asks, timeouts, clashes>>

-----------------------------------------------------------------------------
(* prove_or_download_matched_blocks, in the task of the filter protocol.     *)

FilterPick ==
    /\ clashes < MaxClashes
    /\ filterTask = NoFilterTask /\ unproved \cap Ancestors[tip] # {}
    /\ \E p \in BestPeers : blocksSlot[p] = NoRequest /\ filterTask' = [peer |-> p, last |-> tip]
    /\ UNCHANGED <<tip, peerVars, fetching, stored, blocksSlot, txsSlot, unproved, wire,
                   task, asks, timeouts, clashes>>

\* The peer may be gone by now: then there is no slot to set.
FilterSend ==
    /\ filterTask # NoFilterTask
    /\ IF proved[filterTask.peer] = Genesis
       THEN UNCHANGED <<blocksSlot, wire, clashes>>
       ELSE \E c \in Chunks(unproved \cap Ancestors[filterTask.last]) \ {{}} :
                SendBlocksRequest(filterTask.peer, Request("blocksProof", c, filterTask.last, TRUE))
    /\ filterTask' = NoFilterTask
    /\ UNCHANGED <<tip, peerVars, fetching, stored, txsSlot, unproved, task, asks, timeouts>>

-----------------------------------------------------------------------------
(* The answers.                                                              *)

\* External: a full node that has request.last on its chain proves what is on
\* that chain and names the rest as missing; otherwise it sends its tip only.
\* It may have moved on since its last state was proved.
OnChain(i, last) == IF i \in TxItems THEN TxBlocks[i] \cap Ancestors[last] # {}
                                     ELSE i \in Ancestors[last]
HeadsFrom(p) == {h \in ServerHeads[p] : TotalDifficulty[h] >= TotalDifficulty[proved[p]]}

Answers(p) ==
    LET r == Head(wire[p])
    IN  {IF r.last \in Ancestors[h]
         THEN [kind |-> r.kind, last |-> r.last, found |-> {i \in r.items : OnChain(i, r.last)},
               missing |-> {i \in r.items : ~OnChain(i, r.last)}]
         ELSE [kind |-> r.kind, last |-> h, found |-> {}, missing |-> {}] :
            h \in HeadsFrom(p)}

\* check_block_hashes, check_tx_hashes.
CheckHashes(r, m) ==
    /\ Cardinality(r.items) = Cardinality(m.found) + Cardinality(m.missing)
    /\ r.items \subseteq m.found \cup m.missing

\* execute_internally with the request r of the slot: what is found leaves the
\* queue, and is stored in the second step; a new last state makes the items
\* time out; every other answer changes nothing here.  A transaction takes the
\* header of its block with it.
Found(m) ==
    m.found \cup {b \in HeaderItems : \E t \in m.found \cap TxItems :
                      t \in DOMAIN fetching /\ b \in TxBlocks[t] \cap Ancestors[m.last]}

Receive(p, r, m) ==
    LET accepted == r # NoRequest /\ m.last = r.last /\ CheckHashes(r, m)
        newState == r # NoRequest /\ m.last # r.last /\ m.found \cup m.missing = {}
    IN  /\ wire' = [wire EXCEPT ![p] = Tail(@)]
        /\ fetching' = IF accepted THEN RemoveFetching(fetching, Found(m), m.missing)
                       ELSE IF newState THEN MarkTimeout(fetching, r.items)
                       ELSE fetching
        /\ unproved' = IF accepted /\ r.getBlocks THEN unproved \ m.found ELSE unproved
        /\ task' = [Idle EXCEPT !.at = m.kind, !.peer = p,
                       !.items = IF accepted THEN Found(m) \cap DOMAIN fetching ELSE {},
                       !.missing = IF accepted THEN m.missing ELSE {}]
        /\ UNCHANGED <<tip, peerVars, stored, blocksSlot, txsSlot, filterTask, asks, timeouts,
                       clashes>>

\* The handler of an answer to a request for matched blocks waits for the lock
\* that the filter task holds.
SendBlocksProof(p) ==
    /\ task.at = "idle" /\ wire[p] # <<>>
    /\ \E m \in Answers(p) :
          /\ m.kind = "blocksProof"
          /\ blocksSlot[p].getBlocks => filterTask = NoFilterTask
          /\ Receive(p, blocksSlot[p], m)

SendTransactionsProof(p) ==
    /\ task.at = "idle" /\ wire[p] # <<>>
    /\ \E m \in Answers(p) : m.kind = "txsProof" /\ Receive(p, txsSlot[p], m)

\* The rest of the handler: add_fetched_header or add_fetched_tx, the missing
\* marks, and the slot is free, whatever the answer was.
HandlerEnds ==
    /\ task.at \in {"blocksProof", "txsProof"}
    /\ stored' = stored \cup task.items
    /\ fetching' = MarkMissing(fetching, task.missing)
    /\ IF task.at = "blocksProof"
       THEN blocksSlot' = [blocksSlot EXCEPT ![task.peer] = NoRequest] /\ UNCHANGED txsSlot
       ELSE txsSlot' = [txsSlot EXCEPT ![task.peer] = NoRequest] /\ UNCHANGED blocksSlot
    /\ task' = Idle
    /\ UNCHANGED <<tip, peerVars, unproved, wire, filterTask, asks, timeouts, clashes>>

-----------------------------------------------------------------------------
(* Peers come, go, time out and follow their chains.                         *)

\* refresh_all_peers: a peer with a request that is too old is disconnected,
\* and what it was asked for may be asked elsewhere at once.
Timeout(p) ==
    /\ task.at = "idle" /\ timeouts < MaxTimeouts /\ p \notin closing
    /\ blocksSlot[p] # NoRequest \/ txsSlot[p] # NoRequest
    /\ timeouts' = timeouts + 1
    /\ closing' = closing \cup {p}
    /\ fetching' = MarkTimeout(fetching, blocksSlot[p].items \cup txsSlot[p].items)
    /\ UNCHANGED <<tip, proved, stored, blocksSlot, txsSlot, unproved, wire, task,
                   filterTask, asks, clashes>>

\* disconnected, remove_peer: the slots go with the peer.  It comes back as a
\* new peer, which has to prove its state again.
Disconnected(p) ==
    /\ task.at = "idle" /\ p \in closing
    /\ closing' = closing \ {p}
    /\ fetching' = MarkTimeout(fetching, blocksSlot[p].items \cup txsSlot[p].items)
    /\ blocksSlot' = [blocksSlot EXCEPT ![p] = NoRequest]
    /\ txsSlot' = [txsSlot EXCEPT ![p] = NoRequest]
    /\ proved' = [proved EXCEPT ![p] = Genesis]
    /\ wire' = [wire EXCEPT ![p] = <<>>]
    /\ UNCHANGED <<tip, stored, unproved, task, filterTask, asks, timeouts, clashes>>

\* The proof of a last state, with commit_prove_state: the heavier chain is
\* stored.
Prove(p) ==
    /\ task.at = "idle" /\ p \notin closing /\ filterTask.peer # p
    /\ \E h \in HeadsFrom(p) \ {proved[p]} :
          /\ proved' = [proved EXCEPT ![p] = h]
          /\ tip' = IF TotalDifficulty[h] > TotalDifficulty[tip] THEN h ELSE tip
    /\ UNCHANGED <<closing, fetching, stored, blocksSlot, txsSlot, unproved, wire, task,
                   filterTask, asks, timeouts, clashes>>

Next ==
    \/ \E i \in Items : Rpc(i)
    \/ FetchStart \/ FetchPick \/ FetchHeadersBusy \/ FetchSend \/ FetchTxs
    \/ FilterPick \/ FilterSend
    \/ HandlerEnds
    \/ \E p \in Peers :
          SendBlocksProof(p) \/ SendTransactionsProof(p) \/ Timeout(p) \/ Disconnected(p)
            \/ Prove(p)

Spec == Init /\ [][Next]_vars

\* The task of the light client protocol runs a timer or a handler to its end.
TaskGoesOn == FetchPick \/ FetchHeadersBusy \/ FetchSend \/ FetchTxs \/ HandlerEnds

\* The timers fire again and again, full nodes answer, connections that are
\* closed are reported, and every peer is asked for a proof of its last state.
FairSpec ==
    /\ Spec
    /\ WF_vars(FetchStart) /\ WF_vars(TaskGoesOn) /\ WF_vars(FilterPick \/ FilterSend)
    /\ \A p \in Peers : /\ SF_vars(SendBlocksProof(p) \/ SendTransactionsProof(p))
                         /\ SF_vars(Disconnected(p)) /\ SF_vars(Prove(p))

-----------------------------------------------------------------------------
(* Properties.                                                               *)

Requests == [kind : {"none", "blocksProof", "txsProof"}, items : SUBSET (Items \cup Matched),
             last : Blocks, getBlocks : BOOLEAN]

Tasks == [at : {"idle", "headers", "send", "txs", "blocksProof", "txsProof"},
          peer : Peers \cup {NoPeer}, best : SUBSET Peers, todo : SUBSET Items,
          items : SUBSET Items, missing : SUBSET (Items \cup Matched)]

\* The types of the queue, the slots and the tasks; a task that sends or handles
\* an answer knows its peer.
TypeOK ==
    /\ tip \in Blocks /\ proved \in [Peers -> Blocks]
    /\ DOMAIN fetching \subseteq Items
    /\ fetching \in [DOMAIN fetching -> FetchInfo]
    /\ stored \subseteq Items
    /\ blocksSlot \in [Peers -> Requests] /\ txsSlot \in [Peers -> Requests]
    /\ unproved \subseteq Matched
    /\ wire \in [Peers -> Seq(Requests)]
    /\ task \in Tasks
    /\ task.at \in {"send", "blocksProof", "txsProof"} => task.peer \in Peers
    /\ filterTask \in [peer : Peers \cup {NoPeer}, last : Blocks]
    /\ filterTask # NoFilterTask => filterTask.peer \in Peers
    /\ asks \in Nat /\ timeouts \in Nat /\ closing \subseteq Peers /\ clashes \in Nat

\* An item that is being fetched is someone's business: when it is neither
\* waiting to be sent nor reported missing, some peer has it in its slot, or the
\* task is about to send it or to end a handler.  Otherwise nothing would ever
\* time it out.  This can only go wrong after a slot was set while in use.
NobodyWaits(i) ==
    /\ fetching[i].sent /\ ~fetching[i].timeout /\ ~fetching[i].missing
    /\ \A p \in Peers : i \notin blocksSlot[p].items /\ i \notin txsSlot[p].items

FetchIsWatched == \A i \in DOMAIN fetching : NobodyWaits(i) => clashes > 0

\* The status that the fetch RPCs would return.  What a handler has taken from
\* the queue and is about to store counts as fetched.
Status(i) ==
    IF i \in stored \cup task.items /\ (i \in stored \/ task.at \in {"blocksProof", "txsProof"})
    THEN "fetched"
    ELSE IF i \notin DOMAIN fetching THEN "none"
    ELSE IF fetching[i].missing THEN "notFound"
    ELSE IF fetching[i].sent THEN "fetching" ELSE "added"

Life == INSTANCE FetchLife WITH Items <- Items, status <- [i \in Items |-> Status(i)]

\* The queue implements the life of a fetch that FetchLife promises, with every
\* interleaving of the RPCs, the tasks and the peers.
LifeSpec == Life!Spec

\* Whatever peers switch, time out or leave, again and again nothing is left in
\* the queue that is not reported as missing, if no slot is ever set while in
\* use.  By LifeSpec, what has left the queue is fetched.
EventuallySettled == []<>(\A i \in DOMAIN fetching : fetching[i].missing \/ clashes > 0)
=============================================================================
