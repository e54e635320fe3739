----------------------------- MODULE PeerState -----------------------------
(***************************************************************************)
(* The state of every peer in the light client protocol (the PeerState     *)
(* machine of peers.rs), with the prove states and requests it carries, and *)
(* the stored last state that the proofs move.  One task runs all of these  *)
(* handlers; the order of messages, of the refresh timer and of             *)
(* disconnections is open.  FilterSync sees the headers of a prove state as *)
(* a window of its chain; here they are the list that the code computes.    *)
(***************************************************************************)
EXTENDS Chain, Sequences, SequencesExt

CONSTANTS
    Peers,        \* peer indexes
    NoBlock,      \* "no header"
    Heads,        \* blocks that full nodes announce as their last state
    Jitter,       \* whether a refresh may come later than its period
    MaxLosses     \* bound: restarts of the client and disconnected peers

ASSUME PeerStateAssumption ==
    /\ NoBlock \notin Blocks
    /\ Heads \subseteq Blocks \ {Genesis}
    /\ Jitter \in BOOLEAN /\ MaxLosses \in Nat

VARIABLES
    state,    \* peer -> [name, last, prove, request]
    tip,      \* LAST_STATE
    lastN,    \* LAST_N_HEADERS, in the stored order
    aged,     \* peers whose last state is older than one refresh period
    todo,     \* peers that refresh_all_peers has still to ask for a proof
    losses    \* losses left

vars == <<state, tip, lastN, aged, todo, losses>>

NoProve == [last |-> NoBlock, reorg |-> <<>>, headers |-> <<>>]

\* A ProveRequest; `open` as long as an answer is to come.
ProveRequest(last, start, skip, long) ==
    [last |-> last, start |-> start, skipTau |-> skip, longFork |-> long, open |-> TRUE]
NoRequest == [ProveRequest(NoBlock, NoBlock, FALSE, FALSE) EXCEPT !.open = FALSE]

Absent == [name |-> "Absent", last |-> NoBlock, prove |-> NoProve, request |-> NoRequest]
Initialized == [Absent EXCEPT !.name = "Initialized"]

-----------------------------------------------------------------------------
(* The transitions of PeerState *)

\* peer.state = peer.state.take().f()?: when f has no case for the state, the
\* peer is left Initialized and forgets everything.
Transition(table, s) ==
    IF s.name \in DOMAIN table THEN [s EXCEPT !.name = table[s.name]] ELSE Initialized

\* request_last_state.
RequestLastState(s) ==
    Transition([Initialized |-> "RequestFirstLastState",
                OnlyHasLastState |-> "OnlyHasLastState",
                Ready |-> "RequestNewLastState"], s)

\* receive_last_state.
ReceiveLastState(s, b) ==
    LET next == Transition([RequestFirstLastState |-> "OnlyHasLastState",
                            RequestNewLastState |-> "Ready",
                            OnlyHasLastState |-> "OnlyHasLastState",
                            RequestFirstLastStateProof |-> "RequestFirstLastStateProof",
                            Ready |-> "Ready",
                            RequestNewLastStateProof |-> "RequestNewLastStateProof"], s)
    IN  IF next = Initialized THEN next ELSE [next EXCEPT !.last = b]

\* request_last_state_proof.
RequestLastStateProof(s, request) ==
    LET next == Transition([OnlyHasLastState |-> "RequestFirstLastStateProof",
                            Ready |-> "RequestNewLastStateProof",
                            RequestFirstLastStateProof |-> "RequestFirstLastStateProof",
                            RequestNewLastStateProof |-> "RequestNewLastStateProof"], s)
    IN  IF next = Initialized THEN next ELSE [next EXCEPT !.request = request]

\* Mutant: the request stays.
ReceiveLastStateProofOnly(s, prove) ==
    LET next == Transition([OnlyHasLastState |-> "Ready",
                            RequestFirstLastStateProof |-> "Ready",
                            Ready |-> "Ready",
                            RequestNewLastStateProof |-> "Ready"], s)
    IN  IF next = Initialized THEN next ELSE [next EXCEPT !.prove = prove]

\* receive_last_state_proof.
ReceiveLastStateProof(s, prove) ==
    LET next == Transition([OnlyHasLastState |-> "Ready",
                            RequestFirstLastStateProof |-> "Ready",
                            Ready |-> "Ready",
                            RequestNewLastStateProof |-> "Ready"], s)
    IN  IF next = Initialized THEN next
        ELSE [next EXCEPT !.prove = prove, !.request = NoRequest]

\* Mutant: a peer that was asked for its last state is asked again.
RequireNewLastStateAgain(s, old) ==
    s.name = "Initialized" \/ (s.name # "Absent" /\ s.last # NoBlock /\ s.request = NoRequest)

\* require_new_last_state, for a last state that is old or not.
RequireNewLastState(s, old) ==
    s.name = "Initialized" \/ (s.name \in {"OnlyHasLastState", "Ready"} /\ old)

\* Mutant: the first proof is only asked for on arrival of the last state.
RequireNewLastStateProofReady(s) == s.name = "Ready" /\ s.prove.last # s.last

\* require_new_last_state_proof.
RequireNewLastStateProof(s) ==
    s.name = "OnlyHasLastState" \/ (s.name = "Ready" /\ s.prove.last # s.last)

-----------------------------------------------------------------------------
(* Requests and the headers of their answers *)

\* The first stored header that may serve as an older start, or the start.
RequestStart(start, last) ==
    LET fits(h) == Number[h] < Number[start] /\ Number[last] <= Number[h] + LastN
    IN  IF Number[last] - Number[start] <= LastN /\ \E i \in DOMAIN lastN : fits(lastN[i])
        THEN LET i == CHOOSE j \in DOMAIN lastN :
                         fits(lastN[j]) /\ \A k \in 1 .. j - 1 : ~ fits(lastN[k])
             IN  lastN[i]
        ELSE start

\* build_prove_request_content: the requests for `last`, none when the prove
\* state or the stored tip is not below it.
BuildProveRequest(s, last, skip) ==
    LET start == IF s.prove = NoProve THEN tip ELSE s.prove.last
    IN  IF TotalDifficulty[start] > TotalDifficulty[last] \/ Number[start] >= Number[last]
        THEN {}
        ELSE {ProveRequest(last, RequestStart(start, last), skip, FALSE)}

\* The blocks i .. j of the chain that ends in b.
Path(b, i, j) ==
    [k \in 1 .. j - i + 1 |-> CHOOSE a \in Ancestors[b] : Number[a] = i + k - 1]

\* What a full node answers: the reorg headers (none when the start is on its
\* chain), and at least the last LastN headers, or all from the start on.
AnsweredReorg(r) ==
    IF r.start \in Ancestors[r.last]
    THEN <<>>
    ELSE Path(r.last, MaxOf({1, Number[r.start] - LastN}), Number[r.start] - 1)
IsSampled(r) == Number[r.last] - Number[r.start] > LastN
AnsweredLastN(r) ==
    Path(r.last, IF IsSampled(r) THEN Number[r.last] - LastN ELSE Number[r.start],
         Number[r.last] - 1)

\* The last n elements of a list (all of them when it is shorter).
Suffix(list, n) == SubSeq(list, MaxOf({1, Len(list) - n + 1}), Len(list))

\* last_headers of the new prove state: fewer than LastN new headers are filled
\* up from the reorg headers or from the previous prove state.
NewLastHeaders(s) ==
    LET reorg == AnsweredReorg(s.request)
        new   == AnsweredLastN(s.request)
        old   == IF reorg = <<>> THEN s.prove.headers ELSE reorg
    IN  IF Len(new) >= LastN THEN new ELSE Suffix(old, LastN - Len(new)) \o new

\* Mutant: one header too many is kept.
NewChildLonger(prove, b) ==
    LET kept == IF Len(prove.headers) > LastN THEN Tail(prove.headers) ELSE prove.headers
    IN  [last |-> b, reorg |-> prove.reorg, headers |-> Append(kept, prove.last)]

\* ProveState::new_child.
NewChild(prove, b) ==
    LET kept == IF Len(prove.headers) >= LastN THEN Tail(prove.headers) ELSE prove.headers
    IN  [last |-> b, reorg |-> prove.reorg, headers |-> Append(kept, prove.last)]

-----------------------------------------------------------------------------
(* Handlers *)

\* get_last_state_proof on the state s: nothing when the last state is proved
\* or requested already, a copy when another peer has proved it, else a request.
GetLastStateProof(s) ==
    LET donors == {q \in Peers : state[q].prove.last = s.last}
    IN  IF s.last \in {NoBlock, s.prove.last, s.request.last}
        THEN {s}
        ELSE IF donors # {}
        THEN {ReceiveLastStateProof(s, state[q].prove) : q \in donors}
        ELSE IF BuildProveRequest(s, s.last, FALSE) = {}
        THEN {s}
        ELSE {RequestLastStateProof(s, r) : r \in BuildProveRequest(s, s.last, FALSE)}

\* connected: add_peer and get_last_state.
Connected(p) ==
    /\ state[p] = Absent
    /\ state' = [state EXCEPT ![p] = RequestLastState(Initialized)]
    /\ UNCHANGED <<tip, lastN, aged, todo, losses>>

Disconnected(p) ==
    /\ losses > 0 /\ state[p] # Absent
    /\ losses' = losses - 1
    /\ state' = [state EXCEPT ![p] = Absent]
    /\ aged' = aged \ {p}
    /\ UNCHANGED <<tip, lastN, todo>>

\* The process starts again with what RocksDB holds.
Restart ==
    /\ losses > 0
    /\ losses' = losses - 1
    /\ state' = [p \in Peers |-> Absent]
    /\ aged' = {}
    /\ UNCHANGED <<tip, lastN, todo>>

\* A full node only moves on to heavier chains.
MayAnnounce(p, b) ==
    /\ state[p] # Absent
    /\ state[p].last # NoBlock => TotalDifficulty[b] > TotalDifficulty[state[p].last]

\* SendLastStateProcess: the first last state of a peer.
SendFirstLastState(p, b) ==
    /\ state[p].last = NoBlock
    /\ \E s \in GetLastStateProof(ReceiveLastState(state[p], b)) :
          state' = [state EXCEPT ![p] = s]
    /\ UNCHANGED <<tip, lastN>>

\* SendLastStateProcess: a new last state; a child of the proved header extends
\* the prove state, and the stored one when it is heavier.
SendNextLastState(p, b) ==
    LET s     == ReceiveLastState(state[p], b)
        child == NewChild(state[p].prove, b)
    IN  /\ state[p].last # NoBlock
        /\ \/ /\ state[p].prove # NoProve /\ IsParentOf(state[p].prove.last, b)
              /\ state' = [state EXCEPT ![p] = ReceiveLastStateProof(s, child)]
              /\ IF TotalDifficulty[b] > TotalDifficulty[tip]
                 THEN tip' = b /\ lastN' = child.headers
                 ELSE UNCHANGED <<tip, lastN>>
           \/ /\ state[p].prove = NoProve \/ ~ IsParentOf(state[p].prove.last, b)
              /\ state' = [state EXCEPT ![p] = s]
              /\ UNCHANGED <<tip, lastN>>

SendLastState(p, b) ==
    /\ MayAnnounce(p, b)
    /\ SendFirstLastState(p, b) \/ SendNextLastState(p, b)
    /\ aged' = aged \ {p}
    /\ UNCHANGED <<todo, losses>>

\* process_last_state from an answer without proof: the full node has left the
\* chain of the request.  After GetLastStateProof a new request follows; after
\* GetBlocksProof and GetTransactionsProof it does not.
ProofWithNewState(p, b) ==
    LET s == ReceiveLastState(state[p], b)
    IN  /\ MayAnnounce(p, b)
        /\ \/ /\ state[p].request.open
              /\ state[p].request.last \notin Ancestors[b]
              /\ \E t \in GetLastStateProof(s) : state' = [state EXCEPT ![p] = t]
           \/ /\ state[p].prove # NoProve
              /\ state[p].prove.last \notin Ancestors[b]
              /\ state' = [state EXCEPT ![p] = s]
        /\ aged' = aged \ {p}
        /\ UNCHANGED <<tip, lastN, todo, losses>>

\* The number of a reorg header is looked up among the stored ones, where the
\* later of two headers with one number wins.
StoredHash(n) ==
    LET at == {i \in DOMAIN lastN : Number[lastN[i]] = n}
    IN  IF at = {} THEN NoBlock ELSE lastN[MaxOf(at)]
IsLongFork(r) ==
    /\ TotalDifficulty[r.last] > TotalDifficulty[tip]
    /\ AnsweredReorg(r) # <<>>
    /\ \A i \in DOMAIN AnsweredReorg(r) :
          AnsweredReorg(r)[i] # StoredHash(Number[AnsweredReorg(r)[i]])

\* commit_prove_state of a complete and valid proof.
CommitProveState(p) ==
    LET r     == state[p].request
        prove == [last |-> r.last, reorg |-> AnsweredReorg(r),
                  headers |-> NewLastHeaders(state[p])]
    IN  /\ ~ IsLongFork(r)
        /\ state' = [state EXCEPT ![p] = ReceiveLastStateProof(state[p], prove)]
        /\ IF TotalDifficulty[r.last] > TotalDifficulty[tip]
           THEN tip' = r.last /\ lastN' = prove.headers
           ELSE UNCHANGED <<tip, lastN>>

\* A long fork: the whole chain has to be proved, and then the client panics.
AskFromGenesis(p) ==
    LET r == state[p].request
    IN  /\ IsLongFork(r)
        /\ state' = [state EXCEPT ![p] = RequestLastStateProof(state[p],
              ProveRequest(r.last, Genesis, FALSE, TRUE))]
        /\ UNCHANGED <<tip, lastN>>

\* The samples do not bear out the difficulty (verify_tau): ask once more,
\* without that check; when no request can be built the old one stays, without
\* an answer to come, until its timeout.
AskAgainWithoutTau(p) ==
    LET r     == state[p].request
        again == BuildProveRequest(state[p], r.last, TRUE)
    IN  /\ IsSampled(r) /\ ~ r.skipTau
        /\ \E next \in IF again = {} THEN {[r EXCEPT !.open = FALSE]} ELSE again :
              state' = [state EXCEPT ![p] = RequestLastStateProof(state[p], next)]
        /\ UNCHANGED <<tip, lastN>>

\* SendLastStateProofProcess on the answer to the request.
SendLastStateProof(p) ==
    /\ state[p].request.open /\ ~ state[p].request.longFork
    /\ CommitProveState(p) \/ AskFromGenesis(p) \/ AskAgainWithoutTau(p)
    /\ UNCHANGED <<aged, todo, losses>>

\* refresh_all_peers, first loop: GetLastState to the peers with an old last
\* state; then the peers that need a proof are collected.
RefreshAllPeers ==
    \E old \in IF Jitter THEN SUBSET Peers ELSE {aged} :
        LET asked == {p \in Peers : RequireNewLastState(state[p], p \in old)}
        IN  /\ state' = [p \in Peers |->
                  IF p \in asked THEN RequestLastState(state[p]) ELSE state[p]]
            /\ todo' = {p \in Peers : RequireNewLastStateProof(state'[p])}
            /\ aged' = {p \in Peers : state[p].last # NoBlock}
            /\ UNCHANGED <<tip, lastN, losses>>

\* Second loop: the peers come in the order of a hash map.
RefreshProof(p) ==
    /\ p \in todo
    /\ todo' = todo \ {p}
    /\ \E s \in GetLastStateProof(state[p]) : state' = [state EXCEPT ![p] = s]
    /\ UNCHANGED <<tip, lastN, aged, losses>>

-----------------------------------------------------------------------------
(* The specification *)

Init ==
    /\ state = [p \in Peers |-> Absent]
    /\ tip = Genesis /\ lastN = <<>>
    /\ aged = {} /\ todo = {}
    /\ losses = MaxLosses

\* The task is between two handlers.
Idle == todo = {}

Next ==
    \/ /\ Idle
       /\ \/ \E p \in Peers, b \in Heads : SendLastState(p, b) \/ ProofWithNewState(p, b)
          \/ \E p \in Peers : Connected(p) \/ Disconnected(p) \/ SendLastStateProof(p)
          \/ Restart \/ RefreshAllPeers
    \/ \E p \in Peers : RefreshProof(p)

Spec == Init /\ [][Next]_vars

\* Full nodes connect, announce the heaviest chain and answer, and the timer
\* fires; the task takes its messages in turn, whatever comes in between.
Fairness ==
    /\ WF_vars(Idle /\ RefreshAllPeers)
    /\ \A p \in Peers :
          /\ SF_vars(Idle /\ (Connected(p) \/ \E b \in Heads : SendLastState(p, b)))
          /\ SF_vars(Idle /\ SendLastStateProof(p))
          /\ WF_vars(RefreshProof(p))

FairSpec == Spec /\ Fairness

-----------------------------------------------------------------------------
(* Properties *)

Names == {"Absent", "RequestFirstLastState", "OnlyHasLastState", "RequestFirstLastStateProof",
          "Ready", "RequestNewLastState", "RequestNewLastStateProof"}
ProveStates == [last : Blocks, reorg : Seq(Blocks), headers : Seq(Blocks)]
Requests == [last : Blocks, start : Blocks, skipTau : BOOLEAN, longFork : BOOLEAN, open : BOOLEAN]
PeerStates == [name : Names, last : Blocks \cup {NoBlock}, prove : ProveStates \cup {NoProve},
               request : Requests \cup {NoRequest}]

\* What a peer carries fits its name in the diagram of peers.rs, and a pending
\* request is for a heavier header than the proved one.
FitsName(s) ==
    /\ (s.last # NoBlock) <=> s.name \notin {"Absent", "RequestFirstLastState"}
    /\ (s.prove # NoProve) <=>
          s.name \in {"Ready", "RequestNewLastState", "RequestNewLastStateProof"}
    /\ (s.request # NoRequest) <=>
          s.name \in {"RequestFirstLastStateProof", "RequestNewLastStateProof"}
    /\ (s.prove # NoProve /\ s.request # NoRequest) =>
          TotalDifficulty[s.prove.last] < TotalDifficulty[s.request.last]

\* The types of the state; no peer is left Initialized by a transition that has
\* no case for its state.
TypeOK ==
    /\ tip \in Blocks /\ lastN \in Seq(Blocks)
    /\ aged \subseteq Peers /\ todo \subseteq Peers /\ losses \in 0 .. MaxLosses
    /\ state \in [Peers -> PeerStates]
    /\ \A p \in Peers : FitsName(state[p])

\* As long as a peer stays connected its prove state is never lost and only
\* moves to heavier chains: no order of announcements, answers, copies from other
\* peers and refreshes makes a transition of PeerState fail (which would leave
\* the peer Initialized) or lets an old answer overwrite a newer prove state.
ProveStateAdvances ==
    [][\A p \in Peers :
          (state[p].prove # NoProve /\ state'[p] # Absent) =>
              /\ state'[p].prove # NoProve
              /\ TotalDifficulty[state[p].prove.last] <=
                     TotalDifficulty[state'[p].prove.last]]_vars

\* The last n entries of the list hs are the n blocks below b, in order.
EndsBelow(hs, b, n) ==
    /\ Len(hs) >= n
    /\ \A k \in 1 .. n :
          LET h == hs[Len(hs) + 1 - k]
          IN  h \in Ancestors[b] /\ Number[h] = Number[b] - k

\* How many blocks b is behind the stored tip.
Behind(b) == IF Number[b] < Number[tip] THEN Number[tip] - Number[b] ELSE 0

\* Heads are longer than the window, and a heavier one is not lower.
TallHeads == \A h \in Heads : Number[h] > LastN
HeavierIsHigher ==
    \A a, b \in Heads : TotalDifficulty[a] <= TotalDifficulty[b] => Number[a] <= Number[b]

\* The stored headers, among which fork blocks are looked up, are exactly the
\* LastN blocks below the stored tip, however they were put together from new
\* headers, reorg headers, an older prove state, a parent or another peer's
\* copy.  The headers of a peer that is behind the stored tip are right at the
\* end; at most as many as it is behind are not, at the front, and they have
\* been pushed out by the time the peer moves the tip.
HeadersAreContinuous ==
    /\ Len(lastN) <= LastN
    /\ tip # Genesis => EndsBelow(lastN, tip, LastN)
    /\ \A p \in Peers : state[p].prove # NoProve =>
          LET v == state[p].prove
          IN  /\ Len(v.headers) <= LastN
              /\ EndsBelow(v.headers, v.last, LastN - Behind(v.last))

\* The whole list of every peer is right.  (It is not: the code fills the list up
\* from the old one although the request started below the old proved header.)
WholeListIsContinuous ==
    \A p \in Peers : state[p].prove # NoProve =>
        EndsBelow(state[p].prove.headers, state[p].prove.last, LastN)

\* A long fork, which ends in a panic, is only reported for a chain that leaves
\* the stored chain below its stored headers.
LongForkIsReal ==
    [][\A p \in Peers :
          (state'[p].request.longFork /\ ~ state[p].request.longFork) =>
              Ancestors[state'[p].request.last] \cap (ToSet(lastN) \cup {tip}) = {}]_vars

\* Once some peer keeps a proof of the stored tip, every peer that stays connected
\* ends up with a proof of its last state, or in the proof of a long fork, or in a
\* request that a new block or its timeout ends: no order of refreshes,
\* announcements, answers and copies leaves a peer without asking for a proof.
\* (build_prove_request_content asks for no proof of a block that is not above
\* the stored tip: with no such peer the others wait for the next block.)
EventuallyProved ==
    (\E q \in Peers : <>[](state[q].prove.last = tip)) =>
        \A p \in Peers : <>[](\/ state[p].prove.last = state[p].last
                              \/ state[p].request.longFork
                              \/ state[p].request # NoRequest /\ ~ state[p].request.open
                              \/ state[p].name = "RequestNewLastState")

\* "st6 -> st5 : Receive SendLastState" (peers.rs): a peer that was asked for its
\* last state, and answers, does not stay in RequestNewLastState.  The code
\* returns early when the answer is the last state that it knows already.
LastStateIsAnswered ==
    \A p \in Peers :
        (state[p].name = "RequestNewLastState") ~> (state[p].name # "RequestNewLastState")
=============================================================================
