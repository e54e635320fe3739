------------------------------- MODULE Relay -------------------------------
(***************************************************************************)
(* Relaying transactions.  send_transaction puts a transaction into         *)
(* PendingTxs; two RelayProtocol handlers, one for each version of the      *)
(* protocol, share that queue.  A handler opens its protocol to the         *)
(* connected peers while there is something recent to relay, announces the  *)
(* hashes, answers GetRelayTransactions, and closes the protocol to peers    *)
(* that are idle.                                                           *)
(*                                                                          *)
(* Time is counted in periods of the two second timer; Window periods are   *)
(* the sixty seconds of is_not_empty_and_updated_at and of the idle time.   *)
(***************************************************************************)
EXTENDS Integers, SequencesExt

CONSTANTS
    Txs, Peers,
    Modern,       \* peers whose epoch has ckb2023 enabled from the start
    Limit,        \* PendingTxs::limit (64)
    Window,       \* periods of the timer in sixty seconds (30)
    MaxSubmits,   \* bound: calls of send_transaction
    MaxTroubles   \* bound: peers lost, hard forks crossed, periods too short for the network

Versions == {"v2", "v3"}

ASSUME RelayAssumption ==
    /\ Modern \subseteq Peers
    /\ Limit \in Nat \ {0} /\ Window \in Nat \ {0} /\ MaxSubmits \in Nat /\ MaxTroubles \in Nat

VARIABLES
    pending,    \* PendingTxs::txs, oldest first: [tx, told]
    updated,    \* periods since PendingTxs::updated_at
    opened,     \* opened[v]: opened_peers of a handler, peer -> periods or Never
    panicked,   \* handlers whose task has panicked
    due,        \* handlers whose timer has not fired in this period
    session,    \* session[v]: peers with an open session of the protocol (external)
    events,     \* events[v][p]: calls of connected and disconnected to be made
    inbox,      \* inbox[v][p]: hashes announced to p that p has not asked for
    connected,  \* Peers::get_peers_index
    modern,     \* peers whose epoch has ckb2023 enabled
    submits, troubles,
    history,    \* history variable: the transactions by their last submission
    announced,  \* history variable: <<p, t>> announced since the last submission of t
    relayed,    \* history variable: transactions that a peer got since then
    twice       \* history variable: something was announced twice

queueVars == <<pending, updated, submits, history>>
netVars == <<session, events, connected, modern, troubles>>
relayVars == <<inbox, announced, relayed, twice>>
vars == <<queueVars, netVars, relayVars, opened, panicked, due>>

Never == -1
NoPeers == [p \in {} |-> Never]
Pending == {pending[k].tx : k \in DOMAIN pending}
Fresh == pending # <<>> /\ updated < Window

Init ==
    /\ pending = <<>> /\ updated = 0 /\ submits = 0 /\ history = <<>>
    /\ opened = [v \in Versions |-> NoPeers] /\ panicked = {} /\ due = {}
    /\ session = [v \in Versions |-> {}]
    /\ events = [v \in Versions |-> [p \in Peers |-> <<>>]]
    /\ inbox = [v \in Versions |-> [p \in Peers |-> {}]]
    /\ connected = Peers /\ modern = Modern /\ troubles = 0
    /\ announced = {} /\ relayed = {} /\ twice = FALSE

-----------------------------------------------------------------------------
(* PendingTxs.                                                               *)

\* A list without its entry at one of the positions `at`, of which there is at
\* most one.
Drop(s, at) == IF at = {} THEN s ELSE RemoveAt(s, CHOOSE k \in at : TRUE)

\* LinkedHashMap::insert: an entry that is already there goes to the end, and
\* will be announced again.
Insert(q, t) ==
    Append(Drop(q, {k \in DOMAIN q : q[k].tx = t}), [tx |-> t, told |-> {}])

\* Mutant: a full queue takes nothing.
PushUnlessFull(q, t) == IF Len(q) = Limit THEN q ELSE Insert(q, t)

\* Mutant: no limit.
PushAlways(q, t) == Insert(q, t)

\* Mutant: an entry that is already there stays as it is.
PushKeepsTold(q, t) ==
    IF \E k \in DOMAIN q : q[k].tx = t THEN q
    ELSE LET r == Append(q, [tx |-> t, told |-> {}]) IN IF Len(r) > Limit THEN Tail(r) ELSE r

\* PendingTxs::push: the oldest is dropped above the limit.
Push(q, t) == LET r == Insert(q, t) IN IF Len(r) > Limit THEN Tail(r) ELSE r

\* Mutant: the peers already told are not consulted.
UntoldAll(q, p) == {q[k].tx : k \in DOMAIN q}

\* fetch_transaction_hashes_for_broadcast: the hashes, and the peers are noted.
Untold(q, p) == {q[k].tx : k \in {k \in DOMAIN q : p \notin q[k].told}}
Tell(q, ps) == [k \in DOMAIN q |-> [q[k] EXCEPT !.told = @ \cup ps]]

\* send_transaction of a transaction that verify_tx accepts.
SendTransaction(t) ==
    /\ submits < MaxSubmits
    /\ submits' = submits + 1
    /\ pending' = Push(pending, t)
    /\ updated' = 0
    /\ history' = Append(Drop(history, {k \in DOMAIN history : history[k] = t}), t)
    /\ announced' = {a \in announced : a[2] # t}
    /\ relayed' = relayed \ {t}
    /\ UNCHANGED <<netVars, inbox, twice, opened, panicked, due>>

-----------------------------------------------------------------------------
(* The handlers.                                                             *)

\* The hashes news[p] go to the peers ps, of which only those with an open
\* session get them.
Announce(v, ps, news) ==
    LET sent == UNION {{<<p, t>> : t \in news[p]} : p \in ps}
    IN  /\ inbox' = [inbox EXCEPT ![v] =
                        [p \in Peers |-> IF p \in ps \cap session[v] THEN @[p] \cup news[p] ELSE @[p]]]
        /\ announced' = announced \cup sent
        /\ twice' = (twice \/ announced \cap sent # {})
        /\ UNCHANGED relayed

Call(v, p, kind) ==
    /\ v \notin panicked /\ events[v][p] # <<>> /\ Head(events[v][p]) = kind
    /\ events' = [events EXCEPT ![v][p] = Tail(@)]

\* Only the handler of the version that fits the epoch of the peer goes on.  The
\* epoch is that of the prove state or of the stored last state, and 0 for a
\* peer that is gone.
Fits(v, p) == (v = "v3") = (p \in modern \cap connected)

\* connected: announces what is recent, and notes when.
Connected(v, p) ==
    LET news == [q \in {p} |-> Untold(pending, p)]
    IN  /\ Call(v, p, "connected")
        /\ \/ ~Fits(v, p) /\ UNCHANGED <<opened, pending, panicked, relayVars>>
           \/ /\ Fits(v, p) /\ Fresh /\ p \in connected
              /\ pending' = Tell(pending, {p})
              /\ opened' = [opened EXCEPT ![v] =
                    [q \in DOMAIN @ \cup {p} |-> IF q # p THEN @[q]
                                                 ELSE IF news[p] = {} THEN Never ELSE 0]]
              /\ Announce(v, {p}, news)
              /\ UNCHANGED panicked
           \/ /\ Fits(v, p) /\ ~Fresh
              /\ opened' = [opened EXCEPT ![v] =
                    [q \in DOMAIN @ \cup {p} |-> IF q = p THEN Never ELSE @[q]]]
              /\ UNCHANGED <<pending, panicked, relayVars>>
           \/ /\ Fits(v, p) /\ Fresh /\ p \notin connected  \* get_peer(peer) ... unwrap()
              /\ panicked' = panicked \cup {v}
              /\ UNCHANGED <<opened, pending, relayVars>>
        /\ UNCHANGED <<updated, submits, history, session, connected, modern, troubles, due>>

\* disconnected.
Disconnected(v, p) ==
    /\ Call(v, p, "disconnected")
    /\ opened' = [opened EXCEPT ![v] = [q \in DOMAIN @ \ {p} |-> @[q]]]
    /\ UNCHANGED <<queueVars, session, connected, modern, troubles, relayVars, panicked, due>>

\* received, GetRelayTransactions: what is still pending is sent.
Received(v, p) ==
    /\ v \notin panicked /\ p \in session[v] /\ inbox[v][p] # {}
    /\ relayed' = relayed \cup (inbox[v][p] \cap Pending)
    /\ inbox' = [inbox EXCEPT ![v][p] = {}]
    /\ UNCHANGED <<queueVars, netVars, announced, twice, opened, panicked, due>>

\* notify with something recent to relay and no peer opened: open_protocol to
\* all peers, which does nothing where there is a session.
NotifyOpen(v) ==
    /\ v \in due \ panicked /\ Fresh /\ opened[v] = NoPeers
    /\ session' = [session EXCEPT ![v] = @ \cup connected]
    /\ events' = [events EXCEPT ![v] =
          [p \in Peers |-> IF p \in connected \ session[v] THEN Append(@[p], "connected") ELSE @[p]]]
    /\ due' = due \ {v}
    /\ UNCHANGED <<queueVars, connected, modern, troubles, relayVars, opened, panicked>>

\* Mutant: a peer that was never told anything is not closed.
InactiveTold(v, p) == opened[v][p] > Window

\* The announcement is more than sixty seconds ago, or there was none.
Inactive(v, p) == opened[v][p] = Never \/ opened[v][p] > Window

\* notify otherwise: the opened peers are told what they have not been told; the
\* protocol is closed to the inactive ones with nothing to be told.
NotifyTell(v) ==
    LET ps    == DOMAIN opened[v] \cap connected
        news  == [p \in ps |-> Untold(pending, p)]
        quiet == {p \in ps : news[p] = {} /\ Inactive(v, p)} \cap session[v]
    IN  /\ v \in due \ panicked /\ ~(Fresh /\ opened[v] = NoPeers)
        /\ pending' = Tell(pending, ps)
        /\ opened' = [opened EXCEPT ![v] =
              [p \in DOMAIN @ |-> IF p \in ps /\ news[p] # {} THEN 0 ELSE @[p]]]
        /\ Announce(v, ps, news)
        /\ session' = [session EXCEPT ![v] = @ \ quiet]
        /\ events' = [events EXCEPT ![v] =
              [p \in Peers |-> IF p \in quiet THEN Append(@[p], "disconnected") ELSE @[p]]]
        /\ due' = due \ {v}
        /\ UNCHANGED <<updated, submits, history, connected, modern, troubles, panicked>>

-----------------------------------------------------------------------------
(* Time and the network.                                                     *)

\* The network has made every call, and the peers have asked for what they were
\* told.
Settled == \A v \in Versions \ panicked, p \in Peers :
              events[v][p] = <<>> /\ (p \in session[v] => inbox[v][p] = {})

Later(n) == IF n = Never THEN Never ELSE IF n > Window THEN n ELSE n + 1

\* Two seconds pass; usually that is enough for the network.
Tick ==
    /\ due \subseteq panicked
    /\ troubles' = IF Settled THEN troubles ELSE troubles + 1
    /\ troubles' <= MaxTroubles
    /\ updated' = Later(updated)
    /\ opened' = [v \in Versions |-> [p \in DOMAIN opened[v] |-> Later(opened[v][p])]]
    /\ due' = Versions \ panicked
    /\ UNCHANGED <<pending, submits, history, session, events, connected, modern, relayVars, panicked>>

\* A peer is lost with its sessions, or comes back.
Lose(p) ==
    /\ troubles < MaxTroubles /\ p \in connected
    /\ troubles' = troubles + 1
    /\ connected' = connected \ {p}
    /\ session' = [v \in Versions |-> session[v] \ {p}]
    /\ events' = [v \in Versions |-> [events[v] EXCEPT ![p] =
                    IF p \in session[v] THEN Append(@, "disconnected") ELSE @]]
    /\ inbox' = [v \in Versions |-> [inbox[v] EXCEPT ![p] = {}]]
    /\ UNCHANGED <<queueVars, modern, announced, relayed, twice, opened, panicked, due>>

Return(p) ==
    /\ p \notin connected
    /\ connected' = connected \cup {p}
    /\ UNCHANGED <<queueVars, session, events, modern, troubles, relayVars, opened, panicked, due>>

\* A peer proves a header of an epoch after the hard fork.
Upgrade(p) ==
    /\ troubles < MaxTroubles /\ p \in connected \ modern
    /\ troubles' = troubles + 1
    /\ modern' = modern \cup {p}
    /\ UNCHANGED <<queueVars, session, events, connected, relayVars, opened, panicked, due>>

Next ==
    \/ \E t \in Txs : SendTransaction(t)
    \/ \E v \in Versions : NotifyOpen(v) \/ NotifyTell(v)
    \/ \E v \in Versions, p \in Peers : Connected(v, p) \/ Disconnected(v, p) \/ Received(v, p)
    \/ \E p \in Peers : Lose(p) \/ Return(p) \/ Upgrade(p)
    \/ Tick

Spec == Init /\ [][Next]_vars

\* Time goes on, the timers fire, the network delivers its calls, and a peer asks
\* for what it is told.
FairSpec ==
    /\ Spec
    /\ WF_vars(Tick)
    /\ \A v \in Versions : WF_vars(NotifyOpen(v) \/ NotifyTell(v))
    /\ \A v \in Versions, p \in Peers :
          WF_vars(Connected(v, p) \/ Disconnected(v, p)) /\ WF_vars(Received(v, p))

-----------------------------------------------------------------------------
(* Properties.                                                               *)

Entries == [tx : Txs, told : SUBSET Peers]
Times == {Never} \cup 0 .. Window + 1

\* The types of the queue, the handlers and the network; the queue is bounded, and
\* a session is with a connected peer.
TypeOK ==
    /\ pending \in Seq(Entries) /\ Len(pending) <= Limit
    /\ updated \in 0 .. Window + 1
    /\ submits \in 0 .. MaxSubmits /\ troubles \in 0 .. MaxTroubles
    /\ DOMAIN opened = Versions
    /\ \A v \in Versions : DOMAIN opened[v] \subseteq Peers /\ opened[v] \in [DOMAIN opened[v] -> Times]
    /\ connected \subseteq Peers /\ modern \subseteq Peers
    /\ session \in [Versions -> SUBSET connected]
    /\ events \in [Versions -> [Peers -> Seq({"connected", "disconnected"})]]
    /\ inbox \in [Versions -> [Peers -> SUBSET Txs]]
    /\ panicked \cup due \subseteq Versions
    /\ history \in Seq(Txs) /\ announced \subseteq Peers \X Txs /\ relayed \subseteq Txs
    /\ twice \in BOOLEAN

\* The queue is what was submitted last, in that order, whatever was submitted
\* again or announced in between: only the oldest is ever given up.
RecentAreKept ==
    LET older == Len(history) - Len(pending)
    IN  /\ Len(pending) = IF Len(history) < Limit THEN Len(history) ELSE Limit
        /\ \A k \in DOMAIN pending : pending[k].tx = history[older + k]

\* A peer is told of a submission once, although two handlers, their timers and
\* reconnections compete for telling it.
AnnouncedOnce == ~twice

\* A recent submission reaches a peer in the end, unless newer ones push it out
\* of the queue or something goes wrong on the way.
EventuallyRelayed ==
    \A t \in Txs :
        (t \in Pending /\ updated < Window - 1) ~> (t \in relayed \/ t \notin Pending \/ troubles > 0)

\* Once nothing is submitted any more, the handlers forget all peers, whatever
\* was lost on the way.
EventuallyClosed == <>[](\A v \in Versions : opened[v] = NoPeers \/ v \in panicked)
=============================================================================
