---------------------------- MODULE FetchProofs ----------------------------
(***************************************************************************)
(* Safety of Fetch for every block tree, every set of peers, items and      *)
(* matched blocks and every bound: type correctness, that no item in the    *)
(* queue is forgotten as long as no slot is overwritten, and that the queue *)
(* implements the life of a fetch that FetchLife promises.                  *)
(***************************************************************************)
EXTENDS Fetch, TLAPS, FiniteSetTheorems, SequenceTheorems

-----------------------------------------------------------------------------
(* Types *)

\* A function on the queue's items whose values are entries is a queue.
QueueOK(f) == DOMAIN f \subseteq Items /\ f \in [DOMAIN f -> FetchInfo]

\* The marks of the queue keep its items and their types.
LEMMA MarksType ==
    ASSUME TypeOK, NEW S
    PROVE  QueueOK(MarkTimeout(fetching, S)) /\ QueueOK(MarkSent(fetching, S))
             /\ QueueOK(MarkMissing(fetching, S))
<1>1. /\ DOMAIN fetching \subseteq Items
      /\ \A i \in DOMAIN fetching :
            /\ fetching[i] \in FetchInfo /\ [fetching[i] EXCEPT !.timeout = TRUE] \in FetchInfo
            /\ [fetching[i] EXCEPT !.sent = TRUE, !.timeout = FALSE] \in FetchInfo
            /\ [fetching[i] EXCEPT !.missing = TRUE] \in FetchInfo
  <2>1. ASSUME NEW f \in FetchInfo
        PROVE  /\ [f EXCEPT !.timeout = TRUE] \in FetchInfo
               /\ [f EXCEPT !.sent = TRUE, !.timeout = FALSE] \in FetchInfo
               /\ [f EXCEPT !.missing = TRUE] \in FetchInfo
        BY DEF FetchInfo
  <2> QED BY <2>1 DEF TypeOK
<1>2. QueueOK(MarkTimeout(fetching, S)) BY <1>1 DEF QueueOK, MarkTimeout
<1>3. QueueOK(MarkSent(fetching, S)) BY <1>1 DEF QueueOK, MarkSent
<1>4. QueueOK(MarkMissing(fetching, S)) BY <1>1 DEF QueueOK, MarkMissing
<1> QED BY <1>2, <1>3, <1>4

\* Where fetch_headers_txs goes on is a state of the task without a peer.
LEMMA ContinueType ==
    ASSUME NEW B \in SUBSET Peers, NEW H \in SUBSET Items
    PROVE  /\ Continue(B, H) \in Tasks
           /\ Continue(B, H).at \in {"idle", "headers", "txs"}
BY DEF Continue, Tasks, Idle, ToFetch, Items

\* The items of a request that the slots hold are items or matched blocks.
LEMMA RequestType ==
    ASSUME NEW k \in {"blocksProof", "txsProof"}, NEW S \in SUBSET (Items \cup Matched),
           NEW b \in Blocks, NEW g \in BOOLEAN
    PROVE  Request(k, S, b, g) \in Requests
BY DEF Request, Requests

\* An answer of a full node.
LEMMA AnswersType ==
    ASSUME TypeOK, NEW p \in Peers, wire[p] # <<>>, NEW m \in Answers(p)
    PROVE  /\ Head(wire[p]) \in Requests /\ m.kind = Head(wire[p]).kind
           /\ m.found \subseteq Items \cup Matched /\ m.missing \subseteq Items \cup Matched
<1>1. Head(wire[p]) \in Requests BY HeadTailProperties DEF TypeOK
<1> QED BY <1>1 DEF Answers, Requests

\* The handler of an answer.
LEMMA ReceiveType ==
    ASSUME TypeOK, NEW p \in Peers, wire[p] # <<>>, NEW m \in Answers(p),
           m.kind \in {"blocksProof", "txsProof"}, NEW r \in Requests, Receive(p, r, m)
    PROVE  TypeOK'
<1>1. Tail(wire[p]) \in Seq(Requests) BY HeadTailProperties DEF TypeOK
<1>2. wire' \in [Peers -> Seq(Requests)] BY <1>1 DEF TypeOK, Receive
<1>3. QueueOK(fetching')
  <2>1. CASE fetching' = RemoveFetching(fetching, Found(m), m.missing)
        BY <2>1 DEF RemoveFetching, TypeOK, QueueOK
  <2>2. CASE fetching' = MarkTimeout(fetching, r.items)
        BY <2>2, MarksType DEF TypeOK
  <2>3. CASE fetching' = fetching BY <2>3 DEF TypeOK, QueueOK
  <2> QED BY <2>1, <2>2, <2>3 DEF Receive
<1>4. task' \in Tasks /\ task'.peer \in Peers
      BY AnswersType DEF Receive, Tasks, Idle, TypeOK
<1>5. unproved' \subseteq Matched BY DEF Receive, TypeOK
<1> QED BY <1>2, <1>3, <1>4, <1>5 DEF Receive, TypeOK, QueueOK, peerVars

\* Every step keeps the types: one case per action.
LEMMA NextType == TypeOK /\ [Next]_vars => TypeOK'
<1> SUFFICES ASSUME TypeOK, [Next]_vars PROVE TypeOK' OBVIOUS
<1>1. ASSUME NEW i \in Items, Rpc(i) PROVE TypeOK'
  <2>1. NewAdd \in FetchInfo BY DEF NewAdd, FetchInfo
  <2>2. QueueOK(fetching') BY <1>1, <2>1 DEF Rpc, TypeOK, QueueOK
  <2> QED BY <1>1, <2>2 DEF Rpc, TypeOK, QueueOK, peerVars
<1>2. CASE FetchStart
  <2>1. BestPeers \subseteq Peers /\ ToFetch(HeaderItems) \subseteq Items
        BY DEF BestPeers, ToFetch, Items
  <2> QED BY <1>2, <2>1, ContinueType DEF FetchStart, TypeOK, peerVars
<1>3. CASE FetchPick
  <2>1. PICK p \in task.best, c \in Chunks(task.todo) :
            task' = [task EXCEPT !.at = "send", !.peer = p, !.items = c]
        BY <1>3 DEF FetchPick
  <2>2. p \in Peers /\ c \subseteq Items BY DEF TypeOK, Tasks, Chunks
  <2>3. task' \in Tasks /\ task'.peer \in Peers BY <2>1, <2>2 DEF TypeOK, Tasks
  <2> QED BY <1>3, <2>3 DEF FetchPick, TypeOK, peerVars
<1>4. CASE FetchHeadersBusy
  <2>1. task.best \subseteq Peers BY DEF TypeOK, Tasks
  <2> QED BY <1>4, <2>1, ContinueType DEF FetchHeadersBusy, TypeOK, peerVars
<1>5. CASE FetchSend
  <2>1. /\ task.best \subseteq Peers /\ task.todo \ task.items \subseteq Items
        /\ task.items \subseteq Items /\ task.peer \in Peers
        BY <1>5 DEF TypeOK, Tasks, FetchSend
  <2>2. Request("blocksProof", task.items, tip, FALSE) \in Requests
        BY <2>1, RequestType DEF TypeOK
  <2>3. wire' \in [Peers -> Seq(Requests)]
        BY <1>5, <2>1, <2>2, AppendProperties DEF FetchSend, SendBlocksRequest, TypeOK
  <2>4. QueueOK(fetching')
        BY <1>5, MarksType DEF FetchSend, TypeOK
  <2>5. /\ Continue(task.best, task.todo \ task.items) \in Tasks
        /\ Continue(task.best, task.todo \ task.items).at \in {"idle", "headers", "txs"}
        BY <2>1, ContinueType
  <2>6. blocksSlot' \in [Peers -> Requests]
        BY <1>5, <2>1, <2>2 DEF FetchSend, SendBlocksRequest, TypeOK
  <2>7. clashes' \in Nat BY <1>5 DEF FetchSend, SendBlocksRequest, TypeOK
  <2> QED BY <1>5, <2>3, <2>4, <2>5, <2>6, <2>7 DEF FetchSend, TypeOK, QueueOK, peerVars
<1>6. CASE FetchTxs
  <2>1. CASE task' = Idle /\ UNCHANGED <<txsSlot, wire, fetching>>
        BY <1>6, <2>1 DEF FetchTxs, TypeOK, Tasks, Idle, peerVars
  <2>2. ASSUME NEW p \in task.best, NEW c \in Chunks(task.todo),
               txsSlot' = [txsSlot EXCEPT ![p] = Request("txsProof", c, tip, FALSE)],
               wire' = [wire EXCEPT ![p] = Append(@, Request("txsProof", c, tip, FALSE))],
               fetching' = MarkSent(fetching, c),
               task' = IF task.todo = c THEN Idle ELSE [task EXCEPT !.todo = @ \ c]
        PROVE  TypeOK'
    <3>1. p \in Peers /\ c \subseteq Items BY DEF TypeOK, Tasks, Chunks
    <3>2. Request("txsProof", c, tip, FALSE) \in Requests BY <3>1, RequestType DEF TypeOK
    <3>3. wire' \in [Peers -> Seq(Requests)] BY <2>2, <3>1, <3>2, AppendProperties DEF TypeOK
    <3>4. QueueOK(fetching')
          BY <2>2, MarksType DEF TypeOK
    <3>5. task' \in Tasks /\ task'.at \in {"idle", "txs"}
          BY <1>6, <2>2 DEF FetchTxs, TypeOK, Tasks, Idle
    <3> QED BY <1>6, <2>2, <3>2, <3>3, <3>4, <3>5 DEF FetchTxs, TypeOK, QueueOK, peerVars
  <2> QED BY <1>6, <2>1, <2>2 DEF FetchTxs
<1>7. CASE FilterPick
  <2>1. BestPeers \subseteq Peers BY DEF BestPeers
  <2>2. PICK p \in Peers : filterTask' = [peer |-> p, last |-> tip]
        BY <1>7, <2>1 DEF FilterPick
  <2>3. filterTask' \in [peer : Peers \cup {NoPeer}, last : Blocks] /\ filterTask'.peer \in Peers
        BY <2>2 DEF TypeOK
  <2> QED BY <1>7, <2>3 DEF FilterPick, TypeOK, peerVars
<1>8. CASE FilterSend
  <2>1. NoFilterTask \in [peer : Peers \cup {NoPeer}, last : Blocks] BY ChainAssumption DEF NoFilterTask
  <2>2. CASE UNCHANGED <<blocksSlot, wire, clashes>>
        BY <1>8, <2>1, <2>2 DEF FilterSend, TypeOK, peerVars
  <2>3. ASSUME NEW c \in Chunks(unproved \cap Ancestors[filterTask.last]),
               SendBlocksRequest(filterTask.peer, Request("blocksProof", c, filterTask.last, TRUE))
        PROVE  TypeOK'
    <3>1. filterTask.peer \in Peers /\ c \subseteq Matched /\ filterTask.last \in Blocks
          BY <1>8, ChainAssumption DEF FilterSend, TypeOK, Chunks
    <3>2. Request("blocksProof", c, filterTask.last, TRUE) \in Requests BY <3>1, RequestType
    <3>3. wire' \in [Peers -> Seq(Requests)]
          BY <2>3, <3>1, <3>2, AppendProperties DEF SendBlocksRequest, TypeOK
    <3>4. blocksSlot' \in [Peers -> Requests]
          BY <2>3, <3>1, <3>2 DEF SendBlocksRequest, TypeOK
    <3>5. clashes' \in Nat BY <2>3 DEF SendBlocksRequest, TypeOK
    <3> QED BY <1>8, <2>1, <3>3, <3>4, <3>5 DEF FilterSend, TypeOK, peerVars
  <2> QED BY <1>8, <2>2, <2>3 DEF FilterSend
<1>9. CASE HandlerEnds
  <2>1. QueueOK(fetching')
        BY <1>9, MarksType DEF HandlerEnds, TypeOK
  <2>2. NoRequest \in Requests BY ChainAssumption DEF NoRequest, Requests
  <2>3. stored' \subseteq Items BY <1>9 DEF HandlerEnds, TypeOK, Tasks
  <2>4. task' \in Tasks /\ task'.at = "idle" BY <1>9 DEF HandlerEnds, Tasks, Idle
  <2>5. blocksSlot' \in [Peers -> Requests] /\ txsSlot' \in [Peers -> Requests]
    <3>1. blocksSlot \in [Peers -> Requests] /\ txsSlot \in [Peers -> Requests] BY DEF TypeOK
    <3>2. \/ blocksSlot' = [blocksSlot EXCEPT ![task.peer] = NoRequest] /\ txsSlot' = txsSlot
          \/ txsSlot' = [txsSlot EXCEPT ![task.peer] = NoRequest] /\ blocksSlot' = blocksSlot
          BY <1>9 DEF HandlerEnds
    <3> QED BY ONLY <2>2, <3>1, <3>2
  <2> QED BY <1>9, <2>1, <2>3, <2>4, <2>5 DEF HandlerEnds, TypeOK, QueueOK, peerVars
<1>10. ASSUME NEW p \in Peers, SendBlocksProof(p) PROVE TypeOK'
       BY <1>10, ReceiveType DEF SendBlocksProof, TypeOK
<1>11. ASSUME NEW p \in Peers, SendTransactionsProof(p) PROVE TypeOK'
       BY <1>11, ReceiveType DEF SendTransactionsProof, TypeOK
<1>12. ASSUME NEW p \in Peers, Timeout(p) PROVE TypeOK'
  <2>1. QueueOK(fetching')
        BY <1>12, MarksType DEF Timeout, TypeOK
  <2>2. closing' \subseteq Peers /\ timeouts' \in Nat BY <1>12 DEF Timeout, TypeOK
  <2>3. UNCHANGED <<tip, proved, stored, blocksSlot, txsSlot, unproved, wire, task,
                    filterTask, asks, clashes>> BY <1>12 DEF Timeout
  <2> QED BY <2>1, <2>2, <2>3 DEF TypeOK, QueueOK
<1>13. ASSUME NEW p \in Peers, Disconnected(p) PROVE TypeOK'
  <2>1. QueueOK(fetching')
        BY <1>13, MarksType DEF Disconnected, TypeOK
  <2>2. NoRequest \in Requests BY ChainAssumption DEF NoRequest, Requests
  <2>3. wire' \in [Peers -> Seq(Requests)] BY <1>13, EmptySeq DEF Disconnected, TypeOK
  <2>4. /\ blocksSlot' \in [Peers -> Requests] /\ txsSlot' \in [Peers -> Requests]
        /\ proved' \in [Peers -> Blocks] /\ closing' \subseteq Peers
        BY <1>13, <2>2, ChainAssumption DEF Disconnected, TypeOK
  <2>5. UNCHANGED <<tip, stored, unproved, task, filterTask, asks, timeouts, clashes>>
        BY <1>13 DEF Disconnected
  <2> QED BY <2>1, <2>3, <2>4, <2>5 DEF TypeOK, QueueOK
<1>14. ASSUME NEW p \in Peers, Prove(p) PROVE TypeOK'
  <2>1. PICK h \in HeadsFrom(p) :
            /\ proved' = [proved EXCEPT ![p] = h]
            /\ tip' = IF TotalDifficulty[h] > TotalDifficulty[tip] THEN h ELSE tip
        BY <1>14 DEF Prove
  <2>2. h \in Blocks BY FetchAssumption DEF HeadsFrom
  <2>3. tip' \in Blocks /\ proved' \in [Peers -> Blocks] BY <2>1, <2>2 DEF TypeOK
  <2>4. UNCHANGED <<closing, fetching, stored, blocksSlot, txsSlot, unproved, wire, task,
                    filterTask, asks, timeouts, clashes>> BY <1>14 DEF Prove
  <2> QED BY <2>3, <2>4 DEF TypeOK
<1>15. CASE UNCHANGED vars BY <1>15 DEF vars, peerVars, TypeOK
<1> QED BY <1>1, <1>2, <1>3, <1>4, <1>5, <1>6, <1>7, <1>8, <1>9, <1>10, <1>11, <1>12,
           <1>13, <1>14, <1>15 DEF Next

\* The types of the queue, the slots and the tasks hold in every state.
THEOREM FetchTypeCorrect == Spec => []TypeOK
<1>1. Init => TypeOK
  <2> SUFFICES ASSUME Init PROVE TypeOK OBVIOUS
  <2>1. NoRequest \in Requests BY ChainAssumption DEF NoRequest, Requests
  <2>2. Idle \in Tasks /\ Idle.at = "idle" BY DEF Idle, Tasks
  <2> QED BY <2>1, <2>2, EmptySeq, ChainAssumption DEF Init, TypeOK, NoFilterTask
<1> QED BY <1>1, NextType, PTL DEF Spec

-----------------------------------------------------------------------------
(* The life of a fetch *)

StatusOf == [i \in Items |-> Status(i)]

\* How the status of an item may change in a step of an exchange.
StatusMoves(i) ==
    \/ Status(i)' = Status(i)
    \/ Status(i) = "added" /\ Status(i)' = "fetching"
    \/ Status(i) \in {"added", "fetching"} /\ Status(i)' = "notFound"
    \/ Status(i) \in {"added", "fetching", "notFound"} /\ Status(i)' = "fetched"

\* The status of every item is one of the five of FetchLife.
LEMMA StatusType == \A i \in Items : Status(i) \in Life!Statuses
BY DEF Status, Life!Statuses

\* When every item moves so, the step is an exchange of FetchLife.
LEMMA ExchangeStep ==
    ASSUME \A i \in Items : StatusMoves(i)
    PROVE  Life!Exchange
<1>1. \A i \in Items : Status(i)' \in Life!Statuses BY DEF Status, Life!Statuses
<1>2. \A i \in Items : Life!Moved(i)
  <2> TAKE i \in Items
  <2>1. StatusMoves(i) OBVIOUS
  <2> QED BY <2>1 DEF StatusMoves, Life!Moved
<1> QED BY <1>1, <1>2 DEF Life!Exchange

\* The marks change the flags they name and no other.
LEMMA MarksFlags ==
    ASSUME TypeOK, NEW S, NEW i \in DOMAIN fetching
    PROVE  /\ MarkTimeout(fetching, S)[i].sent <=> fetching[i].sent
           /\ MarkTimeout(fetching, S)[i].missing <=> fetching[i].missing
           /\ MarkTimeout(fetching, S)[i].timeout <=> (i \in S \/ fetching[i].timeout)
           /\ MarkSent(fetching, S)[i].sent <=> (i \in S \/ fetching[i].sent)
           /\ MarkSent(fetching, S)[i].missing <=> fetching[i].missing
           /\ MarkSent(fetching, S)[i].timeout <=> (i \notin S /\ fetching[i].timeout)
           /\ MarkMissing(fetching, S)[i].sent <=> fetching[i].sent
           /\ MarkMissing(fetching, S)[i].missing <=> (i \in S \/ fetching[i].missing)
           /\ MarkMissing(fetching, S)[i].timeout <=> fetching[i].timeout
<1>1. fetching[i] \in FetchInfo BY DEF TypeOK
<1>2. fetching[i].sent \in BOOLEAN /\ fetching[i].timeout \in BOOLEAN
        /\ fetching[i].missing \in BOOLEAN BY <1>1 DEF FetchInfo
<1>3. CASE i \in S BY <1>1, <1>2, <1>3 DEF MarkTimeout, MarkSent, MarkMissing, FetchInfo
<1>4. CASE i \notin S BY <1>1, <1>2, <1>4 DEF MarkTimeout, MarkSent, MarkMissing, FetchInfo
<1> QED BY <1>3, <1>4

LEMMA MarksDomain ==
    ASSUME NEW S
    PROVE  /\ DOMAIN MarkTimeout(fetching, S) = DOMAIN fetching
           /\ DOMAIN MarkSent(fetching, S) = DOMAIN fetching
           /\ DOMAIN MarkMissing(fetching, S) = DOMAIN fetching
BY DEF MarkTimeout, MarkSent, MarkMissing

\* The task is not in a handler.
NotHandling == task.at \notin {"blocksProof", "txsProof"}

\* A step that leaves the queue or marks it as sent, outside of the handlers.
LEMMA SendMoves ==
    ASSUME TypeOK, NotHandling, NotHandling', UNCHANGED stored,
           NEW S, fetching' \in {fetching, MarkSent(fetching, S), MarkTimeout(fetching, S)}
    PROVE  \A i \in Items : StatusMoves(i)
<1> TAKE i \in Items
<1>1. DOMAIN fetching' = DOMAIN fetching BY MarksDomain
<1>2. i \in DOMAIN fetching =>
        /\ fetching'[i].missing <=> fetching[i].missing
        /\ fetching[i].sent => fetching'[i].sent
  <2> HAVE i \in DOMAIN fetching
  <2>1. CASE fetching' = fetching BY <2>1
  <2>2. CASE fetching' = MarkSent(fetching, S) BY <2>2, MarksFlags
  <2>3. CASE fetching' = MarkTimeout(fetching, S) BY <2>3, MarksFlags
  <2> QED BY <2>1, <2>2, <2>3
<1> QED BY <1>1, <1>2 DEF Status, StatusMoves, NotHandling

\* The handler of an answer takes what is found out of the queue.
LEMMA ReceiveMoves ==
    ASSUME TypeOK, NEW p \in Peers, NEW m, m.kind \in {"blocksProof", "txsProof"},
           NEW r, Receive(p, r, m), task.at = "idle"
    PROVE  \A i \in Items : StatusMoves(i)
<1> TAKE i \in Items
<1>1. UNCHANGED stored /\ task'.at = m.kind BY DEF Receive, Idle
<1>2. CASE fetching' \in {fetching, MarkTimeout(fetching, r.items)} /\ task'.items = {}
  <2>1. DOMAIN fetching' = DOMAIN fetching BY <1>2, MarksDomain
  <2>2. i \in DOMAIN fetching =>
          /\ fetching'[i].missing <=> fetching[i].missing
          /\ fetching'[i].sent <=> fetching[i].sent
        BY <1>2, MarksFlags
  <2> QED BY <1>1, <1>2, <2>1, <2>2 DEF Status, StatusMoves
<1>3. CASE /\ fetching' = RemoveFetching(fetching, Found(m), m.missing)
           /\ task'.items = Found(m) \cap DOMAIN fetching
  <2>1. DOMAIN fetching' = DOMAIN fetching \ Found(m)
          /\ \A j \in DOMAIN fetching' : fetching'[j] = fetching[j]
        BY <1>3 DEF RemoveFetching
  <2> QED BY <1>1, <1>3, <2>1 DEF Status, StatusMoves
<1> QED BY <1>2, <1>3 DEF Receive, Idle

\* The end of a handler stores what was found and marks what is missing.
LEMMA HandlerEndsMoves ==
    ASSUME TypeOK, HandlerEnds
    PROVE  \A i \in Items : StatusMoves(i)
<1> TAKE i \in Items
<1>1. stored' = stored \cup task.items /\ task'.at = "idle" /\ task.at \in {"blocksProof", "txsProof"}
      BY DEF HandlerEnds, Idle
<1>2. DOMAIN fetching' = DOMAIN fetching BY MarksDomain DEF HandlerEnds
<1>3. i \in DOMAIN fetching =>
        /\ fetching'[i].sent <=> fetching[i].sent
        /\ fetching[i].missing => fetching'[i].missing
  <2> HAVE i \in DOMAIN fetching
  <2>1. fetching' = MarkMissing(fetching, task.missing) BY DEF HandlerEnds
  <2> QED BY <2>1, MarksFlags
<1> QED BY <1>1, <1>2, <1>3 DEF Status, StatusMoves

\* A call of the fetch RPCs asks for one item, or finds it being stored.
LEMMA RpcLife ==
    ASSUME TypeOK, NEW i \in Items, Rpc(i)
    PROVE  Life!Next
<1>1. /\ UNCHANGED <<stored, task>>
      /\ i \notin stored
      /\ i \in DOMAIN fetching => fetching[i].missing
      /\ fetching' = [j \in DOMAIN fetching \cup {i} |-> IF j = i THEN NewAdd ELSE fetching[j]]
      BY DEF Rpc
<1>2. \A j \in Items : j # i => Status(j)' = Status(j) BY <1>1 DEF Status
<1>3. CASE Status(i) = "fetched"
  <2>1. Status(i)' = "fetched" BY <1>1, <1>3 DEF Status
  <2>2. \A j \in Items : StatusMoves(j) BY <1>2, <1>3, <2>1 DEF StatusMoves
  <2> QED BY <2>2, ExchangeStep DEF Life!Next
<1>4. CASE Status(i) # "fetched"
  <2>1. Status(i) \in {"none", "notFound"} BY <1>1, <1>4 DEF Status
  <2>2. Status(i)' = "added" BY <1>1, <1>4 DEF Status, NewAdd
  <2>3. Life!Ask(i) BY <1>2, <2>1, <2>2 DEF Life!Ask, Life!Becomes
  <2> QED BY <2>3 DEF Life!Next
<1> QED BY <1>3, <1>4

\* Every step of the queue is a step of FetchLife or leaves the statuses alone.
LEMMA NextLife == TypeOK /\ [Next]_vars => Life!Next \/ UNCHANGED StatusOf
<1> SUFFICES ASSUME TypeOK, [Next]_vars PROVE Life!Next \/ UNCHANGED StatusOf OBVIOUS
<1>1. ASSUME \A i \in Items : StatusMoves(i) PROVE Life!Next
      BY <1>1, ExchangeStep DEF Life!Next
<1>2. ASSUME NEW i \in Items, Rpc(i) PROVE Life!Next BY <1>2, RpcLife
<1>3. CASE FetchStart \/ FetchPick \/ FetchHeadersBusy
  <2>1. NotHandling BY <1>3 DEF FetchStart, FetchPick, FetchHeadersBusy, NotHandling
  <2>2. CASE FetchStart \/ FetchHeadersBusy
    <3>1. task'.at \in {"idle", "headers", "txs"}
      <4>1. BestPeers \subseteq Peers /\ task.best \subseteq Peers
            BY DEF BestPeers, TypeOK, Tasks
      <4>2. ToFetch(HeaderItems) \subseteq Items BY DEF ToFetch, Items
      <4> QED BY <2>2, <4>1, <4>2, ContinueType DEF FetchStart, FetchHeadersBusy
    <3> QED BY <1>1, <2>1, <2>2, <3>1, SendMoves DEF FetchStart, FetchHeadersBusy, NotHandling
  <2>3. CASE FetchPick
    <3>1. task'.at = "send" BY <2>3 DEF FetchPick, TypeOK, Tasks
    <3> QED BY <1>1, <2>1, <2>3, <3>1, SendMoves DEF FetchPick, NotHandling
  <2> QED BY <1>3, <2>2, <2>3
<1>4. CASE FetchSend
  <2>1. NotHandling /\ NotHandling' BY <1>4 DEF FetchSend, NotHandling, Continue, Idle
  <2> QED BY <1>1, <1>4, <2>1, SendMoves DEF FetchSend
<1>5. CASE FetchTxs
  <2>1. NotHandling BY <1>5 DEF FetchTxs, NotHandling
  <2>3. task' = Idle \/ \E c : task' = [task EXCEPT !.todo = @ \ c] BY <1>5 DEF FetchTxs
  <2>4. NotHandling' BY <2>1, <2>3 DEF NotHandling, Idle, TypeOK, Tasks
  <2>2. UNCHANGED stored /\ \E S : fetching' \in {fetching, MarkSent(fetching, S)}
        BY <1>5 DEF FetchTxs
  <2> QED BY <1>1, <2>1, <2>2, <2>4, SendMoves
<1>6. CASE FilterPick \/ FilterSend
      BY <1>6 DEF FilterPick, FilterSend, StatusOf, Status
<1>7. CASE HandlerEnds BY <1>1, <1>7, HandlerEndsMoves
<1>8. ASSUME NEW p \in Peers, SendBlocksProof(p) \/ SendTransactionsProof(p) PROVE Life!Next
      BY <1>1, <1>8, ReceiveMoves DEF SendBlocksProof, SendTransactionsProof
<1>9. ASSUME NEW p \in Peers, Timeout(p) \/ Disconnected(p) PROVE Life!Next
  <2>1. NotHandling /\ NotHandling' BY <1>9 DEF Timeout, Disconnected, NotHandling
  <2> QED BY <1>1, <1>9, <2>1, SendMoves DEF Timeout, Disconnected
<1>10. ASSUME NEW p \in Peers, Prove(p) PROVE UNCHANGED StatusOf
       BY <1>10 DEF Prove, StatusOf, Status
<1>11. CASE UNCHANGED vars BY <1>11 DEF vars, StatusOf, Status
<1> QED BY <1>2, <1>3, <1>4, <1>5, <1>6, <1>7, <1>8, <1>9, <1>10, <1>11 DEF Next

\* The queue implements FetchLife, for every tree, set of peers and items: no
\* interleaving of RPCs, timers, answers, timeouts and disconnections forgets a
\* fetch or loses what was fetched.
THEOREM FetchImplementsLife == Spec => LifeSpec
<1>1. Init => Life!Init BY DEF Init, Life!Init, Status, Idle
<1>2. TypeOK /\ [Next]_vars => [Life!Next]_StatusOf BY NextLife
<1> QED BY <1>1, <1>2, FetchTypeCorrect, PTL DEF Spec, LifeSpec, Life!Spec, StatusOf

-----------------------------------------------------------------------------
(* Every item is watched *)

\* The handler of an answer of p is between its two steps.
Handling(kind, p) == task.at = kind /\ task.peer = p

\* An unanswered request is the one in the slot, and the only one of its kind.
WireInSlots ==
    \A p \in Peers : \A k \in DOMAIN wire[p] :
        /\ wire[p][k].kind \in {"blocksProof", "txsProof"}
        /\ wire[p][k].kind = "blocksProof" =>
              wire[p][k] = blocksSlot[p] /\ ~ Handling("blocksProof", p)
        /\ wire[p][k].kind = "txsProof" =>
              wire[p][k] = txsSlot[p] /\ ~ Handling("txsProof", p)
        /\ \A l \in DOMAIN wire[p] : wire[p][l].kind = wire[p][k].kind => l = k

\* A handler runs with the request of its slot.
HandlerHasSlot ==
    /\ task.at = "blocksProof" => blocksSlot[task.peer] # NoRequest
    /\ task.at = "txsProof" => txsSlot[task.peer] # NoRequest

Waits(i) == fetching[i].sent /\ ~ fetching[i].timeout /\ ~ fetching[i].missing

\* Peer p has item i in a slot; one whose handler runs is about to be marked.
Watches(p, i) ==
    \/ i \in blocksSlot[p].items /\ (Handling("blocksProof", p) => i \in task.missing)
    \/ i \in txsSlot[p].items /\ (Handling("txsProof", p) => i \in task.missing)

Watched == \A i \in DOMAIN fetching : Waits(i) => \E p \in Peers : Watches(p, i)

\* The inductive invariant; it ends with the first slot set while in use.
WatchInv == clashes = 0 => WireInSlots /\ HandlerHasSlot /\ Watched

\* A step that changes neither slots, requests, the queue nor whether a handler
\* runs.
LEMMA WatchSame ==
    ASSUME WatchInv, UNCHANGED <<fetching, blocksSlot, txsSlot, wire, clashes>>,
           UNCHANGED task \/ (NotHandling /\ NotHandling')
    PROVE  WatchInv'
BY DEF WatchInv, WireInSlots, HandlerHasSlot, Watched, Waits, Watches, Handling, NotHandling

\* A request for p goes into a free slot of its kind, and its items are marked.
LEMMA SendWatch ==
    ASSUME TypeOK, WireInSlots, HandlerHasSlot, Watched,
           NEW p \in Peers, NEW r \in Requests, r.kind \in {"blocksProof", "txsProof"},
           \/ /\ r.kind = "blocksProof" /\ blocksSlot[p] = NoRequest
              /\ blocksSlot' = [blocksSlot EXCEPT ![p] = r] /\ UNCHANGED txsSlot
           \/ /\ r.kind = "txsProof" /\ txsSlot[p] = NoRequest
              /\ txsSlot' = [txsSlot EXCEPT ![p] = r] /\ UNCHANGED blocksSlot,
           wire' = [wire EXCEPT ![p] = Append(@, r)],
           fetching' \in {fetching, MarkSent(fetching, r.items)},
           UNCHANGED task \/ (NotHandling /\ NotHandling')
    PROVE  WireInSlots' /\ HandlerHasSlot' /\ Watched'
<1>1. r # NoRequest BY DEF NoRequest
<1>2. /\ wire[p] \in Seq(Requests) /\ Len(wire[p]) \in Nat
      /\ DOMAIN wire[p] = 1 .. Len(wire[p])
      BY LenProperties DEF TypeOK
<1>3. /\ DOMAIN wire'[p] = 1 .. Len(wire[p]) + 1
      /\ \A k \in 1 .. Len(wire[p]) : wire'[p][k] = wire[p][k]
      /\ wire'[p][Len(wire[p]) + 1] = r
      /\ \A q \in Peers : q # p => wire'[q] = wire[q]
      BY <1>2, AppendProperties, LenProperties DEF TypeOK
<1>4. \A k \in DOMAIN wire[p] : wire[p][k].kind # r.kind
      BY DEF WireInSlots, NoRequest
<1>5. ~ Handling(r.kind, p) /\ ~ Handling(r.kind, p)'
      BY DEF HandlerHasSlot, Handling, NotHandling
<1>6. \A q \in Peers, k \in {"blocksProof", "txsProof"} : Handling(k, q)' = Handling(k, q)
      BY DEF Handling, NotHandling
<1>7. WireInSlots'
  <2> SUFFICES ASSUME NEW q \in Peers, NEW k \in DOMAIN wire'[q]
               PROVE  /\ wire'[q][k].kind \in {"blocksProof", "txsProof"}
                      /\ wire'[q][k].kind = "blocksProof" =>
                            wire'[q][k] = blocksSlot'[q] /\ ~ Handling("blocksProof", q)'
                      /\ wire'[q][k].kind = "txsProof" =>
                            wire'[q][k] = txsSlot'[q] /\ ~ Handling("txsProof", q)'
                      /\ \A l \in DOMAIN wire'[q] : wire'[q][l].kind = wire'[q][k].kind => l = k
        BY DEF WireInSlots
  <2>1. CASE q # p BY <1>3, <1>6, <2>1 DEF WireInSlots, TypeOK
  <2>2. CASE q = p /\ k \in DOMAIN wire[p]
    <3>1. wire'[q][k] = wire[p][k] /\ wire[p][k].kind # r.kind BY <1>2, <1>3, <1>4, <2>2
    <3>2. /\ wire[p][k].kind = "blocksProof" => blocksSlot'[p] = blocksSlot[p]
          /\ wire[p][k].kind = "txsProof" => txsSlot'[p] = txsSlot[p]
          BY <3>1
    <3>3. \A l \in DOMAIN wire'[q] : wire'[q][l].kind = wire'[q][k].kind => l = k
          BY <1>2, <1>3, <1>4, <2>2 DEF WireInSlots
    <3> QED BY <1>6, <2>2, <3>1, <3>2, <3>3 DEF WireInSlots
  <2>3. CASE q = p /\ k = Len(wire[p]) + 1
    <3>1. wire'[q][k] = r BY <1>3, <2>3
    <3>2. r.kind = "blocksProof" => blocksSlot'[q] = r BY <2>3 DEF TypeOK
    <3>3. r.kind = "txsProof" => txsSlot'[q] = r BY <2>3 DEF TypeOK
    <3>4. \A l \in DOMAIN wire'[q] : wire'[q][l].kind = r.kind => l = k
          BY <1>2, <1>3, <1>4, <2>3
    <3> QED BY <1>5, <2>3, <3>1, <3>2, <3>3, <3>4
  <2> QED BY <1>2, <1>3, <2>1, <2>2, <2>3
<1>8. HandlerHasSlot' BY <1>1 DEF HandlerHasSlot, NotHandling, TypeOK
<1>9. Watched'
  <2> SUFFICES ASSUME NEW i \in DOMAIN fetching', Waits(i)' PROVE \E q \in Peers : Watches(q, i)'
        BY DEF Watched
  <2>1. i \in DOMAIN fetching BY MarksDomain
  <2>2. CASE i \in r.items
    <3>1. Watches(p, i)' BY <1>5, <2>2 DEF Watches, TypeOK
    <3> QED BY <3>1
  <2>3. CASE i \notin r.items
    <3>1. Waits(i) BY <2>1, <2>3, MarksFlags DEF Waits
    <3>2. PICK q \in Peers : Watches(q, i) BY <2>1, <3>1 DEF Watched
    <3>3. Watches(q, i)'
      <4>1. i \in blocksSlot[q].items => i \in blocksSlot'[q].items
            BY SMTT(30) DEF TypeOK, NoRequest
      <4>2. i \in txsSlot[q].items => i \in txsSlot'[q].items
            BY SMTT(30) DEF TypeOK, NoRequest
      <4> QED BY <1>6, <3>2, <4>1, <4>2 DEF Watches, Handling, NotHandling
    <3> QED BY <3>3
  <2> QED BY <2>2, <2>3
<1> QED BY <1>7, <1>8, <1>9

\* An accepted or refused answer accounts for every item of its request.
LEMMA AnswerCovers ==
    ASSUME TypeOK, NEW p \in Peers, wire[p] # <<>>, NEW m \in Answers(p)
    PROVE  LET r == Head(wire[p])
           IN  \/ m.last = r.last /\ CheckHashes(r, m)
               \/ m.last # r.last /\ m.found \cup m.missing = {}
<1> DEFINE r == Head(wire[p])
<1>1. r \in Requests /\ r.items \subseteq Items \cup Matched
  <2>1. r \in Requests BY AnswersType
  <2> QED BY <2>1 DEF Requests
<1>2. PICK h \in HeadsFrom(p) :
        m = IF r.last \in Ancestors[h]
            THEN [kind |-> r.kind, last |-> r.last, found |-> {i \in r.items : OnChain(i, r.last)},
                  missing |-> {i \in r.items : ~ OnChain(i, r.last)}]
            ELSE [kind |-> r.kind, last |-> h, found |-> {}, missing |-> {}]
      BY Zenon DEF Answers
<1>3. h \in Ancestors[h] BY ChainAssumption, FetchAssumption DEF HeadsFrom
<1>4. CASE r.last \in Ancestors[h]
  <2> DEFINE F == {i \in r.items : OnChain(i, r.last)}
             M == {i \in r.items : ~ OnChain(i, r.last)}
  <2>1. m.last = r.last /\ m.found = F /\ m.missing = M BY <1>2, <1>4
  <2>2. IsFiniteSet(Items \cup Matched) BY FetchAssumption, FS_Union DEF Items
  <2>3. IsFiniteSet(r.items) BY <1>1, <2>2, FS_Subset
  <2>4. IsFiniteSet(F) /\ IsFiniteSet(M)
    <3>1. F \in SUBSET r.items /\ M \in SUBSET r.items OBVIOUS
    <3> HIDE DEF F, M
    <3> QED BY <2>3, <3>1, FS_Subset
  <2>5. F \cup M = r.items /\ F \cap M = {} OBVIOUS
  <2> HIDE DEF F, M, r
  <2>6. Cardinality(F) \in Nat /\ Cardinality(M) \in Nat BY <2>4, FS_CardinalityType
  <2>7. Cardinality(r.items) = Cardinality(F) + Cardinality(M) - Cardinality({})
        BY <2>4, <2>5, FS_Union
  <2>8. Cardinality(r.items) = Cardinality(F) + Cardinality(M) BY <2>6, <2>7, FS_EmptySet
  <2>9. CheckHashes(r, m) BY <2>1, <2>5, <2>8 DEF CheckHashes
  <2> QED BY <2>1, <2>9 DEF r
<1>5. CASE r.last \notin Ancestors[h] BY <1>2, <1>3, <1>5
<1> QED BY <1>4, <1>5

\* The first step of a handler leaves no item of its request waiting: it is
\* found, or missing, or timed out.
LEMMA ReceiveWatch ==
    ASSUME TypeOK, WireInSlots, HandlerHasSlot, Watched,
           NEW p \in Peers, wire[p] # <<>>, NEW m \in Answers(p), task.at = "idle",
           NEW r, Receive(p, r, m),
           \/ m.kind = "blocksProof" /\ r = blocksSlot[p]
           \/ m.kind = "txsProof" /\ r = txsSlot[p]
    PROVE  WireInSlots' /\ HandlerHasSlot' /\ Watched'
<1>1. /\ wire[p] \in Seq(Requests) /\ Len(wire[p]) \in Nat \ {0}
      /\ DOMAIN wire[p] = 1 .. Len(wire[p]) /\ Head(wire[p]) = wire[p][1]
      BY LenProperties, EmptySeq DEF TypeOK
<1>2. Head(wire[p]) = r /\ r.kind = m.kind
      BY <1>1, AnswersType DEF WireInSlots
<1>3. r # NoRequest BY <1>2 DEF NoRequest
<1>4. UNCHANGED <<blocksSlot, txsSlot>> /\ task'.at = m.kind /\ task'.peer = p
      BY DEF Receive, Idle
<1>5. /\ DOMAIN wire'[p] = 1 .. Len(wire[p]) - 1
      /\ \A k \in 1 .. Len(wire[p]) - 1 : wire'[p][k] = wire[p][k + 1]
      /\ \A q \in Peers : q # p => wire'[q] = wire[q]
  <2>1. wire'[p] = Tail(wire[p]) BY DEF Receive, TypeOK
  <2>2. Tail(wire[p]) \in Seq(Requests) /\ Len(Tail(wire[p])) = Len(wire[p]) - 1
          /\ \A k \in 1 .. Len(wire[p]) - 1 : Tail(wire[p])[k] = wire[p][k + 1]
        BY <1>1, HeadTailProperties
  <2>3. DOMAIN Tail(wire[p]) = 1 .. Len(wire[p]) - 1 BY <2>2, LenProperties
  <2> QED BY <2>1, <2>2, <2>3 DEF Receive, TypeOK
<1>6. WireInSlots'
  <2> SUFFICES ASSUME NEW q \in Peers, NEW k \in DOMAIN wire'[q]
               PROVE  /\ wire'[q][k].kind \in {"blocksProof", "txsProof"}
                      /\ wire'[q][k].kind = "blocksProof" =>
                            wire'[q][k] = blocksSlot'[q] /\ ~ Handling("blocksProof", q)'
                      /\ wire'[q][k].kind = "txsProof" =>
                            wire'[q][k] = txsSlot'[q] /\ ~ Handling("txsProof", q)'
                      /\ \A l \in DOMAIN wire'[q] : wire'[q][l].kind = wire'[q][k].kind => l = k
        BY DEF WireInSlots
  <2>1. CASE q # p BY <1>4, <1>5, <2>1 DEF WireInSlots, Handling
  <2>2. CASE q = p
    <3>1. k + 1 \in DOMAIN wire[p] /\ 1 \in DOMAIN wire[p] /\ wire'[q][k] = wire[p][k + 1]
          BY <1>1, <1>5, <2>2
    <3>2. k + 1 # 1 BY <1>1, <1>5, <2>2
    <3>3. wire[p][k + 1].kind # m.kind BY <1>1, <1>2, <3>1, <3>2 DEF WireInSlots
    <3>4. \A l \in DOMAIN wire'[p] : wire'[p][l].kind = wire'[p][k].kind => l = k
      <4> SUFFICES ASSUME NEW l \in DOMAIN wire'[p], wire'[p][l].kind = wire'[p][k].kind
                   PROVE  l = k
            OBVIOUS
      <4>1. l + 1 \in DOMAIN wire[p] /\ wire'[p][l] = wire[p][l + 1] BY <1>1, <1>5
      <4>2. l + 1 = k + 1 BY <2>2, <3>1, <4>1 DEF WireInSlots
      <4> QED BY <1>1, <1>5, <2>2, <4>2
    <3> QED BY <1>4, <2>2, <3>1, <3>3, <3>4 DEF WireInSlots, Handling
  <2> QED BY <2>1, <2>2
<1>7. HandlerHasSlot' BY <1>3, <1>4 DEF HandlerHasSlot
<1>8. ASSUME NEW i \in DOMAIN fetching, Waits(i), i \in r.items => i \in task'.missing
      PROVE  \E q \in Peers : Watches(q, i)'
  <2>1. PICK q \in Peers : Watches(q, i) BY <1>8 DEF Watched
  <2>2. Watches(q, i)' BY <1>2, <1>4, <1>8, <2>1 DEF Watches, Handling
  <2> QED BY <2>2
<1>9. CASE m.last = r.last /\ CheckHashes(r, m)
  <2>1. /\ fetching' = RemoveFetching(fetching, Found(m), m.missing)
        /\ task'.missing = m.missing
        BY <1>3, <1>9 DEF Receive, Idle
  <2>2. DOMAIN fetching' = DOMAIN fetching \ Found(m)
          /\ \A i \in DOMAIN fetching' : fetching'[i] = fetching[i]
        BY <2>1 DEF RemoveFetching
  <2>3. r.items \subseteq Found(m) \cup m.missing BY <1>9 DEF CheckHashes, Found
  <2>4. Watched' BY <1>8, <2>1, <2>2, <2>3 DEF Watched, Waits
  <2> QED BY <1>6, <1>7, <2>4
<1>10. CASE m.last # r.last /\ m.found \cup m.missing = {}
  <2>1. fetching' = MarkTimeout(fetching, r.items) BY <1>3, <1>10 DEF Receive
  <2>2. ASSUME NEW i \in DOMAIN fetching', Waits(i)'
        PROVE  i \in DOMAIN fetching /\ Waits(i) /\ i \notin r.items
    <3>1. i \in DOMAIN fetching BY <2>1, <2>2, MarksDomain
    <3> QED BY <2>1, <2>2, <3>1, MarksFlags DEF Waits
  <2>3. Watched' BY <1>8, <2>2 DEF Watched
  <2> QED BY <1>6, <1>7, <2>3
<1> QED BY <1>2, <1>9, <1>10, AnswerCovers

\* The second step of a handler frees the slot; what it leaves in the queue is
\* marked as missing.
LEMMA HandlerEndsWatch ==
    ASSUME TypeOK, WireInSlots, HandlerHasSlot, Watched, HandlerEnds
    PROVE  WireInSlots' /\ HandlerHasSlot' /\ Watched'
<1>1. /\ UNCHANGED wire /\ task'.at = "idle" /\ task.peer \in Peers
      /\ fetching' = MarkMissing(fetching, task.missing)
      BY DEF HandlerEnds, Idle, TypeOK
<1>2. \A q \in Peers :
        /\ ~ Handling("blocksProof", q) => blocksSlot'[q] = blocksSlot[q]
        /\ ~ Handling("txsProof", q) => txsSlot'[q] = txsSlot[q]
      BY DEF HandlerEnds, Handling, TypeOK
<1>3. WireInSlots' BY <1>1, <1>2 DEF WireInSlots, Handling
<1>4. HandlerHasSlot' BY <1>1 DEF HandlerHasSlot
<1>5. Watched'
  <2> SUFFICES ASSUME NEW i \in DOMAIN fetching', Waits(i)' PROVE \E q \in Peers : Watches(q, i)'
        BY DEF Watched
  <2>1. i \in DOMAIN fetching BY <1>1, MarksDomain
  <2>2. Waits(i) /\ i \notin task.missing BY <1>1, <2>1, MarksFlags DEF Waits
  <2>3. PICK q \in Peers : Watches(q, i) BY <2>1, <2>2 DEF Watched
  <2>4. Watches(q, i)' BY <1>1, <1>2, <2>2, <2>3 DEF Watches, Handling
  <2> QED BY <2>4
<1> QED BY <1>3, <1>4, <1>5

\* A peer that times out or leaves has its items marked.
LEMMA LossWatch ==
    ASSUME TypeOK, WireInSlots, HandlerHasSlot, Watched, NEW p \in Peers,
           Timeout(p) \/ Disconnected(p)
    PROVE  WireInSlots' /\ HandlerHasSlot' /\ Watched'
<1>1. /\ task.at = "idle" /\ UNCHANGED task
      /\ fetching' = MarkTimeout(fetching, blocksSlot[p].items \cup txsSlot[p].items)
      BY DEF Timeout, Disconnected
<1>2. \A q \in Peers : q # p =>
        blocksSlot'[q] = blocksSlot[q] /\ txsSlot'[q] = txsSlot[q] /\ wire'[q] = wire[q]
      BY DEF Timeout, Disconnected, TypeOK
<1>3. \/ wire'[p] = <<>>
      \/ blocksSlot'[p] = blocksSlot[p] /\ txsSlot'[p] = txsSlot[p] /\ wire'[p] = wire[p]
      BY DEF Timeout, Disconnected, TypeOK
<1>4. WireInSlots'
  <2>1. DOMAIN <<>> = {} OBVIOUS
  <2> QED BY <1>1, <1>2, <1>3, <2>1 DEF WireInSlots, Handling
<1>5. HandlerHasSlot' BY <1>1 DEF HandlerHasSlot
<1>6. Watched'
  <2> SUFFICES ASSUME NEW i \in DOMAIN fetching', Waits(i)' PROVE \E q \in Peers : Watches(q, i)'
        BY DEF Watched
  <2>1. i \in DOMAIN fetching BY <1>1, MarksDomain
  <2>2. Waits(i) /\ i \notin blocksSlot[p].items \cup txsSlot[p].items
        BY <1>1, <2>1, MarksFlags DEF Waits
  <2>3. PICK q \in Peers : Watches(q, i) BY <2>1, <2>2 DEF Watched
  <2>4. q # p BY <2>2, <2>3 DEF Watches
  <2>5. Watches(q, i)' BY <1>1, <1>2, <2>3, <2>4 DEF Watches, Handling
  <2> QED BY <2>5
<1> QED BY <1>4, <1>5, <1>6

\* A call of the fetch RPCs adds an item that waits to be sent.
LEMMA RpcWatch ==
    ASSUME TypeOK, Watched, NEW i \in Items, Rpc(i)
    PROVE  Watched'
<1>1. /\ UNCHANGED <<blocksSlot, txsSlot, task>>
      /\ fetching' = [j \in DOMAIN fetching \cup {i} |-> IF j = i THEN NewAdd ELSE fetching[j]]
      BY DEF Rpc
<1>2. \A j \in DOMAIN fetching' : Waits(j)' => j \in DOMAIN fetching /\ Waits(j)
      BY <1>1 DEF Waits, NewAdd
<1> QED BY <1>1, <1>2 DEF Watched, Watches, Handling

\* A request for blocks goes out: unless the slot is in use, SendWatch applies.
LEMMA SendBlocksWatch ==
    ASSUME TypeOK, clashes = 0 => WireInSlots /\ HandlerHasSlot /\ Watched,
           NEW p \in Peers, NEW S \in SUBSET (Items \cup Matched), NEW b \in Blocks,
           NEW get \in BOOLEAN, SendBlocksRequest(p, Request("blocksProof", S, b, get)),
           UNCHANGED txsSlot, fetching' \in {fetching, MarkSent(fetching, S)},
           UNCHANGED task \/ (NotHandling /\ NotHandling')
    PROVE  WatchInv'
<1> SUFFICES ASSUME clashes' = 0 PROVE WireInSlots' /\ HandlerHasSlot' /\ Watched'
      BY DEF WatchInv
<1>1. clashes = 0 /\ blocksSlot[p] = NoRequest BY DEF SendBlocksRequest, TypeOK
<1>2. Request("blocksProof", S, b, get) \in Requests BY RequestType
<1>3. /\ Request("blocksProof", S, b, get).kind = "blocksProof"
      /\ Request("blocksProof", S, b, get).items = S
      BY DEF Request
<1> QED BY <1>1, <1>2, <1>3, SendWatch DEF SendBlocksRequest

\* Every step keeps the inductive invariant: one case per action.
LEMMA NextWatch == TypeOK /\ WatchInv /\ [Next]_vars => WatchInv'
<1> SUFFICES ASSUME TypeOK, WatchInv, [Next]_vars PROVE WatchInv' OBVIOUS
<1>1. ASSUME NEW i \in Items, Rpc(i) PROVE WatchInv'
  <2>1. UNCHANGED <<blocksSlot, txsSlot, wire, task, clashes>> BY <1>1 DEF Rpc
  <2> QED BY <1>1, <2>1, RpcWatch DEF WatchInv, WireInSlots, HandlerHasSlot, Handling
<1>2. CASE FetchStart \/ FetchPick \/ FetchHeadersBusy
  <2>1. NotHandling /\ NotHandling'
    <3>1. NotHandling BY <1>2 DEF FetchStart, FetchPick, FetchHeadersBusy, NotHandling
    <3>2. CASE FetchStart \/ FetchHeadersBusy
      <4>1. BestPeers \subseteq Peers /\ task.best \subseteq Peers
            BY DEF BestPeers, TypeOK, Tasks
      <4>2. ToFetch(HeaderItems) \subseteq Items BY DEF ToFetch, Items
      <4>3. task'.at \in {"idle", "headers", "txs"}
            BY <3>2, <4>1, <4>2, ContinueType DEF FetchStart, FetchHeadersBusy
      <4> QED BY <3>1, <4>3 DEF NotHandling
    <3>3. CASE FetchPick
      <4>1. task'.at = "send" BY <3>3 DEF FetchPick, TypeOK, Tasks
      <4> QED BY <3>1, <4>1 DEF NotHandling
    <3> QED BY <1>2, <3>2, <3>3
  <2> QED BY <1>2, <2>1, WatchSame DEF FetchStart, FetchPick, FetchHeadersBusy
<1>3. CASE FetchSend
  <2>1. /\ task.peer \in Peers /\ task.items \subseteq Items /\ tip \in Blocks
        /\ task.best \subseteq Peers /\ task.todo \ task.items \subseteq Items
        BY <1>3 DEF FetchSend, TypeOK, Tasks
  <2>2. Continue(task.best, task.todo \ task.items).at \in {"idle", "headers", "txs"}
        BY <2>1, ContinueType
  <2>3. NotHandling /\ NotHandling' BY <1>3, <2>2 DEF FetchSend, NotHandling
  <2> QED BY <1>3, <2>1, <2>3, SendBlocksWatch DEF FetchSend, WatchInv
<1>4. CASE FetchTxs
  <2>1. NotHandling BY <1>4 DEF FetchTxs, NotHandling
  <2>2. task' = Idle \/ \E c : task' = [task EXCEPT !.todo = @ \ c] BY <1>4 DEF FetchTxs
  <2>3. NotHandling' BY <2>1, <2>2 DEF NotHandling, Idle, TypeOK, Tasks
  <2>4. UNCHANGED <<blocksSlot, clashes>> BY <1>4 DEF FetchTxs
  <2>5. CASE UNCHANGED <<txsSlot, wire, fetching>> BY <2>1, <2>3, <2>4, <2>5, WatchSame
  <2>6. ASSUME NEW p \in task.best, txsSlot[p] = NoRequest, NEW c \in Chunks(task.todo),
               txsSlot' = [txsSlot EXCEPT ![p] = Request("txsProof", c, tip, FALSE)],
               wire' = [wire EXCEPT ![p] = Append(@, Request("txsProof", c, tip, FALSE))],
               fetching' = MarkSent(fetching, c)
        PROVE  WatchInv'
    <3>1. p \in Peers /\ c \subseteq Items /\ tip \in Blocks BY DEF TypeOK, Tasks, Chunks
    <3>2. /\ Request("txsProof", c, tip, FALSE) \in Requests
          /\ Request("txsProof", c, tip, FALSE).kind = "txsProof"
          /\ Request("txsProof", c, tip, FALSE).items = c
          BY <3>1, RequestType DEF Request
    <3> QED BY <2>1, <2>3, <2>4, <2>6, <3>1, <3>2, SendWatch DEF WatchInv
  <2> QED BY <1>4, <2>5, <2>6 DEF FetchTxs
<1>5. CASE FilterPick BY <1>5, WatchSame DEF FilterPick
<1>6. CASE FilterSend
  <2>1. UNCHANGED <<txsSlot, fetching, task>> BY <1>6 DEF FilterSend
  <2>2. CASE UNCHANGED <<blocksSlot, wire, clashes>> BY <2>1, <2>2, WatchSame
  <2>3. ASSUME NEW c \in Chunks(unproved \cap Ancestors[filterTask.last]),
               SendBlocksRequest(filterTask.peer, Request("blocksProof", c, filterTask.last, TRUE))
        PROVE  WatchInv'
    <3>1. filterTask.peer \in Peers /\ c \subseteq Matched /\ filterTask.last \in Blocks
          BY <1>6 DEF FilterSend, TypeOK, Chunks
    <3> QED BY <2>1, <2>3, <3>1, SendBlocksWatch DEF WatchInv
  <2> QED BY <1>6, <2>2, <2>3 DEF FilterSend
<1>7. CASE HandlerEnds
  <2>1. UNCHANGED clashes BY <1>7 DEF HandlerEnds
  <2> QED BY <1>7, <2>1, HandlerEndsWatch DEF WatchInv
<1>8. ASSUME NEW p \in Peers, SendBlocksProof(p) \/ SendTransactionsProof(p) PROVE WatchInv'
  <2>1. PICK m \in Answers(p), r \in {blocksSlot[p], txsSlot[p]} :
          /\ \/ m.kind = "blocksProof" /\ r = blocksSlot[p]
             \/ m.kind = "txsProof" /\ r = txsSlot[p]
          /\ Receive(p, r, m)
        BY <1>8 DEF SendBlocksProof, SendTransactionsProof
  <2>2. task.at = "idle" /\ wire[p] # <<>>
        BY <1>8 DEF SendBlocksProof, SendTransactionsProof
  <2>3. UNCHANGED clashes BY <2>1 DEF Receive
  <2>4. WireInSlots /\ HandlerHasSlot /\ Watched
          => WireInSlots' /\ HandlerHasSlot' /\ Watched'
        BY <2>1, <2>2, ReceiveWatch
  <2> QED BY <2>3, <2>4 DEF WatchInv
<1>9. ASSUME NEW p \in Peers, Timeout(p) \/ Disconnected(p) PROVE WatchInv'
  <2>1. UNCHANGED clashes BY <1>9 DEF Timeout, Disconnected
  <2> QED BY <1>9, <2>1, LossWatch DEF WatchInv
<1>10. ASSUME NEW p \in Peers, Prove(p) PROVE WatchInv' BY <1>10, WatchSame DEF Prove
<1>11. CASE UNCHANGED vars BY <1>11, WatchSame DEF vars
<1> QED BY <1>1, <1>2, <1>3, <1>4, <1>5, <1>6, <1>7, <1>8, <1>9, <1>10, <1>11 DEF Next

\* As long as no slot was set while in use, every item that was sent and has
\* neither timed out nor been reported missing is in the slot of some peer, whose
\* answer, timeout or disconnection ends the wait: for any number of peers, items
\* and requests.
THEOREM NoFetchIsForgotten == Spec => []FetchIsWatched
<1>1. Init => WatchInv
  <2> SUFFICES ASSUME Init PROVE WireInSlots /\ HandlerHasSlot /\ Watched BY DEF WatchInv
  <2>1. DOMAIN <<>> = {} OBVIOUS
  <2> QED BY <2>1 DEF Init, WireInSlots, HandlerHasSlot, Watched, Idle
<1>2. TypeOK /\ WatchInv => FetchIsWatched
  <2> SUFFICES ASSUME TypeOK, WatchInv, NEW i \in DOMAIN fetching, NobodyWaits(i), clashes = 0
               PROVE  FALSE
        BY DEF FetchIsWatched, TypeOK
  <2> QED BY DEF NobodyWaits, WatchInv, Watched, Waits, Watches
<1> QED BY <1>1, <1>2, FetchTypeCorrect, NextWatch, PTL DEF Spec

=============================================================================
