---------------------------- MODULE CellsProofs ----------------------------
(***************************************************************************)
(* Proofs about the index of cells and transactions (Cells), for every     *)
(* tree of blocks and transactions, every set of scripts and commands and  *)
(* every page size:                                                        *)
(*   - no read that the queries take for granted fails (ReadsSucceed);     *)
(*   - the history of a script is that of its filtered blocks              *)
(*     (HistoryIsReplay), and its cells are what filtering them from       *)
(*     scratch would leave (CellsAreReplay), but for the named departures; *)
(*   - a caller who pages through get_cells while blocks are filtered and  *)
(*     rolled back sees every cell that stays (ScanIsComplete).            *)
(***************************************************************************)
EXTENDS Cells, ChainProofs

Indexes == 0 .. MaxIndex
CellKeys == Scripts \X Nat \X Indexes \X Indexes
HistoryKeys == Scripts \X Nat \X Indexes \X Indexes \X {0, 1}
Place == [number : Nat, index : Indexes]

-----------------------------------------------------------------------------
(* The order of the keys.                                                    *)

\* Two digits of width w: the higher digit decides, then the lower one.
LEMMA Digits ==
    ASSUME NEW w \in Nat, NEW a \in Nat, NEW b \in Nat,
           NEW i \in 0 .. w - 1, NEW j \in 0 .. w - 1,
           a * w + i = b * w + j
    PROVE  a = b /\ i = j
<1>1. \A c, d \in Nat : c < d => c * w + w <= d * w
  <2> SUFFICES ASSUME NEW c \in Nat, NEW d \in Nat, c < d PROVE c * w + w <= d * w
    OBVIOUS
  <2>1. PICK e \in Nat : d = c + 1 + e
    <3>1. d - c - 1 \in Nat /\ d = c + 1 + (d - c - 1) OBVIOUS
    <3> QED BY <3>1
  <2>2. d * w = c * w + w + e * w BY <2>1
  <2>3. e * w \in Nat /\ c * w \in Nat OBVIOUS
  <2> QED BY <2>2, <2>3
<1>2. a * w \in Nat /\ b * w \in Nat OBVIOUS
<1>3. ~ (a < b)
  <2>1. a < b => a * w + w <= b * w BY <1>1
  <2> QED BY <2>1, <1>2
<1>4. ~ (b < a)
  <2>1. b < a => b * w + w <= a * w BY <1>1
  <2> QED BY <2>1, <1>2
<1> QED BY <1>2, <1>3, <1>4

\* append_key writes the numbers of a key so that the order of the bytes is
\* the order of the numbers: no two cells of a script share a place in it.
LEMMA RankIsExact ==
    /\ \A k \in CellKeys : Rank(k) \in Nat
    /\ \A j, k \in CellKeys : j[1] = k[1] /\ Rank(j) = Rank(k) => j = k
<1> DEFINE w == MaxIndex + 1
           High(k) == k[2] * w + k[3]
<1>1. w \in Nat /\ Indexes = 0 .. w - 1 BY CellsAssumption DEF Indexes
<1>2. \A k \in CellKeys :
        /\ k[2] \in Nat /\ k[3] \in 0 .. w - 1 /\ k[4] \in 0 .. w - 1
        /\ Len(k) = 4 /\ k = <<k[1], k[2], k[3], k[4]>>
  BY <1>1 DEF CellKeys
<1>3. \A k \in CellKeys : Rank(k) = (High(k) * w + k[4]) * 2 + 0
  BY <1>2 DEF Rank
<1> HIDE DEF w
<1>4. \A k \in CellKeys : High(k) \in Nat
  BY <1>1, <1>2
<1> HIDE DEF High
<1>5. \A k \in CellKeys : High(k) * w + k[4] \in Nat
  BY <1>1, <1>2, <1>4
<1>6. \A k \in CellKeys : Rank(k) \in Nat
  BY <1>3, <1>5
<1>7. ASSUME NEW j \in CellKeys, NEW k \in CellKeys, j[1] = k[1], Rank(j) = Rank(k)
      PROVE  j = k
  <2>1. High(j) * w + j[4] = High(k) * w + k[4]
    <3>1. (High(j) * w + j[4]) * 2 + 0 = (High(k) * w + k[4]) * 2 + 0 BY <1>3, <1>7, Zenon
    <3> QED BY <3>1, <1>5
  <2>2. High(j) = High(k) /\ j[4] = k[4] BY <2>1, <1>1, <1>2, <1>4, Digits
  <2>3. j[2] = k[2] /\ j[3] = k[3]
    <3>1. j[2] * w + j[3] = k[2] * w + k[3] BY <2>2 DEF High
    <3> QED BY <3>1, <1>1, <1>2, Digits
  <2> QED BY <1>2, <1>7, <2>2, <2>3
<1> QED BY <1>6, <1>7

-----------------------------------------------------------------------------
(* Batches.                                                                  *)

\* A batch leaves a key with the value it had or the value of one of its puts,
\* when each key of the puts has a last put.
LEMMA CommitMap ==
    ASSUME NEW map, NEW puts, NEW deletes,
           \A p \in puts : \E l \in puts :
              l.key = p.key /\ \A q \in puts : q.key = p.key => q.at <= l.at
    PROVE  LET new == Commit(map, puts, deletes)
           IN  \A k \in DOMAIN new :
                  \/ k \in DOMAIN map /\ new[k] = map[k]
                  \/ \E p \in puts : p.key = k /\ new[k] = p.tx
<1> DEFINE added == {p.key : p \in puts}
           gone == {d.key : d \in {d \in deletes :
                       \A p \in puts : p.key = d.key => p.at < d.at}}
           last(k) == CHOOSE p \in puts :
                         p.key = k /\ \A q \in puts : q.key = k => q.at <= p.at
           new == Commit(map, puts, deletes)
<1>1. /\ DOMAIN new = (DOMAIN map \cup added) \ gone
      /\ \A k \in DOMAIN new : new[k] = IF k \in added THEN last(k).tx ELSE map[k]
  BY DEF Commit
<1>2. \A k \in added : last(k) \in puts /\ last(k).key = k
  <2> TAKE k \in added
  <2>1. PICK p \in puts : p.key = k OBVIOUS
  <2>2. \E l \in puts : l.key = k /\ \A q \in puts : q.key = k => q.at <= l.at BY <2>1
  <2> QED BY <2>2
<1> HIDE DEF added, gone, last, new
<1>3. SUFFICES ASSUME NEW k \in DOMAIN new
               PROVE  \/ k \in DOMAIN map /\ new[k] = map[k]
                      \/ \E p \in puts : p.key = k /\ new[k] = p.tx
  BY DEF new
<1>4. CASE k \in added BY <1>1, <1>2, <1>4
<1>5. CASE k \notin added BY <1>1, <1>5
<1> QED BY <1>4, <1>5

-----------------------------------------------------------------------------
(* The inductive invariant.                                                  *)

\* The stored tip, the registered scripts and the requests under way.
Typed ==
    /\ tip \in Blocks
    /\ DOMAIN scripts \subseteq Scripts
    /\ asked \subseteq Transactions \X Blocks
    /\ askedHeaders \subseteq Blocks \X Blocks

\* Keys and values are what filter_block, rollback_to_block and the fetched
\* answers write: scripts of the commands, numbers and indexes in their range.
KeysTyped ==
    /\ DOMAIN txs \subseteq Transactions /\ \A t \in DOMAIN txs : txs[t] \in Place
    /\ DOMAIN cells \subseteq CellKeys
    /\ DOMAIN history \subseteq HistoryKeys

\* Every entry of the index leads to a stored transaction that has that output
\* or that input, and from there to a stored header.
Indexed ==
    /\ \A k \in DOMAIN cells :
          /\ cells[k] \in DOMAIN txs
          /\ k[4] \in DOMAIN Outputs[cells[k]]
    /\ \A e \in DOMAIN history :
          /\ history[e] \in DOMAIN txs
          /\ e[5] = 0 => e[4] \in DOMAIN Inputs[history[e]]
    /\ \A t \in DOMAIN txs : txs[t].number \in DOMAIN byNumber
    /\ \A n \in DOMAIN byNumber : byNumber[n] \in headers

\* The numbers in the index have a bound, so that a page comes to an end.
Bounded ==
    \E n \in Nat :
        /\ \A k \in DOMAIN cells : k[2] <= n
        /\ \A t \in DOMAIN txs : txs[t].number <= n

IndexInv == KeysTyped /\ Indexed /\ Bounded

-----------------------------------------------------------------------------
(* What filter_block writes.                                                 *)

\* The transactions of a block and their inputs and outputs have indexes below
\* u32::MAX.
LEMMA BodyTyped ==
    ASSUME NEW b \in Blocks, NEW i \in DOMAIN Body[b]
    PROVE  /\ i \in Indexes /\ i \in Nat
           /\ Body[b][i] \in Transactions
           /\ DOMAIN Inputs[Body[b][i]] \subseteq Indexes
           /\ DOMAIN Outputs[Body[b][i]] \subseteq Indexes
<1>1. Body[b] \in Seq(Transactions) /\ Len(Body[b]) < MaxIndex /\ MaxIndex \in Nat
  BY CellsAssumption
<1>2. i \in 1 .. Len(Body[b]) /\ Body[b][i] \in Transactions BY <1>1
<1>3. i \in Indexes /\ i \in Nat BY <1>1, <1>2 DEF Indexes
<1>4. /\ Len(Inputs[Body[b][i]]) < MaxIndex
      /\ Len(Outputs[Body[b][i]]) < MaxIndex
      /\ Inputs[Body[b][i]] \in Seq([tx : Transactions, out : Nat])
      /\ Outputs[Body[b][i]] \in Seq(SUBSET Scripts)
  BY <1>2, CellsAssumption
<1>5. /\ DOMAIN Inputs[Body[b][i]] = 1 .. Len(Inputs[Body[b][i]])
      /\ DOMAIN Outputs[Body[b][i]] = 1 .. Len(Outputs[Body[b][i]])
      /\ Len(Inputs[Body[b][i]]) \in Nat /\ Len(Outputs[Body[b][i]]) \in Nat
  BY <1>4
<1>6. DOMAIN Inputs[Body[b][i]] \subseteq Indexes BY <1>1, <1>4, <1>5 DEF Indexes
<1>7. DOMAIN Outputs[Body[b][i]] \subseteq Indexes BY <1>1, <1>4, <1>5 DEF Indexes
<1> QED BY <1>2, <1>3, <1>6, <1>7

\* The inputs found are inputs of the transaction, for scripts asked about.
LEMMA SpentShape ==
    ASSUME NEW b, NEW i, NEW S, NEW c \in SpentBy(b, i, S)
    PROVE  c.script \in S /\ c.input \in DOMAIN Inputs[Body[b][i]]
BY DEF SpentBy

\* The same for outputs.
LEMMA CreatedShape ==
    ASSUME NEW b, NEW i, NEW S, NEW c \in CreatedBy(b, i, S)
    PROVE  c.script \in S /\ c.out \in DOMAIN Outputs[Body[b][i]]
BY DEF CreatedBy

\* A cell is put under the number of the block and the index of a transaction
\* that is stored with it.
LEMMA UtxoPutsShape ==
    ASSUME NEW b \in Blocks, NEW S \in SUBSET Scripts, NEW p \in UtxoPuts(b, S)
    PROVE  /\ p.key \in CellKeys /\ p.key[2] = Number[b]
           /\ p.key[3] \in Stored(b, S) /\ p.key[3] \in Nat
           /\ p.tx = Body[b][p.key[3]] /\ p.at = 2 * p.key[3] + 1
           /\ p.key[4] \in DOMAIN Outputs[p.tx]
<1>1. PICK i \in DOMAIN Body[b] : \E c \in CreatedBy(b, i, S) :
        p = [key |-> <<c.script, Number[b], i, c.out>>, tx |-> Body[b][i], at |-> 2 * i + 1]
  BY DEF UtxoPuts
<1>2. PICK c \in CreatedBy(b, i, S) :
        p = [key |-> <<c.script, Number[b], i, c.out>>, tx |-> Body[b][i], at |-> 2 * i + 1]
  BY <1>1
<1>3. c.script \in S /\ c.out \in DOMAIN Outputs[Body[b][i]] BY CreatedShape
<1>4. i \in Stored(b, S) BY <1>2 DEF Stored
<1>5. /\ i \in Indexes /\ i \in Nat /\ DOMAIN Outputs[Body[b][i]] \subseteq Indexes
  BY BodyTyped
<1>6. Number[b] \in Nat BY ChainAssumption
<1>7. <<c.script, Number[b], i, c.out>> \in CellKeys BY <1>3, <1>5, <1>6 DEF CellKeys
<1> QED BY <1>2, <1>3, <1>4, <1>5, <1>7

\* The same for an entry of the history.
LEMMA HistoryPutsShape ==
    ASSUME NEW b \in Blocks, NEW S \in SUBSET Scripts, NEW p \in HistoryPuts(b, S)
    PROVE  /\ p.key \in HistoryKeys /\ p.key[3] \in Stored(b, S)
           /\ p.tx = Body[b][p.key[3]] /\ p.at = 0
           /\ p.key[5] = 0 => p.key[4] \in DOMAIN Inputs[p.tx]
<1> DEFINE In(i, c) == [key |-> <<c.script, Number[b], i, c.input, 0>>, tx |-> Body[b][i], at |-> 0]
           Out(i, c) == [key |-> <<c.script, Number[b], i, c.out, 1>>, tx |-> Body[b][i], at |-> 0]
<1>1. PICK i \in DOMAIN Body[b] : \/ \E c \in SpentBy(b, i, S) : p = In(i, c)
                                  \/ \E c \in CreatedBy(b, i, S) : p = Out(i, c)
  BY DEF HistoryPuts
<1>2. /\ i \in Indexes /\ DOMAIN Outputs[Body[b][i]] \subseteq Indexes
      /\ DOMAIN Inputs[Body[b][i]] \subseteq Indexes
  BY BodyTyped
<1>3. Number[b] \in Nat BY ChainAssumption
<1>4. CASE \E c \in SpentBy(b, i, S) : p = In(i, c)
  <2>1. PICK c \in SpentBy(b, i, S) : p = In(i, c) BY <1>4
  <2>2. c.script \in S /\ c.input \in DOMAIN Inputs[Body[b][i]] BY SpentShape
  <2>3. i \in Stored(b, S) BY <2>1 DEF Stored
  <2>4. <<c.script, Number[b], i, c.input, 0>> \in HistoryKeys
    BY <2>2, <1>2, <1>3 DEF HistoryKeys
  <2> QED BY <2>1, <2>2, <2>3, <2>4
<1>5. CASE \E c \in CreatedBy(b, i, S) : p = Out(i, c)
  <2>1. PICK c \in CreatedBy(b, i, S) : p = Out(i, c) BY <1>5
  <2>2. c.script \in S /\ c.out \in DOMAIN Outputs[Body[b][i]] BY CreatedShape
  <2>3. i \in Stored(b, S) BY <2>1 DEF Stored
  <2>4. <<c.script, Number[b], i, c.out, 1>> \in HistoryKeys
    BY <2>2, <1>2, <1>3 DEF HistoryKeys
  <2> QED BY <2>1, <2>2, <2>3, <2>4
<1> QED BY <1>1, <1>4, <1>5

\* filter_block keeps the index whole: with each entry it stores the
\* transaction, and with the first transaction the header.
LEMMA FilterBlockStep ==
    ASSUME IndexInv, NEW b \in Blocks, NEW known, DOMAIN known \subseteq Scripts,
           FilterBlock(b, known)
    PROVE  IndexInv'
<1> DEFINE S == DOMAIN known
           stored == Stored(b, S)
           new == {Body[b][i] : i \in stored}
           at(t) == [number |-> Number[b], index |-> CHOOSE i \in stored : Body[b][i] = t]
<1>1. S \in SUBSET Scripts OBVIOUS
<1>2. /\ cells' = Commit(cells, UtxoPuts(b, S), UtxoDeletes(b, S))
      /\ history' = Commit(history, HistoryPuts(b, S), {})
      /\ txs' = [t \in DOMAIN txs \cup new |-> IF t \in new THEN at(t) ELSE txs[t]]
      /\ IF stored = {}
         THEN byNumber' = byNumber /\ headers' = headers
         ELSE byNumber' = Put(byNumber, Number[b], b) /\ headers' = headers \cup {b}
  BY DEF FilterBlock
<1>3. Number[b] \in Nat BY ChainAssumption
<1>4. stored \subseteq DOMAIN Body[b] BY DEF Stored
<1>5. \A i \in stored : i \in Indexes /\ Body[b][i] \in Transactions /\ Body[b][i] \in new
  BY <1>4, BodyTyped
<1> HIDE DEF S, stored
<1>6. \A t \in new : at(t) \in Place /\ at(t).number = Number[b]
  <2> TAKE t \in new
  <2>1. \E i \in stored : Body[b][i] = t OBVIOUS
  <2>2. (CHOOSE i \in stored : Body[b][i] = t) \in stored BY <2>1
  <2> QED BY <2>2, <1>3, <1>5 DEF Place
<1>7. new \subseteq Transactions BY <1>5
<1> HIDE DEF new, at
<1>8. /\ DOMAIN txs' = DOMAIN txs \cup new
      /\ \A t \in new : txs'[t] = at(t)
      /\ \A t \in DOMAIN txs \ new : txs'[t] = txs[t]
  BY <1>2
<1>9. \A k \in DOMAIN cells' :
        \/ k \in DOMAIN cells /\ cells'[k] = cells[k]
        \/ \E p \in UtxoPuts(b, S) : p.key = k /\ cells'[k] = p.tx
  <2>1. \A p \in UtxoPuts(b, S) : p.at = 2 * p.key[3] + 1 /\ p.key[3] \in Nat
    BY <1>1, UtxoPutsShape
  <2>2. \A p \in UtxoPuts(b, S) : \E l \in UtxoPuts(b, S) :
          l.key = p.key /\ \A q \in UtxoPuts(b, S) : q.key = p.key => q.at <= l.at
    <3> TAKE p \in UtxoPuts(b, S)
    <3>1. \A q \in UtxoPuts(b, S) : q.key = p.key => q.at = p.at BY <2>1, Zenon
    <3>2. p.at <= p.at BY <2>1
    <3> QED BY <3>1, <3>2
  <2> QED BY <1>2, <2>2, CommitMap
<1>10. \A e \in DOMAIN history' :
        \/ e \in DOMAIN history /\ history'[e] = history[e]
        \/ \E p \in HistoryPuts(b, S) : p.key = e /\ history'[e] = p.tx
  <2>1. \A p \in HistoryPuts(b, S) : \E l \in HistoryPuts(b, S) :
          l.key = p.key /\ \A q \in HistoryPuts(b, S) : q.key = p.key => q.at <= l.at
    <3>1. \A p \in HistoryPuts(b, S) : p.at = 0 BY <1>1, HistoryPutsShape
    <3> QED BY <3>1
  <2> QED BY <1>2, <2>1, CommitMap
<1>11. \A p \in UtxoPuts(b, S) :
         /\ p.key \in CellKeys /\ p.key[2] = Number[b] /\ p.tx \in new
         /\ p.key[4] \in DOMAIN Outputs[p.tx]
  BY <1>1, <1>5, UtxoPutsShape DEF stored
<1>12. \A p \in HistoryPuts(b, S) :
         /\ p.key \in HistoryKeys /\ p.tx \in new
         /\ p.key[5] = 0 => p.key[4] \in DOMAIN Inputs[p.tx]
  BY <1>1, <1>5, HistoryPutsShape DEF stored
<1>13. KeysTyped'
  <2>1. DOMAIN txs' \subseteq Transactions /\ \A t \in DOMAIN txs' : txs'[t] \in Place
    BY <1>6, <1>7, <1>8 DEF IndexInv, KeysTyped
  <2>2. DOMAIN cells' \subseteq CellKeys BY <1>9, <1>11 DEF IndexInv, KeysTyped
  <2>3. DOMAIN history' \subseteq HistoryKeys BY <1>10, <1>12 DEF IndexInv, KeysTyped
  <2> QED BY <2>1, <2>2, <2>3 DEF KeysTyped
<1>14. Indexed'
  <2>1. \A k \in DOMAIN cells' :
          cells'[k] \in DOMAIN txs' /\ k[4] \in DOMAIN Outputs[cells'[k]]
    BY <1>8, <1>9, <1>11 DEF IndexInv, Indexed
  <2>2. \A e \in DOMAIN history' :
          history'[e] \in DOMAIN txs' /\ (e[5] = 0 => e[4] \in DOMAIN Inputs[history'[e]])
    BY <1>8, <1>10, <1>12 DEF IndexInv, Indexed
  <2>3. /\ DOMAIN byNumber \subseteq DOMAIN byNumber'
        /\ new # {} => Number[b] \in DOMAIN byNumber'
        /\ \A n \in DOMAIN byNumber' : byNumber'[n] \in headers'
    <3>1. CASE stored = {} BY <1>2, <3>1 DEF new, IndexInv, Indexed
    <3>2. CASE stored # {} BY <1>2, <3>2 DEF Put, IndexInv, Indexed
    <3> QED BY <3>1, <3>2
  <2>4. \A t \in DOMAIN txs' : txs'[t].number \in DOMAIN byNumber'
    BY <1>6, <1>8, <2>3 DEF IndexInv, Indexed
  <2> QED BY <2>1, <2>2, <2>3, <2>4 DEF Indexed
<1>15. Bounded'
  <2>1. PICK n \in Nat : /\ \A k \in DOMAIN cells : k[2] <= n
                         /\ \A t \in DOMAIN txs : txs[t].number <= n
    BY DEF IndexInv, Bounded
  <2>2. PICK m \in Nat : n <= m /\ Number[b] <= m
    <3>1. n <= n + Number[b] /\ Number[b] <= n + Number[b] /\ n + Number[b] \in Nat BY <1>3
    <3> QED BY <3>1
  <2>3. \A k \in DOMAIN cells' : k[2] <= m
    <3> TAKE k \in DOMAIN cells'
    <3>1. k[2] <= n \/ k[2] = Number[b] BY <1>9, <1>11, <2>1
    <3>2. k \in CellKeys BY <1>13 DEF KeysTyped
    <3>3. k[2] \in Nat BY <3>2 DEF CellKeys
    <3> QED BY <3>1, <3>3, <2>2
  <2>4. \A t \in DOMAIN txs' : txs'[t].number <= m
    <3> TAKE t \in DOMAIN txs'
    <3>1. txs'[t].number <= n \/ txs'[t].number = Number[b] BY <1>6, <1>8, <2>1
    <3>2. txs'[t] \in Place BY <1>13 DEF KeysTyped
    <3>3. txs'[t].number \in Nat BY <3>2 DEF Place
    <3> QED BY <3>1, <3>3, <2>2
  <2> QED BY <2>3, <2>4 DEF Bounded
<1> QED BY <1>13, <1>14, <1>15 DEF IndexInv

-----------------------------------------------------------------------------
(* What rollback_to_block and the fetched answers write.                     *)

\* Entries of the history have a place in the order of the keys too.
LEMMA EntryRank ==
    ASSUME NEW e \in HistoryKeys
    PROVE  Rank(e) \in Nat
<1>1. e[2] \in Nat /\ e[3] \in Nat /\ e[4] \in Nat /\ e[5] \in Nat /\ Len(e) = 5
  BY CellsAssumption DEF HistoryKeys, Indexes
<1> DEFINE w == MaxIndex + 1
<1>2. w \in Nat BY CellsAssumption
<1>3. Rank(e) = ((e[2] * w + e[3]) * w + e[4]) * 2 + e[5] BY <1>1 DEF Rank
<1> HIDE DEF w
<1>4. e[2] * w + e[3] \in Nat BY <1>1, <1>2
<1>5. (e[2] * w + e[3]) * w + e[4] \in Nat BY <1>1, <1>2, <1>4
<1> QED BY <1>1, <1>3, <1>5

\* A rolled back input puts a cell back that its transaction has, at a place
\* where that transaction is stored.
LEMMA RestoreShape ==
    ASSUME IndexInv, NEW E \in SUBSET DOMAIN history, NEW p \in RestorePuts(E)
    PROVE  /\ p.key \in CellKeys /\ p.tx \in DOMAIN txs
           /\ p.key[2] = txs[p.tx].number
           /\ p.key[4] \in DOMAIN Outputs[p.tx]
           /\ 0 - p.at \in Nat /\ p.at \in Int
<1>1. PICK e \in E : /\ e[5] = 0
                     /\ p \in LET q == Inputs[history[e]][e[4]]
                              IN  IF q.tx \in DOMAIN txs
                                  THEN {[key |-> <<e[1], txs[q.tx].number, txs[q.tx].index, q.out>>,
                                         tx |-> q.tx, at |-> 0 - Rank(e)]}
                                  ELSE {}
  BY DEF RestorePuts
<1> DEFINE q == Inputs[history[e]][e[4]]
<1>2. /\ q.tx \in DOMAIN txs
      /\ p = [key |-> <<e[1], txs[q.tx].number, txs[q.tx].index, q.out>>,
              tx |-> q.tx, at |-> 0 - Rank(e)]
  BY <1>1
<1>3. e \in DOMAIN history OBVIOUS
<1>4. e \in HistoryKeys BY <1>3 DEF IndexInv, KeysTyped
<1>5. /\ history[e] \in Transactions /\ e[4] \in DOMAIN Inputs[history[e]]
  BY <1>1, <1>3 DEF IndexInv, Indexed, KeysTyped
<1>6. Inputs[history[e]] \in Seq([tx : Transactions, out : Nat]) BY <1>5, CellsAssumption
<1>7. q \in [tx : Transactions, out : Nat]
  <2>1. \A X : \A z \in Seq(X) : \A i \in DOMAIN z : z[i] \in X OBVIOUS
  <2> QED BY <1>5, <1>6, <2>1, Zenon
<1>8. q.out \in DOMAIN Outputs[q.tx] BY <1>5, InputsAssumption
<1>9. q.out \in Indexes
  <2>1. /\ Outputs[q.tx] \in Seq(SUBSET Scripts) /\ Len(Outputs[q.tx]) < MaxIndex
        /\ MaxIndex \in Nat
    BY <1>7, CellsAssumption
  <2>2. DOMAIN Outputs[q.tx] = 1 .. Len(Outputs[q.tx]) /\ Len(Outputs[q.tx]) \in Nat BY <2>1
  <2> QED BY <2>1, <2>2, <1>8 DEF Indexes
<1> HIDE DEF q
<1>10. txs[q.tx].number \in Nat /\ txs[q.tx].index \in Indexes
  BY <1>2 DEF IndexInv, KeysTyped, Place
<1>11. e[1] \in Scripts BY <1>4 DEF HistoryKeys
<1>12. <<e[1], txs[q.tx].number, txs[q.tx].index, q.out>> \in CellKeys
  BY <1>9, <1>10, <1>11 DEF CellKeys
<1>13. Rank(e) \in Nat BY <1>4, EntryRank
<1> QED BY <1>2, <1>8, <1>12, <1>13

\* rollback_to_block keeps the index whole: it stores no transaction, and what
\* it puts back is found through the transactions that are stored.
LEMMA RollbackStep ==
    ASSUME IndexInv, NEW to, RollbackToBlock(to)
    PROVE  IndexInv' /\ DOMAIN scripts' = DOMAIN scripts
<1> DEFINE E == UNION {EntriesFrom(s, to) : s \in RolledBack(to)}
<1>1. /\ cells' = Commit(cells, RestorePuts(E), RestoreDeletes(E))
      /\ history' = [e \in DOMAIN history \ E |-> history[e]]
      /\ txs' = txs /\ byNumber' = byNumber /\ headers' = headers
      /\ DOMAIN scripts' = DOMAIN scripts
  BY DEF RollbackToBlock
<1>2. E \in SUBSET DOMAIN history BY DEF EntriesFrom
<1> HIDE DEF E
<1>3. \A p \in RestorePuts(E) :
        /\ p.key \in CellKeys /\ p.tx \in DOMAIN txs
        /\ p.key[2] = txs[p.tx].number
        /\ p.key[4] \in DOMAIN Outputs[p.tx]
        /\ 0 - p.at \in Nat /\ p.at \in Int
  BY <1>2, RestoreShape
<1>4. \A p \in RestorePuts(E) : \E l \in RestorePuts(E) :
        l.key = p.key /\ \A q \in RestorePuts(E) : q.key = p.key => q.at <= l.at
  <2> TAKE p \in RestorePuts(E)
  <2> DEFINE same == {q \in RestorePuts(E) : q.key = p.key}
             T == {0 - q.at : q \in same}
  <2>1. T \in SUBSET Nat /\ T # {} BY <1>3
  <2>2. PICK t \in T : \A u \in T : t <= u BY <2>1, NatMin
  <2>3. PICK l \in same : t = 0 - l.at OBVIOUS
  <2>4. \A q \in same : q.at <= l.at
    <3> TAKE q \in same
    <3>1. 0 - q.at \in T OBVIOUS
    <3>2. 0 - l.at <= 0 - q.at BY <3>1, <2>2, <2>3
    <3>3. q.at \in Int /\ l.at \in Int BY <1>3
    <3> QED BY <3>2, <3>3
  <2> QED BY <2>3, <2>4
<1>5. \A k \in DOMAIN cells' :
        \/ k \in DOMAIN cells /\ cells'[k] = cells[k]
        \/ \E p \in RestorePuts(E) : p.key = k /\ cells'[k] = p.tx
  BY <1>1, <1>4, CommitMap
<1>6. KeysTyped'
  <2>1. DOMAIN cells' \subseteq CellKeys BY <1>3, <1>5 DEF IndexInv, KeysTyped
  <2> QED BY <1>1, <2>1 DEF IndexInv, KeysTyped
<1>7. Indexed'
  <2>1. \A k \in DOMAIN cells' :
          cells'[k] \in DOMAIN txs /\ k[4] \in DOMAIN Outputs[cells'[k]]
    BY <1>3, <1>5 DEF IndexInv, Indexed
  <2>2. \A e \in DOMAIN history' :
          history'[e] \in DOMAIN txs /\ (e[5] = 0 => e[4] \in DOMAIN Inputs[history'[e]])
    BY <1>1 DEF IndexInv, Indexed
  <2> QED BY <1>1, <2>1, <2>2 DEF IndexInv, Indexed
<1>8. Bounded'
  <2>1. PICK n \in Nat : /\ \A k \in DOMAIN cells : k[2] <= n
                         /\ \A t \in DOMAIN txs : txs[t].number <= n
    BY DEF IndexInv, Bounded
  <2>2. \A k \in DOMAIN cells' : k[2] <= n
    BY <1>3, <1>5, <2>1
  <2> QED BY <1>1, <2>1, <2>2 DEF Bounded
<1> QED BY <1>1, <1>6, <1>7, <1>8 DEF IndexInv

\* add_fetched_tx keeps the index whole: it stores the header with the
\* transaction.
LEMMA FetchedTxStep ==
    ASSUME IndexInv, NEW b \in Blocks, NEW t \in Transactions, AddFetchedTx(t, b),
           cells' = cells, history' = history
    PROVE  IndexInv'
<1>1. Number[b] \in Nat /\ MaxIndex \in Indexes BY ChainAssumption, CellsAssumption DEF Indexes
<1>2. /\ DOMAIN txs' = DOMAIN txs \cup {t}
      /\ txs'[t] = [number |-> Number[b], index |-> MaxIndex]
      /\ \A u \in DOMAIN txs \ {t} : txs'[u] = txs[u]
  BY DEF AddFetchedTx, Put
<1>3. txs'[t] \in Place BY <1>1, <1>2 DEF Place
<1>4. KeysTyped' BY <1>2, <1>3 DEF IndexInv, KeysTyped
<1>5. /\ DOMAIN byNumber' = DOMAIN byNumber \cup {Number[b]}
      /\ headers' = headers \cup {b}
      /\ \A n \in DOMAIN byNumber' : byNumber'[n] \in headers'
  BY DEF AddFetchedTx, Put, IndexInv, Indexed
<1>6. Indexed' BY <1>2, <1>5 DEF IndexInv, Indexed
<1>7. Bounded'
  <2>1. PICK n \in Nat : /\ \A k \in DOMAIN cells : k[2] <= n
                         /\ \A u \in DOMAIN txs : txs[u].number <= n
    BY DEF IndexInv, Bounded
  <2>2. PICK m \in Nat : n <= m /\ Number[b] <= m
    <3>1. n <= n + Number[b] /\ Number[b] <= n + Number[b] /\ n + Number[b] \in Nat BY <1>1
    <3> QED BY <3>1
  <2>3. \A k \in DOMAIN cells' : k[2] <= m
    <3> TAKE k \in DOMAIN cells'
    <3>1. k[2] <= n BY <2>1
    <3>2. k \in CellKeys BY DEF IndexInv, KeysTyped
    <3>3. k[2] \in Nat BY <3>2 DEF CellKeys
    <3> QED BY <3>1, <3>3, <2>2
  <2>4. \A u \in DOMAIN txs' : txs'[u].number <= m
    <3> TAKE u \in DOMAIN txs'
    <3>1. txs'[u].number <= n \/ txs'[u].number = Number[b] BY <1>2, <2>1
    <3>2. txs'[u].number \in Nat BY <1>4 DEF KeysTyped, Place
    <3> QED BY <3>1, <3>2, <2>2
  <2> QED BY <2>3, <2>4 DEF Bounded
<1> QED BY <1>4, <1>6, <1>7 DEF IndexInv

-----------------------------------------------------------------------------
(* The invariant holds initially and every action keeps it.                  *)

\* The database of a new client.
LEMMA IndexInit == Init => Typed /\ IndexInv
<1> SUFFICES ASSUME Init PROVE Typed /\ IndexInv OBVIOUS
<1>1. DOMAIN EmptyMap = {} BY DEF EmptyMap
<1>2. Typed BY <1>1, ChainAssumption DEF Init, Typed
<1>3. DOMAIN txs \subseteq Transactions /\ \A t \in DOMAIN txs : txs[t] \in Place /\ txs[t].number = 0
  <2>1. Genesis \in Blocks BY ChainAssumption
  <2>2. \A i \in DOMAIN Body[Genesis] : i \in Indexes /\ Body[Genesis][i] \in Transactions
    BY <2>1, BodyTyped
  <2> DEFINE at(t) == CHOOSE i \in DOMAIN Body[Genesis] : Body[Genesis][i] = t
  <2>3. /\ DOMAIN txs = {Body[Genesis][i] : i \in DOMAIN Body[Genesis]}
        /\ \A t \in DOMAIN txs : txs[t] = [number |-> 0, index |-> at(t)]
    BY DEF Init, GenesisTxs
  <2>4. \A t \in DOMAIN txs : at(t) \in Indexes
    BY <2>2, <2>3
  <2> HIDE DEF at
  <2>5. \A i \in Indexes : [number |-> 0, index |-> i] \in Place BY DEF Place
  <2>6. DOMAIN txs \subseteq Transactions BY <2>2, <2>3
  <2>7. \A t \in DOMAIN txs : txs[t] \in Place BY <2>3, <2>4, <2>5, Zenon
  <2>8. \A t \in DOMAIN txs : txs[t].number = 0
    <3> TAKE t \in DOMAIN txs
    <3>1. txs[t] = [number |-> 0, index |-> at(t)] BY <2>3, Zenon
    <3> QED BY ONLY <3>1
  <2> QED BY <2>6, <2>7, <2>8
<1>4. KeysTyped BY <1>1, <1>3 DEF Init, KeysTyped
<1>5. Indexed BY <1>1, <1>3 DEF Init, Indexed
<1>6. Bounded
  <2>1. 0 \in Nat /\ 0 <= 0 OBVIOUS
  <2> QED BY <1>1, <1>3, <2>1 DEF Init, Bounded
<1> QED BY <1>2, <1>4, <1>5, <1>6 DEF IndexInv

\* A step that leaves the tables alone keeps the index.
LEMMA SameIndex ==
    ASSUME IndexInv, UNCHANGED <<txs, cells, history, byNumber, headers>>
    PROVE  IndexInv'
BY DEF IndexInv, KeysTyped, Indexed, Bounded

\* update_filter_scripts registers scripts of the commands.
LEMMA NewScriptsTyped ==
    ASSUME Typed, NEW c \in Commands
    PROVE  DOMAIN NewScripts(c) \subseteq Scripts
<1>1. c.command \in {"all", "partial", "delete"} /\ DOMAIN c.scripts \subseteq Scripts
  BY CellsAssumption
<1>2. DOMAIN scripts \subseteq Scripts BY DEF Typed
<1>3. CASE c.command = "all" BY <1>1, <1>3 DEF NewScripts
<1>4. CASE c.command = "partial" BY <1>1, <1>2, <1>4 DEF NewScripts
<1>5. CASE c.command = "delete" BY <1>2, <1>5 DEF NewScripts
<1> QED BY <1>1, <1>3, <1>4, <1>5

\* Every step keeps the types and the index.
LEMMA IndexStep == Typed /\ IndexInv /\ [Next]_vars => Typed' /\ IndexInv'
<1> SUFFICES ASSUME Typed, IndexInv, [Next]_vars PROVE Typed' /\ IndexInv' OBVIOUS
<1>1. ASSUME NEW c \in Commands, SetScripts(c) PROVE Typed' /\ IndexInv'
  <2> DEFINE new == NewScripts(c)
             genesis == c.command # "delete" /\ \E s \in DOMAIN c.scripts : c.scripts[s] = 0
  <2>1. /\ scripts' = new /\ tip' = tip /\ asked' = asked /\ askedHeaders' = askedHeaders
        /\ IF genesis THEN FilterBlock(Genesis, new)
                      ELSE UNCHANGED <<cells, history, txs, byNumber, headers>>
    BY <1>1 DEF SetScripts
  <2>2. DOMAIN new \subseteq Scripts BY NewScriptsTyped
  <2> HIDE DEF new, genesis
  <2>3. Typed' BY <2>1, <2>2 DEF Typed
  <2>4. CASE genesis BY <2>1, <2>2, <2>3, <2>4, FilterBlockStep, ChainAssumption
  <2>5. CASE ~genesis BY <2>1, <2>3, <2>5, SameIndex
  <2> QED BY <2>4, <2>5
<1>2. ASSUME FilterNext PROVE Typed' /\ IndexInv'
  <2>1. PICK b \in Ancestors[tip] :
          /\ DOMAIN scripts' = DOMAIN scripts
          /\ tip' = tip /\ asked' = asked /\ askedHeaders' = askedHeaders
          /\ \/ FilterBlock(b, scripts)
             \/ UNCHANGED <<cells, history, txs, byNumber, headers>>
    BY <1>2 DEF FilterNext
  <2>2. b \in Blocks BY ChainAssumption DEF Typed
  <2>3. Typed' BY <2>1 DEF Typed
  <2>4. CASE FilterBlock(b, scripts) BY <2>2, <2>3, <2>4, FilterBlockStep DEF Typed
  <2>5. CASE UNCHANGED <<cells, history, txs, byNumber, headers>> BY <2>3, <2>5, SameIndex
  <2> QED BY <2>1, <2>4, <2>5
<1>3. ASSUME NEW h \in Heads, MoveTip(h) PROVE Typed' /\ IndexInv'
  <2>1. h \in Blocks BY CellsAssumption
  <2>2. tip' = h /\ asked' = asked /\ askedHeaders' = askedHeaders BY <1>3 DEF MoveTip
  <2>3. CASE tip \in Ancestors[h]
    <3>1. UNCHANGED <<scripts, txs, cells, history, byNumber, headers>>
      BY <1>3, <2>3 DEF MoveTip, dbVars
    <3>2. Typed' BY <2>1, <2>2, <3>1 DEF Typed
    <3> QED BY <3>1, <3>2, SameIndex
  <2>4. CASE tip \notin Ancestors[h]
    <3>1. PICK to : RollbackToBlock(to) BY <1>3, <2>4 DEF MoveTip
    <3>2. IndexInv' /\ DOMAIN scripts' = DOMAIN scripts BY <3>1, RollbackStep
    <3> QED BY <2>1, <2>2, <3>2 DEF Typed
  <2> QED BY <2>3, <2>4
<1>4. ASSUME NEW t \in Transactions, FetchTransaction(t) PROVE Typed' /\ IndexInv'
  <2>1. Typed' BY <1>4 DEF FetchTransaction, Typed, dbVars
  <2> QED BY <1>4, <2>1, SameIndex DEF FetchTransaction, dbVars
<1>5. ASSUME NEW a \in asked, TransactionAnswered(a) PROVE Typed' /\ IndexInv'
  <2>1. a[1] \in Transactions /\ a[2] \in Blocks BY DEF Typed
  <2>2. Typed' BY <1>5 DEF TransactionAnswered, Typed, dbVars
  <2>3. \/ UNCHANGED dbVars
        \/ /\ \E b \in Ancestors[a[2]] : AddFetchedTx(a[1], b)
           /\ cells' = cells /\ history' = history
    BY <1>5 DEF TransactionAnswered
  <2>4. CASE UNCHANGED dbVars BY <2>2, <2>4, SameIndex DEF dbVars
  <2>5. CASE /\ \E b \in Ancestors[a[2]] : AddFetchedTx(a[1], b)
             /\ cells' = cells /\ history' = history
    <3>1. PICK b \in Ancestors[a[2]] : AddFetchedTx(a[1], b) BY <2>5
    <3>2. b \in Blocks BY <2>1, ChainAssumption
    <3> QED BY <2>1, <2>2, <2>5, <3>1, <3>2, FetchedTxStep
  <2> QED BY <2>3, <2>4, <2>5
<1>6. ASSUME NEW b \in Headers, FetchHeader(b) PROVE Typed' /\ IndexInv'
  <2>1. b \in Blocks BY CellsAssumption
  <2>2. Typed' BY <1>6, <2>1 DEF FetchHeader, Typed, dbVars
  <2> QED BY <1>6, <2>2, SameIndex DEF FetchHeader, dbVars
<1>7. ASSUME NEW a \in askedHeaders, HeaderAnswered(a) PROVE Typed' /\ IndexInv'
  <2>1. Typed' BY <1>7 DEF HeaderAnswered, Typed
  <2>2. /\ headers' = headers \cup {a[1]} /\ byNumber' = Put(byNumber, Number[a[1]], a[1])
        /\ UNCHANGED <<txs, cells, history>>
    BY <1>7 DEF HeaderAnswered
  <2>3. /\ DOMAIN byNumber \subseteq DOMAIN byNumber'
        /\ \A n \in DOMAIN byNumber' : byNumber'[n] \in headers'
    BY <2>2 DEF Put, IndexInv, Indexed
  <2>4. IndexInv' BY <2>2, <2>3 DEF IndexInv, KeysTyped, Indexed, Bounded
  <2> QED BY <2>1, <2>4
<1>8. ASSUME NEW s \in Scripts, NEW order \in {"asc", "desc"}, ScanStart(s, order)
      PROVE  Typed' /\ IndexInv'
  <2>1. Typed' BY <1>8 DEF ScanStart, Typed, dbVars
  <2> QED BY <1>8, <2>1, SameIndex DEF ScanStart, dbVars
<1>9. ASSUME ScanPage PROVE Typed' /\ IndexInv'
  <2>1. UNCHANGED <<tip, dbVars, asked, askedHeaders>> BY <1>9 DEF ScanPage
  <2>2. Typed' BY <2>1 DEF Typed, dbVars
  <2> QED BY <2>1, <2>2, SameIndex DEF dbVars
<1>10. ASSUME UNCHANGED vars PROVE Typed' /\ IndexInv'
  <2>1. UNCHANGED <<tip, dbVars, asked, askedHeaders>> BY <1>10 DEF vars
  <2>2. Typed' BY <2>1 DEF Typed, dbVars
  <2> QED BY <2>1, <2>2, SameIndex DEF dbVars
<1> QED
  BY <1>1, <1>2, <1>3, <1>4, <1>5, <1>6, <1>7, <1>8, <1>9, <1>10 DEF Next

\* No `expect` of the queries fails, whatever was filtered, rolled back, fetched
\* and registered in whatever order: the transaction of a cell and of a history
\* entry is stored and has that output, and its number leads to a stored header.
THEOREM IndexIsWhole == Spec => []ReadsSucceed
<1>1. Init => Typed /\ IndexInv BY IndexInit
<1>2. Typed /\ IndexInv /\ [Next]_vars => (Typed /\ IndexInv)' BY IndexStep
<1>3. Typed /\ IndexInv => ReadsSucceed BY DEF IndexInv, Indexed, ReadsSucceed
<1> QED BY <1>1, <1>2, <1>3, PTL DEF Spec

-----------------------------------------------------------------------------
(* Pages.                                                                    *)

\* Keys of one script.
OneScript(K) == K \in SUBSET CellKeys /\ \A j, k \in K : j[1] = k[1]

\* The keys of one script are in a strict total order, either way.
LEMMA BeforeOrder ==
    ASSUME NEW K, OneScript(K), NEW order \in {"asc", "desc"}
    PROVE  /\ \A k \in K : ~Before(order, k, k)
           /\ \A j, k \in K : j = k \/ Before(order, j, k) \/ Before(order, k, j)
           /\ \A i, j, k \in K : Before(order, i, j) /\ Before(order, j, k) => Before(order, i, k)
<1>1. \A k \in K : Rank(k) \in Nat BY RankIsExact DEF OneScript
<1>2. \A j, k \in K : Rank(j) = Rank(k) => j = k BY RankIsExact DEF OneScript
<1>3. CASE order = "asc" BY <1>1, <1>2, <1>3 DEF Before
<1>4. CASE order = "desc" BY <1>1, <1>2, <1>4 DEF Before
<1> QED BY <1>3, <1>4

\* A nonempty finite set of keys has a last one.
LEMMA LastOfIsLast ==
    ASSUME NEW K, OneScript(K), IsFiniteSet(K), K # {}, NEW order \in {"asc", "desc"}
    PROVE  /\ LastOf(K, order) \in K
           /\ \A j \in K : j = LastOf(K, order) \/ Before(order, j, LastOf(K, order))
<1> DEFINE B(j, k) == Before(order, j, k)
           Below(k) == {j \in K : B(j, k)}
           T == {Cardinality(Below(k)) : k \in K}
<1>1. \A k \in K : IsFiniteSet(Below(k)) /\ Cardinality(Below(k)) \in Nat
                   /\ Cardinality(Below(k)) <= Cardinality(K)
  <2> TAKE k \in K
  <2>1. Below(k) \in SUBSET K OBVIOUS
  <2>2. IsFiniteSet(Below(k)) /\ Cardinality(Below(k)) <= Cardinality(K) BY <2>1, FS_Subset
  <2> QED BY <2>2, FS_CardinalityType
<1>2. Cardinality(K) \in Nat BY FS_CardinalityType
<1>3. \A i, j, k \in K : ~B(k, k) /\ (j = k \/ B(j, k) \/ B(k, j)) /\ (B(i, j) /\ B(j, k) => B(i, k))
  BY BeforeOrder
<1> HIDE DEF B
<1>4. \A j, k \in K : B(j, k) => Cardinality(Below(j)) < Cardinality(Below(k))
  <2> SUFFICES ASSUME NEW j \in K, NEW k \in K, B(j, k)
               PROVE  Cardinality(Below(j)) < Cardinality(Below(k))
    OBVIOUS
  <2>1. Below(j) \in SUBSET Below(k) BY <1>3
  <2>2. j \in Below(k) /\ j \notin Below(j) BY <1>3
  <2> HIDE DEF Below
  <2>3. /\ Cardinality(Below(j)) <= Cardinality(Below(k))
        /\ Cardinality(Below(k)) = Cardinality(Below(j)) => Below(k) = Below(j)
    BY <1>1, <2>1, FS_Subset
  <2>4. Cardinality(Below(k)) # Cardinality(Below(j)) BY <2>2, <2>3
  <2> QED BY <1>1, <2>3, <2>4
<1>5. T \in SUBSET Nat /\ T # {} /\ \A x \in T : x <= Cardinality(K) BY <1>1
<1>6. MaxOf(T) \in T /\ \A x \in T : x <= MaxOf(T) BY <1>2, <1>5, MaxOfIsMax
<1>7. PICK k \in K : MaxOf(T) = Cardinality(Below(k)) BY <1>6
<1>8. \A j \in K : j = k \/ B(j, k)
  <2> TAKE j \in K
  <2>1. Cardinality(Below(j)) \in T OBVIOUS
  <2>2. Cardinality(Below(j)) <= Cardinality(Below(k)) BY <1>6, <1>7, <2>1
  <2>3. ~B(k, j)
    <3>1. B(k, j) => Cardinality(Below(k)) < Cardinality(Below(j)) BY <1>4
    <3>2. Cardinality(Below(k)) \in Nat /\ Cardinality(Below(j)) \in Nat BY <1>1
    <3> HIDE DEF Below
    <3> QED BY <2>2, <3>1, <3>2
  <2> QED BY <1>3, <2>3
<1>9. \E l \in K : \A j \in K : j = l \/ Before(order, j, l) BY <1>8 DEF B
<1> QED BY <1>9 DEF LastOf

\* A page has the keys before each of its keys, and a short page has all keys.
LEMMA TakeFacts ==
    ASSUME NEW K, OneScript(K), IsFiniteSet(K), NEW order \in {"asc", "desc"}, NEW n \in Nat
    PROVE  /\ Take(K, order, n) \in SUBSET K
           /\ \A k \in Take(K, order, n), j \in K : Before(order, j, k) => j \in Take(K, order, n)
           /\ Cardinality(Take(K, order, n)) < n => Take(K, order, n) = K
<1> DEFINE B(j, k) == Before(order, j, k)
           Below(k) == {j \in K : B(j, k)}
           Page == Take(K, order, n)
<1>1. Page = {k \in K : Cardinality(Below(k)) < n} BY DEF Take
<1>2. \A k \in K : IsFiniteSet(Below(k)) /\ Cardinality(Below(k)) \in Nat
  <2> TAKE k \in K
  <2>1. Below(k) \in SUBSET K OBVIOUS
  <2>2. IsFiniteSet(Below(k)) BY <2>1, FS_Subset
  <2> QED BY <2>2, FS_CardinalityType
<1>3. \A i, j, k \in K : ~B(k, k) /\ (j = k \/ B(j, k) \/ B(k, j)) /\ (B(i, j) /\ B(j, k) => B(i, k))
  BY BeforeOrder
<1> HIDE DEF B, Page
<1>4. \A j, k \in K : B(j, k) => Cardinality(Below(j)) <= Cardinality(Below(k))
  <2> SUFFICES ASSUME NEW j \in K, NEW k \in K, B(j, k)
               PROVE  Cardinality(Below(j)) <= Cardinality(Below(k))
    OBVIOUS
  <2>1. Below(j) \in SUBSET Below(k) BY <1>3
  <2> HIDE DEF Below
  <2> QED BY <1>2, <2>1, FS_Subset
<1>5. \A k \in Page, j \in K : B(j, k) => j \in Page
  <2> SUFFICES ASSUME NEW k \in Page, NEW j \in K, B(j, k) PROVE j \in Page OBVIOUS
  <2>1. k \in K /\ Cardinality(Below(k)) < n BY <1>1
  <2>2. Cardinality(Below(j)) <= Cardinality(Below(k)) BY <1>4, <2>1
  <2>3. Cardinality(Below(k)) \in Nat /\ Cardinality(Below(j)) \in Nat BY <1>2, <2>1
  <2> HIDE DEF Below
  <2>4. Cardinality(Below(j)) < n BY <2>1, <2>2, <2>3
  <2> QED BY <1>1, <2>4
<1>6. ASSUME Cardinality(Page) < n PROVE Page = K
  <2> SUFFICES ASSUME Page # K PROVE FALSE OBVIOUS
  <2> DEFINE T == {Cardinality(Below(k)) : k \in K \ Page}
  <2>1. K \ Page # {} BY <1>1
  <2>2. T \in SUBSET Nat /\ T # {} BY <1>2, <2>1
  <2>3. PICK t \in T : \A u \in T : t <= u BY <2>2, NatMin
  <2>4. PICK k \in K \ Page : t = Cardinality(Below(k)) OBVIOUS
  <2>5. Below(k) \subseteq Page
    <3> SUFFICES ASSUME NEW j \in K, B(j, k), j \notin Page PROVE FALSE OBVIOUS
    <3>1. Cardinality(Below(j)) \in T OBVIOUS
    <3>2. Cardinality(Below(k)) <= Cardinality(Below(j)) BY <3>1, <2>3, <2>4
    <3>3. Below(j) \in SUBSET Below(k) /\ j \in Below(k) /\ j \notin Below(j) BY <1>3
    <3> HIDE DEF Below, T
    <3>4. /\ Cardinality(Below(j)) <= Cardinality(Below(k))
          /\ Cardinality(Below(k)) = Cardinality(Below(j)) => Below(k) = Below(j)
      BY <1>2, <3>3, FS_Subset
    <3>5. Cardinality(Below(k)) = Cardinality(Below(j)) BY <1>2, <3>2, <3>4
    <3> QED BY <3>3, <3>4, <3>5
  <2>6. IsFiniteSet(Page) /\ Cardinality(Page) \in Nat
    <3>1. Page \in SUBSET K BY <1>1
    <3>2. IsFiniteSet(Page) BY <3>1, FS_Subset
    <3> QED BY <3>2, FS_CardinalityType
  <2> HIDE DEF T
  <2>7. Cardinality(Below(k)) <= Cardinality(Page)
    <3>1. Below(k) \in SUBSET Page BY <2>5
    <3> HIDE DEF Below
    <3> QED BY <2>6, <3>1, FS_Subset
  <2>8. Cardinality(Below(k)) \in Nat BY <1>2
  <2>9. Cardinality(Below(k)) < n
    <3> HIDE DEF Below
    <3> QED BY <1>6, <2>6, <2>7, <2>8
  <2> QED BY <1>1, <2>4, <2>9
<1>7. Page \in SUBSET K BY <1>1
<1> QED BY <1>5, <1>6, <1>7 DEF Page, B

\* The cells of a script are finitely many.
LEMMA CellsOfFinite ==
    ASSUME IndexInv, NEW s
    PROVE  OneScript(CellsOf(s)) /\ IsFiniteSet(CellsOf(s))
<1>1. DOMAIN cells \subseteq CellKeys BY DEF IndexInv, KeysTyped
<1>2. OneScript(CellsOf(s)) BY <1>1 DEF OneScript, CellsOf
<1>3. PICK n \in Nat : \A k \in DOMAIN cells : k[2] <= n BY DEF IndexInv, Bounded
<1> DEFINE P == ((0 .. n) \X Indexes) \X Indexes
           f == [p \in P |-> <<s, p[1][1], p[1][2], p[2]>>]
           T == {f[p] : p \in P}
<1>4. IsFiniteSet(P)
  <2>1. MaxIndex \in Int /\ n \in Int /\ 0 \in Int BY CellsAssumption
  <2>2. IsFiniteSet(0 .. n) /\ IsFiniteSet(Indexes) BY <2>1, FS_Interval DEF Indexes
  <2>3. IsFiniteSet((0 .. n) \X Indexes) BY <2>2, FS_Product
  <2> QED BY <2>2, <2>3, FS_Product
<1>5. f \in Surjection(P, T)
  <2>1. f \in [P -> T] OBVIOUS
  <2>2. \A t \in T : \E p \in P : f[p] = t OBVIOUS
  <2> QED BY <2>1, <2>2 DEF Surjection
<1>6. IsFiniteSet(T) 
  <2> HIDE DEF f, T, P
  <2> QED BY <1>4, <1>5, FS_Surjection
<1>7. CellsOf(s) \in SUBSET T
  <2> SUFFICES ASSUME NEW k \in CellsOf(s) PROVE k \in T OBVIOUS
  <2>1. k \in CellKeys /\ k[1] = s /\ k[2] <= n BY <1>1, <1>3 DEF CellsOf
  <2>2. /\ k[2] \in Nat /\ k[3] \in Indexes /\ k[4] \in Indexes
        /\ k = <<s, k[2], k[3], k[4]>>
    BY <2>1 DEF CellKeys
  <2>3. <<<<k[2], k[3]>>, k[4]>> \in P BY <2>1, <2>2
  <2>4. f[<<<<k[2], k[3]>>, k[4]>>] = k BY <2>2, <2>3
  <2> QED BY <2>3, <2>4
<1> HIDE DEF T
<1>8. IsFiniteSet(CellsOf(s)) BY <1>6, <1>7, FS_Subset
<1> QED BY <1>2, <1>8

-----------------------------------------------------------------------------
(* A caller that pages while the index changes.                              *)

ScanTyped ==
    scan \in [on : BOOLEAN, script : Scripts \cup {None}, order : {"asc", "desc"},
              cursor : CellKeys \cup {None}, seen : SUBSET CellKeys,
              live : SUBSET CellKeys, moved : BOOLEAN, missed : SUBSET CellKeys]

\* The cells that have stayed and are not after the cursor have been seen, as
\* long as the cell under the cursor stays.
ScanInv ==
    /\ ScanTyped
    /\ ScanIsComplete
    /\ scan.on =>
          /\ scan.missed = {}
          /\ scan.live \subseteq CellsOf(scan.script)
          /\ ~scan.moved /\ scan.cursor # None =>
                /\ scan.cursor \in CellsOf(scan.script)
                /\ \A k \in scan.live :
                      ~Before(scan.order, scan.cursor, k) => k \in scan.seen

\* No caller yet.
LEMMA ScanInit == Init => ScanInv
BY DEF Init, NoScan, ScanInv, ScanTyped, ScanIsComplete

\* A step that changes neither the cells nor the caller.
LEMMA SameScan ==
    ASSUME ScanInv, scan' = scan, cells' = cells
    PROVE  ScanInv'
BY DEF ScanInv, ScanTyped, ScanIsComplete, CellsOf

\* A step that changes the cells: what stays in view of the caller is in the
\* index, and the caller knows whether the cell under its cursor is gone.
LEMMA WatchStep ==
    ASSUME ScanInv, Watch
    PROVE  ScanInv'
<1> DEFINE new == [scan EXCEPT
                      !.live = @ \cap DOMAIN cells',
                      !.moved = @ \/ (scan.on /\ scan.cursor # None
                                        /\ scan.cursor \notin DOMAIN cells')]
<1>1. scan' = new BY DEF Watch
<1>2. /\ scan'.on = scan.on /\ scan'.script = scan.script /\ scan'.order = scan.order
      /\ scan'.cursor = scan.cursor /\ scan'.seen = scan.seen
      /\ scan'.missed = scan.missed
      /\ scan'.live = scan.live \cap DOMAIN cells'
      /\ scan'.moved = (scan.moved \/ (scan.on /\ scan.cursor # None
                                         /\ scan.cursor \notin DOMAIN cells'))
      /\ ScanTyped'
  BY <1>1 DEF ScanInv, ScanTyped
<1>3. ScanIsComplete' BY <1>2 DEF ScanInv, ScanIsComplete
<1>4. ASSUME scan.on
      PROVE  /\ scan'.missed = {}
             /\ scan'.live \subseteq CellsOf(scan.script)'
             /\ ~scan'.moved /\ scan'.cursor # None =>
                   /\ scan'.cursor \in CellsOf(scan.script)'
                   /\ \A k \in scan'.live :
                         ~Before(scan'.order, scan'.cursor, k) => k \in scan'.seen
  <2>1. scan'.missed = {} BY <1>2, <1>4 DEF ScanInv
  <2>2. scan'.live \subseteq CellsOf(scan.script)' BY <1>2, <1>4 DEF ScanInv, CellsOf
  <2>3. ASSUME ~scan'.moved, scan'.cursor # None
        PROVE  /\ scan'.cursor \in CellsOf(scan.script)'
               /\ \A k \in scan'.live :
                     ~Before(scan'.order, scan'.cursor, k) => k \in scan'.seen
    <3>1. ~scan.moved /\ scan.cursor # None /\ scan.cursor \in DOMAIN cells'
      BY <1>2, <1>4, <2>3
    <3>2. /\ scan.cursor \in CellsOf(scan.script)
          /\ \A k \in scan.live : ~Before(scan.order, scan.cursor, k) => k \in scan.seen
      BY <3>1, <1>4 DEF ScanInv
    <3>3. scan'.cursor \in CellsOf(scan.script)' BY <1>2, <3>1, <3>2 DEF CellsOf
    <3> QED BY <1>2, <3>2, <3>3
  <2> QED BY <2>1, <2>2, <2>3
<1> QED BY <1>2, <1>3, <1>4 DEF ScanInv

\* The caller starts before the first cell.
LEMMA ScanStartStep ==
    ASSUME IndexInv, ScanInv, NEW s \in Scripts, NEW order \in {"asc", "desc"},
           ScanStart(s, order)
    PROVE  ScanInv'
<1>1. cells' = cells BY DEF ScanStart, dbVars
<1>2. scan' = [on |-> TRUE, script |-> s, order |-> order, cursor |-> None,
               seen |-> {}, live |-> CellsOf(s), moved |-> FALSE, missed |-> {}]
  BY DEF ScanStart, NoScan
<1>3. CellsOf(s) \subseteq CellKeys BY DEF CellsOf, IndexInv, KeysTyped
<1>4. ScanTyped' BY <1>2, <1>3 DEF ScanTyped
<1>5. CellsOf(s)' = CellsOf(s) BY <1>1 DEF CellsOf
<1> QED BY <1>2, <1>4, <1>5 DEF ScanInv, ScanIsComplete

\* The cells after the cursor are those the next page is taken from, when the
\* cell under the cursor is there to be skipped.
LEMMA IterateFacts ==
    ASSUME NEW K, OneScript(K), NEW order \in {"asc", "desc"}, NEW cursor
    PROVE  /\ Iterate(K, order, cursor) \in SUBSET K
           /\ cursor = None => Iterate(K, order, cursor) = K
           /\ cursor \in K =>
                \A k \in K : Before(order, cursor, k) => k \in Iterate(K, order, cursor)
<1>1. \A i, j, k \in K : /\ ~Before(order, k, k)
                         /\ Before(order, i, j) /\ Before(order, j, k) => Before(order, i, k)
  BY BeforeOrder
<1>2. CASE cursor = None BY <1>2 DEF Iterate
<1>3. CASE cursor # None
  <2>1. Iterate(K, order, cursor) =
          {k \in {k \in K : ~Before(order, k, cursor)} :
             \E j \in {k1 \in K : ~Before(order, k1, cursor)} : Before(order, j, k)}
    BY <1>3 DEF Iterate
  <2>2. ASSUME cursor \in K, NEW k \in K, Before(order, cursor, k)
        PROVE  k \in Iterate(K, order, cursor)
    <3>1. ~Before(order, cursor, cursor) /\ ~Before(order, k, cursor) BY <1>1, <2>2
    <3> QED BY <2>1, <2>2, <3>1
  <2> QED BY <1>3, <2>1, <2>2
<1> QED BY <1>2, <1>3

\* A page without a filter is taken from all cells after the cursor.
LEMMA CellPageIs ==
    ASSUME NEW s, NEW order, NEW cursor, NEW n
    PROVE  LET f == [script |-> None, from |-> 0, to |-> None]
               page == Take(Iterate(CellsOf(s), order, cursor), order, n)
           IN  CellPage(s, f, order, cursor, n)
                 = [page |-> page, cursor |-> IF page = {} THEN None ELSE LastOf(page, order)]
<1> DEFINE f == [script |-> None, from |-> 0, to |-> None]
<1>1. f.script = None /\ f.to = None OBVIOUS
<1> HIDE DEF f
<1>2. \A k : CellMatches(k, f) BY <1>1 DEF CellMatches, InRange
<1>3. {k \in Iterate(CellsOf(s), order, cursor) : CellMatches(k, f)}
        = Iterate(CellsOf(s), order, cursor)
  BY <1>2
<1>4. CellPage(s, f, order, cursor, n) =
        LET page == Take({k \in Iterate(CellsOf(s), order, cursor) : CellMatches(k, f)}, order, n)
        IN  [page |-> page, cursor |-> IF page = {} THEN None ELSE LastOf(page, order)]
  BY DEF CellPage
<1> QED BY <1>3, <1>4 DEF f

\* The next page: every cell that stayed and is not after the new cursor has
\* been seen, and a short page has all that were left.
LEMMA ScanPageStep ==
    ASSUME IndexInv, ScanInv, ScanPage
    PROVE  ScanInv'
<1> DEFINE K == CellsOf(scan.script)
           order == scan.order
           next == Iterate(K, order, scan.cursor)
           page == Take(next, order, Limit)
           cursor == IF page = {} THEN None ELSE LastOf(page, order)
           ended == Cardinality(page) < Limit
<1>1. scan.on /\ cells' = cells BY DEF ScanPage, dbVars
<1>2. CellPage(scan.script, [script |-> None, from |-> 0, to |-> None],
               scan.order, scan.cursor, Limit)
        = [page |-> page, cursor |-> cursor]
  BY CellPageIs
<1>3. scan' = IF ended
              THEN [NoScan EXCEPT !.moved = scan.moved,
                                  !.missed = scan.live \ (scan.seen \cup page)]
              ELSE [scan EXCEPT !.seen = @ \cup page, !.cursor = cursor]
  <2> DEFINE r == CellPage(scan.script, [script |-> None, from |-> 0, to |-> None],
                           scan.order, scan.cursor, Limit)
  <2>1. scan' = IF Cardinality(r.page) < Limit
                THEN [NoScan EXCEPT !.moved = scan.moved,
                                    !.missed = scan.live \ (scan.seen \cup r.page)]
                ELSE [scan EXCEPT !.seen = @ \cup r.page, !.cursor = r.cursor]
    BY DEF ScanPage
  <2> HIDE DEF page, cursor, r
  <2>2. r.page = page /\ r.cursor = cursor BY <1>2 DEF r
  <2> QED BY ONLY <2>1, <2>2
<1>4. order \in {"asc", "desc"} BY DEF ScanInv, ScanTyped
<1>5. OneScript(K) /\ IsFiniteSet(K) BY CellsOfFinite
<1>6. K \in SUBSET CellKeys BY <1>5 DEF OneScript
<1>7. /\ next \in SUBSET K
      /\ scan.cursor = None => next = K
      /\ scan.cursor \in K => \A k \in K : Before(order, scan.cursor, k) => k \in next
  BY <1>4, <1>5, IterateFacts
<1>8. /\ scan.missed = {} /\ scan.live \subseteq K
      /\ ~scan.moved /\ scan.cursor # None =>
            /\ scan.cursor \in K
            /\ \A k \in scan.live : ~Before(order, scan.cursor, k) => k \in scan.seen
  BY <1>1 DEF ScanInv
<1> HIDE DEF K, order, next
<1>9. OneScript(next) /\ IsFiniteSet(next)
  <2>1. IsFiniteSet(next) BY <1>5, <1>7, FS_Subset
  <2> QED BY <1>5, <1>7, <2>1 DEF OneScript
<1>10. Limit \in Nat BY CellsAssumption
<1>11. /\ page \in SUBSET next
       /\ \A k \in page, j \in next : Before(order, j, k) => j \in page
       /\ ended => page = next
  BY <1>4, <1>9, <1>10, TakeFacts
<1>12. page # {} => /\ cursor \in page
                    /\ \A j \in page : j = cursor \/ Before(order, j, cursor)
  <2> SUFFICES ASSUME page # {}
               PROVE  /\ LastOf(page, order) \in page
                      /\ \A j \in page : j = LastOf(page, order)
                                         \/ Before(order, j, LastOf(page, order))
    OBVIOUS
  <2> HIDE DEF page
  <2>1. OneScript(page) /\ IsFiniteSet(page)
    <3>1. IsFiniteSet(page) BY <1>9, <1>11, FS_Subset
    <3> QED BY <1>9, <1>11, <3>1 DEF OneScript
  <2> QED BY <1>4, <2>1, LastOfIsLast
<1>13. page = {} => cursor = None OBVIOUS
<1> HIDE DEF page, cursor
\* What the caller has not seen and is in view is in the set the page is from.
<1>14. ASSUME ~scan.moved PROVE \A k \in scan.live : k \in scan.seen \/ k \in next
  <2> TAKE k \in scan.live
  <2>1. CASE scan.cursor = None BY <1>7, <1>8, <2>1
  <2>2. CASE scan.cursor # None BY <1>7, <1>8, <1>14, <2>2
  <2> QED BY <2>1, <2>2
<1>15. page \subseteq CellKeys BY <1>6, <1>7, <1>11
<1>16. CASE ended
  <2>1. scan' = [on |-> FALSE, script |-> None, order |-> "asc", cursor |-> None,
                 seen |-> {}, live |-> {}, moved |-> scan.moved,
                 missed |-> scan.live \ (scan.seen \cup page)]
    BY <1>3, <1>16 DEF NoScan
  <2>2. ScanTyped' BY <2>1 DEF ScanTyped, ScanInv
  <2>3. scan.moved \/ scan.live \ (scan.seen \cup page) = {} BY <1>11, <1>14, <1>16
  <2> QED BY <2>1, <2>2, <2>3 DEF ScanInv, ScanIsComplete
<1>17. CASE ~ended
  <2>1. /\ scan'.on = scan.on /\ scan'.script = scan.script /\ scan'.order = scan.order
        /\ scan'.cursor = cursor /\ scan'.seen = scan.seen \cup page
        /\ scan'.missed = scan.missed /\ scan'.live = scan.live /\ scan'.moved = scan.moved
        /\ ScanTyped'
    <3>1. cursor \in CellKeys \cup {None} BY <1>12, <1>13, <1>15
    <3>2. scan' = [scan EXCEPT !.seen = @ \cup page, !.cursor = cursor] BY <1>3, <1>17
    <3> QED BY <1>15, <3>1, <3>2 DEF ScanInv, ScanTyped
  <2>2. CellsOf(scan.script)' = K BY <1>1, <2>1 DEF CellsOf, K
  <2>3. ASSUME ~scan.moved, cursor # None
        PROVE  /\ cursor \in K
               /\ \A k \in scan.live : ~Before(order, cursor, k) => k \in scan.seen \cup page
    <3>1. cursor \in page /\ cursor \in next /\ cursor \in K
      BY <1>7, <1>11, <1>12, <1>13, <2>3
    <3>2. ASSUME NEW k \in scan.live, ~Before(order, cursor, k), k \notin scan.seen
          PROVE  k \in page
      <4>1. k \in next BY <1>14, <2>3, <3>2
      <4>2. k = cursor \/ Before(order, k, cursor)
        BY <1>4, <1>9, <3>1, <3>2, <4>1, BeforeOrder
      <4> QED BY <1>11, <3>1, <4>1, <4>2
    <3> QED BY <3>1, <3>2
  <2>4. ScanIsComplete' BY <1>8, <2>1 DEF ScanIsComplete
  <2>5. /\ scan'.missed = {}
        /\ scan'.live \subseteq CellsOf(scan.script)'
    BY <1>8, <2>1, <2>2
  <2>6. ~scan'.moved /\ scan'.cursor # None =>
          /\ scan'.cursor \in CellsOf(scan.script)'
          /\ \A k \in scan'.live :
                ~Before(scan'.order, scan'.cursor, k) => k \in scan'.seen
    BY <2>1, <2>2, <2>3 DEF order
  <2> QED BY <2>1, <2>4, <2>5, <2>6 DEF ScanInv
<1> QED BY <1>16, <1>17

\* Every step keeps what the caller has seen in line with the index.
LEMMA ScanStep == IndexInv /\ ScanInv /\ [Next]_vars => ScanInv'
<1> SUFFICES ASSUME IndexInv, ScanInv, [Next]_vars PROVE ScanInv' OBVIOUS
<1>1. ASSUME NEW c \in Commands, SetScripts(c) PROVE ScanInv'
  BY <1>1, WatchStep DEF SetScripts
<1>2. ASSUME FilterNext PROVE ScanInv'
  BY <1>2, WatchStep DEF FilterNext
<1>3. ASSUME NEW h \in Heads, MoveTip(h) PROVE ScanInv'
  BY <1>3, WatchStep DEF MoveTip
<1>4. ASSUME NEW t \in Transactions, FetchTransaction(t) PROVE ScanInv'
  BY <1>4, SameScan DEF FetchTransaction, dbVars
<1>5. ASSUME NEW a \in asked, TransactionAnswered(a) PROVE ScanInv'
  BY <1>5, SameScan DEF TransactionAnswered, dbVars
<1>6. ASSUME NEW b \in Headers, FetchHeader(b) PROVE ScanInv'
  BY <1>6, SameScan DEF FetchHeader, dbVars
<1>7. ASSUME NEW a \in askedHeaders, HeaderAnswered(a) PROVE ScanInv'
  BY <1>7, SameScan DEF HeaderAnswered
<1>8. ASSUME NEW s \in Scripts, NEW order \in {"asc", "desc"}, ScanStart(s, order)
      PROVE  ScanInv'
  BY <1>8, ScanStartStep
<1>9. ASSUME ScanPage PROVE ScanInv'
  BY <1>9, ScanPageStep
<1>10. ASSUME UNCHANGED vars PROVE ScanInv'
  BY <1>10, SameScan DEF vars, dbVars
<1> QED
  BY <1>1, <1>2, <1>3, <1>4, <1>5, <1>6, <1>7, <1>8, <1>9, <1>10 DEF Next

\* A caller of get_cells who passes the cursor of each page on to the next one
\* gets every cell that is in the index all the time, in either order and with
\* any page size, while blocks are filtered and rolled back between the pages,
\* unless the cell under the cursor is removed.
THEOREM ScanCorrect == Spec => []ScanIsComplete
<1>1. Init => Typed /\ IndexInv /\ ScanInv BY IndexInit, ScanInit
<1>2. Typed /\ IndexInv /\ ScanInv /\ [Next]_vars => (Typed /\ IndexInv /\ ScanInv)'
  BY IndexStep, ScanStep
<1>3. Typed /\ IndexInv /\ ScanInv => ScanIsComplete BY DEF ScanInv
<1> QED BY <1>1, <1>2, <1>3, PTL DEF Spec

-----------------------------------------------------------------------------
(* The history of a script is that of its blocks.                            *)

\* Entry e of the history is an output or an input of block b.
InBlock(e, b) ==
    /\ e[2] = Number[b]
    /\ \/ e[5] = 1 /\ <<e[3], e[4]>> \in OutputsIn(b, e[1])
       \/ e[5] = 0 /\ <<e[3], e[4]>> \in InputsIn(b, e[1])

OutEntry(s, b, p) == <<s, Number[b], p[1], p[2], 1>>
InEntry(s, b, p) == <<s, Number[b], p[1], p[2], 0>>

\* The blocks filtered for a registered script are on the chain of the stored
\* tip and not above the number of the script.
AppliedOnChain ==
    /\ applied \in [Scripts -> SUBSET Blocks]
    /\ \A s \in DOMAIN scripts :
          /\ scripts[s] \in Nat
          /\ \A b \in applied[s] : b \in Ancestors[tip] /\ Number[b] <= scripts[s]

\* What is in the history of a script, registered or not, is in a block of that
\* chain, unless a rollback has passed it by.
EntriesOnChain ==
    \A e \in DOMAIN history : <<e[1], "orphaned">> \notin upset =>
        \E b \in Ancestors[tip] : InBlock(e, b) /\ history[e] = Body[b][e[3]]

\* No output of a filtered block is missing.
OutputsEntered ==
    \A s \in DOMAIN scripts : \A b \in applied[s] : \A p \in OutputsIn(b, s) :
        OutEntry(s, b, p) \in DOMAIN history /\ history[OutEntry(s, b, p)] = Body[b][p[1]]

\* Nor is an input that spends a cell of a filtered block, when the blocks were
\* filtered in order.
InputsEntered ==
    \A s \in DOMAIN scripts : <<s, "redone">> \notin upset =>
        \A b, c \in applied[s] : \A p \in InputsIn(b, s) : \A i \in DOMAIN Body[c] :
            Body[c][i] = Inputs[Body[b][p[1]]][p[2]].tx => InEntry(s, b, p) \in DOMAIN history

HistoryInv == AppliedOnChain /\ EntriesOnChain /\ OutputsEntered /\ InputsEntered

\* A batch without deletes keeps every key and takes the value of a put where
\* there is one.
LEMMA CommitPuts ==
    ASSUME NEW map, NEW puts, NEW new, new = Commit(map, puts, {}),
           \A p \in puts : \E l \in puts :
              l.key = p.key /\ \A q \in puts : q.key = p.key => q.at <= l.at
    PROVE  /\ DOMAIN map \subseteq DOMAIN new
           /\ \A p \in puts : p.key \in DOMAIN new
           /\ \A p \in puts : \E l \in puts : l.key = p.key /\ new[p.key] = l.tx
<1> DEFINE added == {p.key : p \in puts}
           last(k) == CHOOSE p \in puts :
                         p.key = k /\ \A q \in puts : q.key = k => q.at <= p.at
<1>1. /\ DOMAIN new = DOMAIN map \cup added
      /\ \A k \in DOMAIN new : new[k] = IF k \in added THEN last(k).tx ELSE map[k]
  BY DEF Commit
<1>2. \A p \in puts : last(p.key) \in puts /\ last(p.key).key = p.key
  <2> TAKE p \in puts
  <2>1. \E l \in puts : l.key = p.key /\ \A q \in puts : q.key = p.key => q.at <= l.at
    OBVIOUS
  <2> QED BY <2>1
<1>3. \A p \in puts : p.key \in added OBVIOUS
<1> HIDE DEF last, added
<1>4. \A p \in puts : p.key \in DOMAIN new /\ new[p.key] = last(p.key).tx BY <1>1, <1>3
<1> QED BY <1>1, <1>2, <1>4

\* The inputs found, one by one.
LEMMA SpentByIs ==
    ASSUME NEW b, NEW i, NEW S, NEW x \in DOMAIN Inputs[Body[b][i]],
           NEW p \in Positions(Inputs[Body[b][i]][x].tx, b, i),
           NEW s \in Outputs[Inputs[Body[b][i]][x].tx][Inputs[Body[b][i]][x].out] \cap S
    PROVE  [script |-> s, input |-> x, tx |-> Inputs[Body[b][i]][x].tx,
            out |-> Inputs[Body[b][i]][x].out, at |-> p] \in SpentBy(b, i, S)
<1> DEFINE in(y) == Inputs[Body[b][i]][y]
           rec(y, q, r) == [script |-> r, input |-> y, tx |-> in(y).tx, out |-> in(y).out, at |-> q]
           Each(y, q) == {rec(y, q, r) : r \in Outputs[in(y).tx][in(y).out] \cap S}
           All(y) == UNION {Each(y, q) : q \in Positions(in(y).tx, b, i)}
<1>1. SpentBy(b, i, S) = UNION {All(y) : y \in DOMAIN Inputs[Body[b][i]]} BY DEF SpentBy
<1>2. rec(x, p, s) \in Each(x, p) OBVIOUS
<1> HIDE DEF rec, Each
<1>3. rec(x, p, s) \in All(x) BY <1>2
<1> HIDE DEF All
<1>4. rec(x, p, s) \in SpentBy(b, i, S) BY <1>1, <1>3
<1> QED BY <1>4 DEF rec

\* The entries that filter_block writes are the outputs and inputs of the block
\* with the scripts asked about; inputs where the spent cell is found.
LEMMA HistoryPutsAre ==
    ASSUME NEW b \in Blocks, NEW S \in SUBSET Scripts
    PROVE  /\ \A p \in HistoryPuts(b, S) : InBlock(p.key, b) /\ p.tx = Body[b][p.key[3]]
           /\ \A s \in S : \A p \in OutputsIn(b, s) :
                 \E q \in HistoryPuts(b, S) : q.key = OutEntry(s, b, p)
           /\ \A s \in S : \A p \in InputsIn(b, s) :
                 Positions(Inputs[Body[b][p[1]]][p[2]].tx, b, p[1]) # {} =>
                    \E q \in HistoryPuts(b, S) : q.key = InEntry(s, b, p)
<1> DEFINE In(i, c) == [key |-> <<c.script, Number[b], i, c.input, 0>>, tx |-> Body[b][i], at |-> 0]
           Out(i, c) == [key |-> <<c.script, Number[b], i, c.out, 1>>, tx |-> Body[b][i], at |-> 0]
<1>1. \A p : p \in HistoryPuts(b, S) <=>
        \E i \in DOMAIN Body[b] : \/ \E c \in SpentBy(b, i, S) : p = In(i, c)
                                  \/ \E c \in CreatedBy(b, i, S) : p = Out(i, c)
  BY DEF HistoryPuts
<1>2. Indexes = 0 .. MaxIndex /\ MaxIndex \in Nat BY CellsAssumption DEF Indexes
<1>3. \A i \in DOMAIN Body[b] : /\ DOMAIN Inputs[Body[b][i]] \subseteq 1 .. MaxIndex
                                /\ DOMAIN Outputs[Body[b][i]] \subseteq 1 .. MaxIndex
  <2> TAKE i \in DOMAIN Body[b]
  <2>1. Body[b][i] \in Transactions BY BodyTyped
  <2>2. /\ Len(Inputs[Body[b][i]]) < MaxIndex
        /\ Len(Outputs[Body[b][i]]) < MaxIndex
        /\ Inputs[Body[b][i]] \in Seq([tx : Transactions, out : Nat])
        /\ Outputs[Body[b][i]] \in Seq(SUBSET Scripts)
    BY <2>1, CellsAssumption
  <2>3. /\ DOMAIN Inputs[Body[b][i]] = 1 .. Len(Inputs[Body[b][i]])
        /\ DOMAIN Outputs[Body[b][i]] = 1 .. Len(Outputs[Body[b][i]])
        /\ Len(Inputs[Body[b][i]]) \in Nat /\ Len(Outputs[Body[b][i]]) \in Nat
    BY <2>2
  <2> QED BY <1>2, <2>2, <2>3
<1>4. ASSUME NEW p \in HistoryPuts(b, S) PROVE InBlock(p.key, b) /\ p.tx = Body[b][p.key[3]]
  <2>1. PICK i \in DOMAIN Body[b] : \/ \E c \in SpentBy(b, i, S) : p = In(i, c)
                                    \/ \E c \in CreatedBy(b, i, S) : p = Out(i, c)
    BY <1>1
  <2>2. CASE \E c \in SpentBy(b, i, S) : p = In(i, c)
    <3>1. PICK c \in SpentBy(b, i, S) : p = In(i, c) BY <2>2
    <3>2. /\ c.input \in DOMAIN Inputs[Body[b][i]]
          /\ c.script \in Outputs[Inputs[Body[b][i]][c.input].tx][Inputs[Body[b][i]][c.input].out]
      BY SMTT(20) DEF SpentBy
    <3>3. <<i, c.input>> \in InputsIn(b, c.script) BY <1>3, <3>2 DEF InputsIn
    <3> QED BY <3>1, <3>3 DEF InBlock
  <2>3. CASE \E c \in CreatedBy(b, i, S) : p = Out(i, c)
    <3>1. PICK c \in CreatedBy(b, i, S) : p = Out(i, c) BY <2>3
    <3>2. /\ c.out \in DOMAIN Outputs[Body[b][i]] /\ c.script \in Outputs[Body[b][i]][c.out]
      BY DEF CreatedBy
    <3>3. <<i, c.out>> \in OutputsIn(b, c.script) BY <1>3, <3>2 DEF OutputsIn
    <3> QED BY <3>1, <3>3 DEF InBlock
  <2> QED BY <2>1, <2>2, <2>3
<1>5. ASSUME NEW s \in S, NEW p \in OutputsIn(b, s)
      PROVE  \E q \in HistoryPuts(b, S) : q.key = OutEntry(s, b, p)
  <2>1. /\ p[1] \in DOMAIN Body[b] /\ p[2] \in DOMAIN Outputs[Body[b][p[1]]]
        /\ s \in Outputs[Body[b][p[1]]][p[2]]
    BY DEF OutputsIn
  <2> DEFINE c == [script |-> s, out |-> p[2]]
  <2>2. c \in CreatedBy(b, p[1], S) BY <2>1 DEF CreatedBy
  <2>3. Out(p[1], c) \in HistoryPuts(b, S) BY <1>1, <2>1, <2>2
  <2>4. Out(p[1], c).key = OutEntry(s, b, p) BY DEF OutEntry
  <2> QED BY <2>3, <2>4
<1>6. ASSUME NEW s \in S, NEW p \in InputsIn(b, s),
             Positions(Inputs[Body[b][p[1]]][p[2]].tx, b, p[1]) # {}
      PROVE  \E q \in HistoryPuts(b, S) : q.key = InEntry(s, b, p)
  <2> DEFINE t == Inputs[Body[b][p[1]]][p[2]]
  <2>1. /\ p[1] \in DOMAIN Body[b] /\ p[2] \in DOMAIN Inputs[Body[b][p[1]]]
        /\ s \in Outputs[t.tx][t.out]
    BY DEF InputsIn
  <2>2. PICK at \in Positions(t.tx, b, p[1]) : TRUE BY <1>6
  <2> DEFINE c == [script |-> s, input |-> p[2], tx |-> t.tx, out |-> t.out, at |-> at]
  <2>3. c \in SpentBy(b, p[1], S)
    <3>1. s \in Outputs[t.tx][t.out] \cap S BY <2>1
    <3> QED BY <2>1, <2>2, <3>1, SpentByIs, Zenon
  <2>4. In(p[1], c) \in HistoryPuts(b, S) BY <1>1, <2>1, <2>3
  <2>5. In(p[1], c).key = InEntry(s, b, p) BY DEF InEntry
  <2> QED BY <2>4, <2>5
<1> QED BY <1>4, <1>5, <1>6

\* What filter_block does to the history.
LEMMA FilterHistory ==
    ASSUME NEW b \in Blocks, NEW known, DOMAIN known \subseteq Scripts,
           FilterBlock(b, known)
    PROVE  /\ DOMAIN history \subseteq DOMAIN history'
           /\ \A e \in DOMAIN history' :
                 \/ e \in DOMAIN history /\ history'[e] = history[e]
                 \/ InBlock(e, b) /\ history'[e] = Body[b][e[3]]
           /\ \A s \in DOMAIN known : \A p \in OutputsIn(b, s) :
                 /\ OutEntry(s, b, p) \in DOMAIN history'
                 /\ history'[OutEntry(s, b, p)] = Body[b][p[1]]
           /\ \A s \in DOMAIN known : \A p \in InputsIn(b, s) :
                 Positions(Inputs[Body[b][p[1]]][p[2]].tx, b, p[1]) # {} =>
                    InEntry(s, b, p) \in DOMAIN history'
<1> DEFINE S == DOMAIN known
           puts == HistoryPuts(b, S)
<1>1. S \in SUBSET Scripts OBVIOUS
<1>2. history' = Commit(history, puts, {}) BY DEF FilterBlock
<1>3. \A p \in puts : \E l \in puts :
        l.key = p.key /\ \A q \in puts : q.key = p.key => q.at <= l.at
  <2>1. \A p \in puts : p.at = 0 BY <1>1, HistoryPutsShape
  <2> QED BY <2>1
<1>4. /\ \A p \in puts : InBlock(p.key, b) /\ p.tx = Body[b][p.key[3]]
      /\ \A s \in S : \A p \in OutputsIn(b, s) : \E q \in puts : q.key = OutEntry(s, b, p)
      /\ \A s \in S : \A p \in InputsIn(b, s) :
            Positions(Inputs[Body[b][p[1]]][p[2]].tx, b, p[1]) # {} =>
               \E q \in puts : q.key = InEntry(s, b, p)
  BY <1>1, HistoryPutsAre
<1> HIDE DEF S, puts
<1>5. /\ DOMAIN history \subseteq DOMAIN history'
      /\ \A p \in puts : p.key \in DOMAIN history'
      /\ \A p \in puts : \E l \in puts : l.key = p.key /\ history'[p.key] = l.tx
  <2>1. DOMAIN history \subseteq DOMAIN history' BY <1>2, <1>3, CommitPuts
  <2>2. \A p \in puts : p.key \in DOMAIN history' BY <1>2, <1>3, CommitPuts
  <2>3. \A p \in puts : \E l \in puts : l.key = p.key /\ history'[p.key] = l.tx
    BY <1>2, <1>3, CommitPuts
  <2> QED BY <2>1, <2>2, <2>3
<1>6. \A e \in DOMAIN history' :
        \/ e \in DOMAIN history /\ history'[e] = history[e]
        \/ \E p \in puts : p.key = e /\ history'[e] = p.tx
  BY <1>2, <1>3, CommitMap
<1>7. \A e \in DOMAIN history' :
        \/ e \in DOMAIN history /\ history'[e] = history[e]
        \/ InBlock(e, b) /\ history'[e] = Body[b][e[3]]
  BY <1>4, <1>6
<1>8. ASSUME NEW s \in S, NEW p \in OutputsIn(b, s)
      PROVE  /\ OutEntry(s, b, p) \in DOMAIN history'
             /\ history'[OutEntry(s, b, p)] = Body[b][p[1]]
  <2>1. PICK q \in puts : q.key = OutEntry(s, b, p) BY <1>4
  <2>2. PICK l \in puts : l.key = q.key /\ history'[q.key] = l.tx BY <1>5
  <2>3. l.tx = Body[b][OutEntry(s, b, p)[3]] BY <1>4, <2>1, <2>2
  <2>4. OutEntry(s, b, p)[3] = p[1] BY DEF OutEntry
  <2> QED BY <1>5, <2>1, <2>2, <2>3, <2>4
<1>9. \A s \in S : \A p \in InputsIn(b, s) :
        Positions(Inputs[Body[b][p[1]]][p[2]].tx, b, p[1]) # {} =>
           InEntry(s, b, p) \in DOMAIN history'
  <2>1. \A q \in puts : q.key \in DOMAIN history' BY <1>5
  <2> QED BY <1>4, <2>1
<1>10. DOMAIN history \subseteq DOMAIN history' BY <1>5
<1> QED BY <1>7, <1>8, <1>9, <1>10 DEF S

\* The block filter of a block with an output of a script, or an input that
\* spends one, has the script.
LEMMA FilterHasScript ==
    ASSUME NEW b, NEW s, NEW S, s \in S,
           OutputsIn(b, s) # {} \/ InputsIn(b, s) # {}
    PROVE  FilterHas(b, S)
<1>1. CASE OutputsIn(b, s) # {}
  <2>1. PICK p \in OutputsIn(b, s) : TRUE BY <1>1
  <2>2. /\ p[1] \in DOMAIN Body[b] /\ p[2] \in DOMAIN Outputs[Body[b][p[1]]]
        /\ s \in Outputs[Body[b][p[1]]][p[2]]
    BY DEF OutputsIn
  <2> QED BY <2>2 DEF FilterHas
<1>2. CASE InputsIn(b, s) # {}
  <2>1. PICK p \in InputsIn(b, s) : TRUE BY <1>2
  <2>2. /\ p[1] \in DOMAIN Body[b] /\ p[2] \in DOMAIN Inputs[Body[b][p[1]]]
        /\ s \in Outputs[Inputs[Body[b][p[1]]][p[2]].tx][Inputs[Body[b][p[1]]][p[2]].out]
    BY DEF InputsIn
  <2> QED BY <2>2 DEF FilterHas
<1> QED BY <1>1, <1>2

\* Where an input of a block of a chain finds what it spends: at an earlier place
\* of the chain, and at no other.
LEMMA SpentPlace ==
    ASSUME NEW h \in Blocks, NEW b \in Ancestors[h], NEW c \in Ancestors[h],
           NEW i \in DOMAIN Body[b], NEW x \in DOMAIN Inputs[Body[b][i]],
           NEW j \in DOMAIN Body[c], Body[c][j] = Inputs[Body[b][i]][x].tx
    PROVE  Number[c] < Number[b] \/ (c = b /\ j < i)
<1>1. b \in Blocks /\ Ancestors[b] \subseteq Ancestors[h] BY AncestorsNest
<1>2. PICK d \in Ancestors[b] : \E k \in DOMAIN Body[d] :
        Body[d][k] = Inputs[Body[b][i]][x].tx /\ (d = b => k < i)
  BY <1>1, InputsAssumption
<1>3. PICK k \in DOMAIN Body[d] : Body[d][k] = Inputs[Body[b][i]][x].tx /\ (d = b => k < i)
  BY <1>2
<1>4. Body[c][j] = Body[d][k] /\ d \in Ancestors[h] BY <1>1, <1>3
<1>5. c = d /\ j = k BY <1>4, InputsAssumption
<1>6. d # b => Number[d] < Number[b] BY <1>1, TreeAssumption
<1> QED BY <1>3, <1>5, <1>6

\* An input that spends a cell of a transaction of block c, for a script: the
\* cell is an output of c with that script, and c is before the input.
LEMMA SpentIsOutput ==
    ASSUME NEW h \in Blocks, NEW b \in Ancestors[h], NEW c \in Ancestors[h], NEW s,
           NEW p \in InputsIn(b, s), NEW i \in DOMAIN Body[c],
           Body[c][i] = Inputs[Body[b][p[1]]][p[2]].tx
    PROVE  /\ <<i, Inputs[Body[b][p[1]]][p[2]].out>> \in OutputsIn(c, s)
           /\ Number[c] < Number[b] \/ (c = b /\ i < p[1])
<1> DEFINE t == Inputs[Body[b][p[1]]][p[2]]
<1>1. b \in Blocks /\ c \in Blocks BY ChainAssumption
<1>2. /\ p[1] \in DOMAIN Body[b] /\ p[2] \in DOMAIN Inputs[Body[b][p[1]]]
      /\ s \in Outputs[t.tx][t.out]
  BY DEF InputsIn
<1>3. Body[b][p[1]] \in Transactions /\ Body[c][i] \in Transactions BY <1>1, <1>2, BodyTyped
<1>4. t.out \in DOMAIN Outputs[t.tx] BY <1>2, <1>3, InputsAssumption
<1>5. t.tx = Body[c][i] OBVIOUS
<1>6. t.out \in 1 .. MaxIndex
  <2>1. /\ Outputs[t.tx] \in Seq(SUBSET Scripts) /\ Len(Outputs[t.tx]) < MaxIndex
        /\ MaxIndex \in Nat
    BY <1>3, <1>5, CellsAssumption
  <2> HIDE DEF t
  <2>2. DOMAIN Outputs[t.tx] = 1 .. Len(Outputs[t.tx]) /\ Len(Outputs[t.tx]) \in Nat BY ONLY <2>1
  <2> QED BY <1>4, <2>1, <2>2
<1>7. <<i, t.out>> \in OutputsIn(c, s)
  <2> HIDE DEF t
  <2> QED BY <1>2, <1>4, <1>5, <1>6 DEF OutputsIn
<1>9. Number[c] < Number[b] \/ (c = b /\ i < p[1]) BY <1>2, <1>5, SpentPlace
<1> QED BY <1>7, <1>9

\* The invariant gives the property: the block of an entry and the filtered block
\* with its number are on one chain.
LEMMA HistoryInvSuffices == Typed /\ IndexInv /\ HistoryInv => HistoryIsReplay
<1> SUFFICES ASSUME Typed, IndexInv, HistoryInv,
                    NEW s \in DOMAIN scripts, <<s, "orphaned">> \notin upset,
                    NEW b \in applied[s]
             PROVE  LET entries == {e \in EntriesOf(s) : e[2] = Number[b]}
                        outs == {<<s, Number[b], p[1], p[2], 1>> : p \in OutputsIn(b, s)}
                        ins == {<<s, Number[b], p[1], p[2], 0>> : p \in InputsIn(b, s)}
                        known == {<<s, Number[b], p[1], p[2], 0>> : p \in {p \in InputsIn(b, s) :
                                    /\ <<s, "redone">> \notin upset
                                    /\ \E c \in applied[s] : \E i \in DOMAIN Body[c] :
                                          Body[c][i] = Inputs[Body[b][p[1]]][p[2]].tx}}
                    IN  /\ outs \cup known \subseteq entries
                        /\ entries \subseteq outs \cup ins
                        /\ \A e \in entries : history[e] = Body[b][e[3]]
  BY DEF HistoryIsReplay
<1> DEFINE entries == {e \in EntriesOf(s) : e[2] = Number[b]}
           outs == {OutEntry(s, b, p) : p \in OutputsIn(b, s)}
           ins == {InEntry(s, b, p) : p \in InputsIn(b, s)}
           known == {InEntry(s, b, p) : p \in {p \in InputsIn(b, s) :
                       /\ <<s, "redone">> \notin upset
                       /\ \E c \in applied[s] : \E i \in DOMAIN Body[c] :
                             Body[c][i] = Inputs[Body[b][p[1]]][p[2]].tx}}
<1>1. tip \in Blocks /\ b \in Ancestors[tip] BY DEF Typed, HistoryInv, AppliedOnChain
<1>2. \A e \in entries : /\ e \in DOMAIN history /\ e \in HistoryKeys /\ e[1] = s /\ e[2] = Number[b]
                         /\ e = <<s, Number[b], e[3], e[4], e[5]>>
  <2> TAKE e \in entries
  <2>1. e \in DOMAIN history /\ e[1] = s /\ e[2] = Number[b] BY DEF EntriesOf
  <2>2. e \in HistoryKeys BY <2>1 DEF IndexInv, KeysTyped
  <2>3. e = <<e[1], e[2], e[3], e[4], e[5]>> BY <2>2 DEF HistoryKeys
  <2> QED BY <2>1, <2>2, <2>3
<1>3. \A e \in entries : InBlock(e, b) /\ history[e] = Body[b][e[3]]
  <2> TAKE e \in entries
  <2>1. e \in DOMAIN history /\ e[1] = s /\ e[2] = Number[b] BY <1>2
  <2>2. PICK a \in Ancestors[tip] : InBlock(e, a) /\ history[e] = Body[a][e[3]]
    BY <2>1 DEF HistoryInv, EntriesOnChain
  <2>3. Number[a] = Number[b] BY <2>1, <2>2 DEF InBlock
  <2>4. a = b
    <3>1. Number[a] \in Nat BY <1>1, ChainAssumption
    <3>2. Number[a] <= Number[b] BY <2>3, <3>1
    <3> QED BY <1>1, <2>3, <3>2, ChainOrder
  <2> QED BY <2>2, <2>4
<1>4. entries \subseteq outs \cup ins
  <2> SUFFICES ASSUME NEW e \in entries PROVE e \in outs \/ e \in ins OBVIOUS
  <2>1. e = <<s, Number[b], e[3], e[4], e[5]>> /\ e[1] = s BY <1>2
  <2>2. InBlock(e, b) BY <1>3
  <2> DEFINE p == <<e[3], e[4]>>
  <2>3. CASE e[5] = 1 /\ p \in OutputsIn(b, s)
    <3>1. e = OutEntry(s, b, p) BY <2>1, <2>3 DEF OutEntry
    <3> QED BY <2>3, <3>1
  <2>4. CASE e[5] = 0 /\ p \in InputsIn(b, s)
    <3>1. e = InEntry(s, b, p) BY <2>1, <2>4 DEF InEntry
    <3> QED BY <2>4, <3>1
  <2> QED BY <2>1, <2>2, <2>3, <2>4 DEF InBlock
<1>5. outs \subseteq entries
  <2> SUFFICES ASSUME NEW p \in OutputsIn(b, s) PROVE OutEntry(s, b, p) \in entries OBVIOUS
  <2>1. OutEntry(s, b, p) \in DOMAIN history BY DEF HistoryInv, OutputsEntered
  <2>2. OutEntry(s, b, p)[1] = s /\ OutEntry(s, b, p)[2] = Number[b] BY DEF OutEntry
  <2> QED BY <2>1, <2>2 DEF EntriesOf
<1>6. known \subseteq entries
  <2> SUFFICES ASSUME NEW p \in InputsIn(b, s), <<s, "redone">> \notin upset,
                      NEW c \in applied[s], NEW i \in DOMAIN Body[c],
                      Body[c][i] = Inputs[Body[b][p[1]]][p[2]].tx
               PROVE  InEntry(s, b, p) \in entries
    OBVIOUS
  <2>1. InEntry(s, b, p) \in DOMAIN history BY DEF HistoryInv, InputsEntered
  <2>2. InEntry(s, b, p)[1] = s /\ InEntry(s, b, p)[2] = Number[b] BY DEF InEntry
  <2> QED BY <2>1, <2>2 DEF EntriesOf
<1>7. /\ outs = {<<s, Number[b], p[1], p[2], 1>> : p \in OutputsIn(b, s)}
      /\ ins = {<<s, Number[b], p[1], p[2], 0>> : p \in InputsIn(b, s)}
      /\ known = {<<s, Number[b], p[1], p[2], 0>> : p \in {p \in InputsIn(b, s) :
                    /\ <<s, "redone">> \notin upset
                    /\ \E c \in applied[s] : \E i \in DOMAIN Body[c] :
                          Body[c][i] = Inputs[Body[b][p[1]]][p[2]].tx}}
  BY DEF OutEntry, InEntry
<1> HIDE DEF entries, outs, ins, known
<1>8. /\ outs \cup known \subseteq entries
      /\ entries \subseteq outs \cup ins
      /\ \A e \in entries : history[e] = Body[b][e[3]]
  BY <1>3, <1>4, <1>5, <1>6
<1> QED BY <1>7, <1>8 DEF entries

\* filter_block of a block of the chain of the tip: the history stays on that
\* chain, and nothing of the blocks that were filtered is lost or replaced.
LEMMA FilterKeepsHistory ==
    ASSUME Typed, HistoryInv, NEW b \in Ancestors[tip], NEW known,
           DOMAIN known \subseteq Scripts, FilterBlock(b, known),
           tip' = tip, upset \subseteq upset'
    PROVE  /\ EntriesOnChain'
           /\ \A s \in DOMAIN scripts : \A c \in applied[s] : \A p \in OutputsIn(c, s) :
                 /\ OutEntry(s, c, p) \in DOMAIN history'
                 /\ history'[OutEntry(s, c, p)] = Body[c][p[1]]
<1>1. tip \in Blocks /\ b \in Blocks BY ChainAssumption DEF Typed
<1>2. /\ DOMAIN history \subseteq DOMAIN history'
      /\ \A e \in DOMAIN history' :
            \/ e \in DOMAIN history /\ history'[e] = history[e]
            \/ InBlock(e, b) /\ history'[e] = Body[b][e[3]]
  BY <1>1, FilterHistory
<1>3. ASSUME NEW e \in DOMAIN history', <<e[1], "orphaned">> \notin upset'
      PROVE  \E a \in Ancestors[tip] : InBlock(e, a) /\ history'[e] = Body[a][e[3]]
  <2>1. CASE e \in DOMAIN history /\ history'[e] = history[e]
    <3>1. <<e[1], "orphaned">> \notin upset BY <1>3
    <3>2. PICK a \in Ancestors[tip] : InBlock(e, a) /\ history[e] = Body[a][e[3]]
      BY <2>1, <3>1 DEF HistoryInv, EntriesOnChain
    <3> QED BY <2>1, <3>2
  <2>2. CASE InBlock(e, b) /\ history'[e] = Body[b][e[3]] BY <2>2
  <2> QED BY <1>2, <2>1, <2>2
<1>4. EntriesOnChain'
  <2>1. \A e, a : InBlock(e, a)' <=> InBlock(e, a) BY DEF InBlock, OutputsIn, InputsIn
  <2> QED BY <1>3, <2>1 DEF EntriesOnChain
<1>5. ASSUME NEW s \in DOMAIN scripts, NEW c \in applied[s], NEW p \in OutputsIn(c, s)
      PROVE  /\ OutEntry(s, c, p) \in DOMAIN history'
             /\ history'[OutEntry(s, c, p)] = Body[c][p[1]]
  <2> DEFINE e == OutEntry(s, c, p)
  <2>1. e \in DOMAIN history /\ history[e] = Body[c][p[1]] BY DEF HistoryInv, OutputsEntered
  <2>2. e[2] = Number[c] /\ e[3] = p[1] BY DEF OutEntry
  <2>3. c \in Ancestors[tip] BY DEF HistoryInv, AppliedOnChain
  <2> HIDE DEF e
  <2>4. e \in DOMAIN history' BY <1>2, <2>1
  <2>5. CASE history'[e] = history[e] BY <2>1, <2>4, <2>5 DEF e
  <2>6. CASE InBlock(e, b) /\ history'[e] = Body[b][e[3]]
    <3>1. Number[b] = Number[c] BY <2>2, <2>6 DEF InBlock
    <3>2. Number[b] \in Nat BY <1>1, ChainAssumption
    <3>3. Number[b] <= Number[c] BY <3>1, <3>2
    <3>4. b = c BY <1>1, <2>3, <3>1, <3>3, ChainOrder
    <3> QED BY <2>2, <2>4, <2>6, <3>4 DEF e
  <2> QED BY <1>2, <2>4, <2>5, <2>6
<1> QED BY <1>4, <1>5

\* A stored transaction, or an earlier one of the block, is found.
LEMMA PositionsFound ==
    ASSUME NEW b \in Blocks, NEW t, NEW k \in DOMAIN Body[b],
           t \in DOMAIN txs \/ \E i \in DOMAIN Body[b] : i < k /\ Body[b][i] = t
    PROVE  Positions(t, b, k) # {}
<1>1. CASE t \in DOMAIN txs BY <1>1 DEF Positions
<1>2. CASE t \notin DOMAIN txs
  <2>1. PICK i \in DOMAIN Body[b] : i < k /\ Body[b][i] = t BY <1>2
  <2>2. Body[b] \in Seq(Transactions) BY CellsAssumption
  <2>3. i \in 1 .. Len(Body[b]) /\ k \in 1 .. Len(Body[b]) /\ Len(Body[b]) \in Nat BY <2>2
  <2>4. i \in 1 .. k - 1 BY <2>1, <2>3
  <2> QED BY <1>2, <2>1, <2>4 DEF Positions
<1> QED BY <1>1, <1>2

\* What update_filter_scripts leaves of a script that the command does not name.
LEMMA NewScriptsAre ==
    ASSUME HistoryInv, NEW c \in Commands, NEW s \in DOMAIN NewScripts(c)
    PROVE  /\ NewScripts(c)[s] \in Nat
           /\ s \notin DOMAIN c.scripts => s \in DOMAIN scripts /\ NewScripts(c)[s] = scripts[s]
<1>1. /\ c.command \in {"all", "partial", "delete"}
      /\ \A r \in DOMAIN c.scripts : c.scripts[r] \in Nat
  BY CellsAssumption
<1>2. \A r \in DOMAIN scripts : scripts[r] \in Nat BY DEF HistoryInv, AppliedOnChain
<1>3. CASE c.command = "all" BY <1>1, <1>3 DEF NewScripts
<1>4. CASE c.command = "partial"
  <2>1. NewScripts(c) = [r \in DOMAIN scripts \cup DOMAIN c.scripts |->
                            IF r \in DOMAIN c.scripts THEN c.scripts[r] ELSE scripts[r]]
    BY <1>4 DEF NewScripts
  <2> QED BY <1>1, <1>2, <2>1
<1>5. CASE c.command = "delete"
  <2>1. NewScripts(c) = [r \in DOMAIN scripts \ DOMAIN c.scripts |-> scripts[r]]
    BY <1>5 DEF NewScripts
  <2> QED BY <1>2, <2>1
<1> QED BY <1>1, <1>3, <1>4, <1>5

\* set_scripts: a script that is named starts from scratch; with the genesis block
\* filtered for all, the others count as filtered out of order.
LEMMA SetScriptsHistory ==
    ASSUME Typed, IndexInv, HistoryInv, NEW c \in Commands, SetScripts(c)
    PROVE  HistoryInv'
<1> DEFINE new == NewScripts(c)
           genesis == c.command # "delete" /\ \E s \in DOMAIN c.scripts : c.scripts[s] = 0
<1>1. /\ scripts' = new /\ tip' = tip
      /\ IF genesis THEN FilterBlock(Genesis, new)
                    ELSE UNCHANGED <<cells, history, txs, byNumber, headers>>
      /\ applied' = [s \in Scripts |->
              (IF s \in DOMAIN c.scripts \/ s \notin DOMAIN new THEN {} ELSE applied[s])
              \cup (IF genesis /\ s \in DOMAIN new THEN {Genesis} ELSE {})]
      /\ upset \subseteq upset'
      /\ \A s \in DOMAIN new \ DOMAIN c.scripts :
            genesis /\ applied[s] # {} => <<s, "redone">> \in upset'
  BY DEF SetScripts
<1>2. DOMAIN new \subseteq Scripts BY NewScriptsTyped
<1>3. \A s \in DOMAIN new : /\ new[s] \in Nat
                            /\ s \notin DOMAIN c.scripts => s \in DOMAIN scripts /\ new[s] = scripts[s]
  BY NewScriptsAre
<1> HIDE DEF new, genesis
<1>4. upset \subseteq upset' BY <1>1
<1>5. applied \in [Scripts -> SUBSET Blocks] BY DEF HistoryInv, AppliedOnChain
<1>6. applied' \in [Scripts -> SUBSET Blocks] BY <1>1, <1>5, ChainAssumption
<1>7. ASSUME NEW s \in DOMAIN new, NEW b \in applied'[s]
      PROVE  \/ s \in DOMAIN scripts /\ s \notin DOMAIN c.scripts /\ new[s] = scripts[s] /\ b \in applied[s]
             \/ genesis /\ b = Genesis
  BY <1>1, <1>2, <1>3
<1>8. tip \in Blocks /\ Genesis \in Ancestors[tip] /\ Genesis \in Blocks /\ Number[Genesis] = 0
  BY ChainAssumption DEF Typed
<1>9. AppliedOnChain'
  <2>1. ASSUME NEW s \in DOMAIN new, NEW b \in applied'[s]
        PROVE  b \in Ancestors[tip] /\ Number[b] <= new[s]
    <3>1. CASE s \in DOMAIN scripts /\ new[s] = scripts[s] /\ b \in applied[s]
      BY <3>1 DEF HistoryInv, AppliedOnChain
    <3>2. CASE b = Genesis
      <4>1. new[s] \in Nat BY <1>3
      <4>2. 0 <= new[s] BY <4>1
      <4> QED BY <1>8, <3>2, <4>2
    <3> QED BY <1>7, <2>1, <3>1, <3>2
  <2> QED BY <1>1, <1>3, <1>6, <2>1 DEF AppliedOnChain
<1>10. CASE ~genesis
  <2>1. history' = history BY <1>1, <1>10
  <2>2. EntriesOnChain'
    <3>1. \A e, a : InBlock(e, a)' <=> InBlock(e, a) BY DEF InBlock, OutputsIn, InputsIn
    <3>2. \A e \in DOMAIN history : <<e[1], "orphaned">> \notin upset' => <<e[1], "orphaned">> \notin upset
      BY <1>4
    <3> QED BY <1>1, <2>1, <3>1, <3>2 DEF EntriesOnChain, HistoryInv
  <2>4. \A s \in DOMAIN new : \A b \in applied'[s] : s \in DOMAIN scripts /\ b \in applied[s]
    BY <1>7, <1>10
  <2>5. OutputsEntered'
    <3>1. \A s, b, p : OutEntry(s, b, p)' = OutEntry(s, b, p) /\ OutputsIn(b, s)' = OutputsIn(b, s)
      BY DEF OutEntry, OutputsIn
    <3> QED BY <1>1, <2>1, <2>4, <3>1 DEF OutputsEntered, HistoryInv
  <2>6. InputsEntered'
    <3>1. \A s, b, p : InEntry(s, b, p)' = InEntry(s, b, p) /\ InputsIn(b, s)' = InputsIn(b, s)
      BY DEF InEntry, InputsIn
    <3>2. \A s : <<s, "redone">> \notin upset' => <<s, "redone">> \notin upset BY <1>4
    <3> QED BY <1>1, <2>1, <2>4, <3>1, <3>2 DEF InputsEntered, HistoryInv
  <2> QED BY <1>9, <2>2, <2>5, <2>6 DEF HistoryInv
<1>11. CASE genesis
  <2>1. FilterBlock(Genesis, new) BY <1>1, <1>11
  <2>2. /\ EntriesOnChain'
        /\ \A s \in DOMAIN scripts : \A b \in applied[s] : \A p \in OutputsIn(b, s) :
              /\ OutEntry(s, b, p) \in DOMAIN history'
              /\ history'[OutEntry(s, b, p)] = Body[b][p[1]]
    BY <1>1, <1>2, <1>4, <1>8, <2>1, FilterKeepsHistory
  <2>3. /\ \A s \in DOMAIN new : \A p \in OutputsIn(Genesis, s) :
              /\ OutEntry(s, Genesis, p) \in DOMAIN history'
              /\ history'[OutEntry(s, Genesis, p)] = Body[Genesis][p[1]]
        /\ \A s \in DOMAIN new : \A p \in InputsIn(Genesis, s) :
              Positions(Inputs[Body[Genesis][p[1]]][p[2]].tx, Genesis, p[1]) # {} =>
                 InEntry(s, Genesis, p) \in DOMAIN history'
    BY <1>2, <1>8, <2>1, FilterHistory, ZenonT(30)
  <2>4. OutputsEntered'
    <3>1. \A s, b, p : OutEntry(s, b, p)' = OutEntry(s, b, p) /\ OutputsIn(b, s)' = OutputsIn(b, s)
      BY DEF OutEntry, OutputsIn
    <3>2. ASSUME NEW s \in DOMAIN new, NEW b \in applied'[s], NEW p \in OutputsIn(b, s)
          PROVE  /\ OutEntry(s, b, p) \in DOMAIN history'
                 /\ history'[OutEntry(s, b, p)] = Body[b][p[1]]
      <4>1. CASE s \in DOMAIN scripts /\ b \in applied[s] BY <2>2, <3>2, <4>1
      <4>2. CASE b = Genesis BY <2>3, <3>2, <4>2
      <4> QED BY <1>7, <3>2, <4>1, <4>2
    <3> QED BY <1>1, <3>1, <3>2 DEF OutputsEntered
  <2>5. InputsEntered'
    <3>1. \A s, b, p : InEntry(s, b, p)' = InEntry(s, b, p) /\ InputsIn(b, s)' = InputsIn(b, s)
      BY DEF InEntry, InputsIn
    <3>2. ASSUME NEW s \in DOMAIN new, <<s, "redone">> \notin upset',
                 NEW b \in applied'[s], NEW d \in applied'[s], NEW p \in InputsIn(b, s),
                 NEW i \in DOMAIN Body[d], Body[d][i] = Inputs[Body[b][p[1]]][p[2]].tx
          PROVE  InEntry(s, b, p) \in DOMAIN history'
      <4>1. \A a \in applied'[s] : a = Genesis
        <5> TAKE a \in applied'[s]
        <5>1. s \notin DOMAIN c.scripts => applied[s] = {} BY <1>1, <1>11, <3>2
        <5> QED BY <1>7, <5>1
      <4>2. b = Genesis /\ d = Genesis BY <4>1
      <4>3. Number[d] < Number[b] \/ (d = b /\ i < p[1])
        BY <1>8, <3>2, <4>2, SpentIsOutput
      <4>4. i < p[1] BY <1>8, <4>2, <4>3
      <4>5. p[1] \in DOMAIN Body[b] BY DEF InputsIn
      <4>6. Positions(Inputs[Body[Genesis][p[1]]][p[2]].tx, Genesis, p[1]) # {}
        BY <1>8, <3>2, <4>2, <4>4, <4>5, PositionsFound
      <4> QED BY <2>3, <3>2, <4>2, <4>6
    <3> QED BY <1>1, <3>1, <3>2 DEF InputsEntered
  <2> QED BY <1>9, <2>2, <2>4, <2>5 DEF HistoryInv
<1> QED BY <1>10, <1>11

\* The next block is filtered after the blocks of the scripts that it is due for;
\* for the others it may come late, which is recorded.
LEMMA FilterNextHistory ==
    ASSUME Typed, IndexInv, HistoryInv, FilterNext
    PROVE  HistoryInv'
<1>1. PICK b \in Ancestors[tip] :
        LET due == {s \in DOMAIN scripts : scripts[s] < Number[b]}
        IN  /\ scripts' = [s \in DOMAIN scripts |-> IF s \in due THEN Number[b] ELSE scripts[s]]
            /\ tip' = tip
            /\ IF FilterHas(b, due)
               THEN /\ FilterBlock(b, scripts)
                    /\ upset' = upset
                          \cup {<<s, "misread">> : s \in Misread(b, DOMAIN scripts)}
                          \cup {<<s, "redone">> : s \in {s \in DOMAIN scripts \ due :
                                   /\ FilterHas(b, {s})
                                   /\ \E c \in applied[s] : Number[c] >= Number[b]}}
               ELSE history' = history /\ upset' = upset
            /\ applied' = [s \in Scripts |->
                  IF s \in due \/ (FilterHas(b, due) /\ s \in DOMAIN scripts)
                  THEN applied[s] \cup {b} ELSE applied[s]]
  BY DEF FilterNext
<1> DEFINE due == {s \in DOMAIN scripts : scripts[s] < Number[b]}
           has == FilterHas(b, due)
<1>2. /\ scripts' = [s \in DOMAIN scripts |-> IF s \in due THEN Number[b] ELSE scripts[s]]
      /\ tip' = tip
      /\ upset \subseteq upset'
      /\ has => FilterBlock(b, scripts)
      /\ ~has => history' = history /\ upset' = upset
      /\ applied' = [s \in Scripts |->
            IF s \in due \/ (has /\ s \in DOMAIN scripts) THEN applied[s] \cup {b} ELSE applied[s]]
  BY <1>1
<1>3. ASSUME has, NEW s \in DOMAIN scripts \ due, FilterHas(b, {s}),
             NEW c \in applied[s], Number[c] >= Number[b]
      PROVE  <<s, "redone">> \in upset'
  BY <1>1, <1>3
<1>4. \A s \in DOMAIN scripts : s \in due <=> scripts[s] < Number[b] OBVIOUS
<1>5. due \subseteq DOMAIN scripts OBVIOUS
<1> HIDE DEF due, has
<1>6. /\ tip \in Blocks /\ b \in Blocks /\ Number[b] \in Nat /\ DOMAIN scripts \subseteq Scripts
  BY ChainAssumption DEF Typed
<1>7. /\ applied \in [Scripts -> SUBSET Blocks]
      /\ \A s \in DOMAIN scripts :
            /\ scripts[s] \in Nat
            /\ \A c \in applied[s] : c \in Ancestors[tip] /\ Number[c] <= scripts[s] /\ Number[c] \in Nat
  BY <1>6, ChainAssumption DEF HistoryInv, AppliedOnChain
<1>8. DOMAIN scripts' = DOMAIN scripts BY <1>2
<1>9. ASSUME NEW s \in DOMAIN scripts, NEW a \in applied'[s]
      PROVE  a \in applied[s] \/ (a = b /\ (has \/ s \in due))
  BY <1>2, <1>6
<1>10. AppliedOnChain'
  <2>1. applied' \in [Scripts -> SUBSET Blocks] BY <1>2, <1>6, <1>7
  <2>2. ASSUME NEW s \in DOMAIN scripts
        PROVE  /\ scripts'[s] \in Nat
               /\ \A a \in applied'[s] : a \in Ancestors[tip] /\ Number[a] <= scripts'[s]
    <3>1. /\ scripts'[s] \in Nat /\ scripts[s] <= scripts'[s] /\ Number[b] <= scripts'[s]
      <4>1. CASE s \in due
        <5>1. scripts'[s] = Number[b] BY <1>2, <4>1
        <5>2. scripts[s] < Number[b] BY <1>4, <4>1
        <5>3. scripts[s] \in Nat BY <1>7
        <5> QED BY <1>6, <5>1, <5>2, <5>3
      <4>2. CASE s \notin due
        <5>1. scripts'[s] = scripts[s] BY <1>2, <4>2
        <5>2. ~ (scripts[s] < Number[b]) BY <1>4, <4>2
        <5>3. scripts[s] \in Nat BY <1>7
        <5> QED BY <1>6, <5>1, <5>2, <5>3
      <4> QED BY <4>1, <4>2
    <3>2. \A a \in applied'[s] : a \in Ancestors[tip] /\ Number[a] <= scripts'[s]
      <4> TAKE a \in applied'[s]
      <4>1. CASE a = b BY <3>1, <4>1
      <4>2. CASE a \in applied[s]
        <5>1. a \in Ancestors[tip] /\ Number[a] <= scripts[s] /\ Number[a] \in Nat /\ scripts[s] \in Nat
          BY <1>7, <4>2
        <5> QED BY <3>1, <5>1
      <4> QED BY <1>9, <4>1, <4>2
    <3> QED BY <3>1, <3>2
  <2> QED BY <1>2, <1>8, <2>1, <2>2 DEF AppliedOnChain
\* The block has nothing of a script it is due for, when it is not filtered.
<1>11. ASSUME ~has, NEW s \in due PROVE OutputsIn(b, s) = {} /\ InputsIn(b, s) = {}
  BY <1>11, FilterHasScript DEF has
<1>12. EntriesOnChain'
  <2>1. CASE has BY <1>2, <1>6, <2>1, FilterKeepsHistory
  <2>2. CASE ~has
    <3>1. \A e, a : InBlock(e, a)' <=> InBlock(e, a) BY DEF InBlock, OutputsIn, InputsIn
    <3> QED BY <1>2, <2>2, <3>1 DEF EntriesOnChain, HistoryInv
  <2> QED BY <2>1, <2>2
<1>13. DOMAIN history \subseteq DOMAIN history'
  <2>1. CASE has BY <1>2, <1>6, <2>1, FilterHistory
  <2>2. CASE ~has BY <1>2, <2>2
  <2> QED BY <2>1, <2>2
<1>14. OutputsEntered'
  <2>1. \A s, a, p : OutEntry(s, a, p)' = OutEntry(s, a, p) /\ OutputsIn(a, s)' = OutputsIn(a, s)
    BY DEF OutEntry, OutputsIn
  <2>2. ASSUME NEW s \in DOMAIN scripts, NEW a \in applied'[s], NEW p \in OutputsIn(a, s)
        PROVE  /\ OutEntry(s, a, p) \in DOMAIN history'
               /\ history'[OutEntry(s, a, p)] = Body[a][p[1]]
    <3>1. CASE has /\ a \in applied[s] BY <1>2, <1>6, <2>2, <3>1, FilterKeepsHistory
    <3>2. CASE has /\ a = b BY <1>2, <1>6, <2>2, <3>2, FilterHistory
    <3>3. CASE ~has /\ a \in applied[s] BY <1>2, <2>2, <3>3 DEF HistoryInv, OutputsEntered
    <3>4. CASE ~has /\ a = b /\ s \in due BY <1>11, <2>2, <3>4
    <3> QED BY <1>9, <2>2, <3>1, <3>2, <3>3, <3>4
  <2> QED BY <1>8, <2>1, <2>2 DEF OutputsEntered
<1>15. InputsEntered'
  <2>1. \A s, a, p : InEntry(s, a, p)' = InEntry(s, a, p) /\ InputsIn(a, s)' = InputsIn(a, s)
    BY DEF InEntry, InputsIn
  <2>2. ASSUME NEW s \in DOMAIN scripts, <<s, "redone">> \notin upset',
               NEW a \in applied'[s], NEW c \in applied'[s], NEW p \in InputsIn(a, s),
               NEW i \in DOMAIN Body[c], Body[c][i] = Inputs[Body[a][p[1]]][p[2]].tx
        PROVE  InEntry(s, a, p) \in DOMAIN history'
    <3> DEFINE t == Inputs[Body[a][p[1]]][p[2]]
    <3>1. a \in Ancestors[tip] /\ c \in Ancestors[tip] BY <1>7, <1>9
    <3>2. /\ <<i, t.out>> \in OutputsIn(c, s)
          /\ Number[c] < Number[a] \/ (c = a /\ i < p[1])
      BY <1>6, <2>2, <3>1, SpentIsOutput
    <3>3. <<s, "redone">> \notin upset BY <1>2, <2>2
    <3>4. p[1] \in DOMAIN Body[a] BY DEF InputsIn
    <3>5. CASE a \in applied[s] /\ c \in applied[s]
      <4>1. InEntry(s, a, p) \in DOMAIN history
        BY <2>2, <3>3, <3>5 DEF HistoryInv, InputsEntered
      <4> QED BY <1>13, <4>1
    <3>6. CASE a = b /\ a \notin applied[s] /\ c \in applied[s]
      <4>1. has \/ s \in due BY <1>9, <3>6
      <4>2. has
        <5>1. InputsIn(b, s) # {} BY <3>6
        <5>2. s \in due => has BY <1>11, <5>1
        <5> QED BY <4>1, <5>2
      <4>3. LET e == OutEntry(s, c, <<i, t.out>>)
            IN  e \in DOMAIN history /\ history[e] = Body[c][i]
        BY <3>2, <3>6 DEF HistoryInv, OutputsEntered
      <4>4. t.tx \in DOMAIN txs BY <2>2, <4>3 DEF IndexInv, Indexed
      <4>5. Positions(t.tx, b, p[1]) # {} BY <1>6, <3>4, <3>6, <4>4, PositionsFound
      <4> QED BY <1>2, <1>6, <2>2, <3>6, <4>2, <4>5, FilterHistory
    <3>7. CASE a = b /\ c = b
      <4>1. i < p[1] BY <1>6, <3>2, <3>7
      <4>2. Positions(t.tx, b, p[1]) # {} BY <1>6, <2>2, <3>4, <3>7, <4>1, PositionsFound
      <4>3. CASE has BY <1>2, <1>6, <2>2, <3>7, <4>2, <4>3, FilterHistory
      <4>4. CASE ~has /\ s \in due BY <1>11, <2>2, <3>7, <4>4
      <4>5. CASE ~has /\ s \notin due
        <5>1. a \in applied[s] /\ c \in applied[s] BY <1>9, <4>5
        <5> QED BY <3>5, <5>1
      <4> QED BY <4>3, <4>4, <4>5
    <3>8. CASE a \in applied[s] /\ c = b /\ a # b /\ c \notin applied[s]
      <4>1. Number[b] < Number[a] BY <3>2, <3>8
      <4>2. Number[a] <= scripts[s] /\ Number[a] \in Nat /\ scripts[s] \in Nat BY <1>7, <3>8
      <4>3. ~ (scripts[s] < Number[b]) BY <1>6, <4>1, <4>2
      <4>4. s \notin due BY <1>4, <4>3
      <4>5. has BY <1>9, <2>2, <3>8, <4>4
      <4>6. FilterHas(b, {s})
        <5>1. OutputsIn(b, s) # {} BY <3>2, <3>8
        <5>2. s \in {s} OBVIOUS
        <5> QED BY <5>1, <5>2, FilterHasScript
      <4>7. Number[a] >= Number[b] BY <1>6, <4>1, <4>2
      <4>8. <<s, "redone">> \in upset' BY <1>3, <3>8, <4>4, <4>5, <4>6, <4>7
      <4> QED BY <2>2, <4>8
    <3> QED BY <1>9, <2>2, <3>5, <3>6, <3>7, <3>8
  <2> QED BY <1>8, <2>1, <2>2 DEF InputsEntered
<1> QED BY <1>10, <1>12, <1>14, <1>15 DEF HistoryInv

\* The fork number that the rollback starts from: what the old chain has up to
\* it, the new chain has too.
LEMMA ForkIsCommon ==
    ASSUME NEW g \in Blocks, NEW h \in Blocks
    PROVE  LET fork == MaxOf({Number[a] : a \in Ancestors[h] \cap Ancestors[g]})
           IN  /\ fork \in Nat
               /\ \A a \in Ancestors[g] : Number[a] < fork + 1 => a \in Ancestors[h]
<1> DEFINE common == {Number[a] : a \in Ancestors[h] \cap Ancestors[g]}
           fork == MaxOf(common)
<1>1. \A a \in Ancestors[h] : a \in Blocks /\ Number[a] \in Nat /\ Number[a] <= Number[h]
  BY AncestorsNest, ChainAssumption
<1>2. common \in SUBSET Nat BY <1>1
<1>3. common # {}
  <2>1. Genesis \in Ancestors[h] \cap Ancestors[g] BY ChainAssumption
  <2> QED BY <2>1
<1>4. Number[h] \in Nat /\ \A n \in common : n <= Number[h] BY <1>1, ChainAssumption
<1> HIDE DEF common
<1>5. fork \in common BY <1>2, <1>3, <1>4, MaxOfIsMax
<1>6. PICK c \in Ancestors[h] \cap Ancestors[g] : fork = Number[c] BY <1>5 DEF common
<1>7. fork \in Nat BY <1>2, <1>5
<1> HIDE DEF fork
<1>8. ASSUME NEW a \in Ancestors[g], Number[a] < fork + 1 PROVE a \in Ancestors[h]
  <2>1. a \in Blocks /\ Number[a] \in Nat BY ChainAssumption
  <2>2. Number[a] <= Number[c] BY <1>6, <1>7, <1>8, <2>1
  <2>3. a \in Ancestors[c] BY <1>6, <2>2, ChainOrder
  <2> QED BY <1>6, <2>3, AncestorsNest
<1> QED BY <1>7, <1>8 DEF fork, common

\* What a step leaves alone stays replayed: the chain may only grow.
LEMMA SameHistory ==
    ASSUME HistoryInv, UNCHANGED <<scripts, history, applied, upset>>,
           Ancestors[tip] \subseteq Ancestors[tip']
    PROVE  HistoryInv'
<1>1. AppliedOnChain' BY DEF HistoryInv, AppliedOnChain
<1>2. EntriesOnChain'
  <2>1. \A e, a : InBlock(e, a)' <=> InBlock(e, a) BY DEF InBlock, OutputsIn, InputsIn
  <2> QED BY <2>1 DEF HistoryInv, EntriesOnChain
<1>3. OutputsEntered'
  <2>1. \A s, a, p : OutEntry(s, a, p)' = OutEntry(s, a, p) /\ OutputsIn(a, s)' = OutputsIn(a, s)
    BY DEF OutEntry, OutputsIn
  <2> QED BY <2>1 DEF HistoryInv, OutputsEntered
<1>4. InputsEntered'
  <2>1. \A s, a, p : InEntry(s, a, p)' = InEntry(s, a, p) /\ InputsIn(a, s)' = InputsIn(a, s)
    BY DEF InEntry, InputsIn
  <2> QED BY <2>1 DEF HistoryInv, InputsEntered
<1> QED BY <1>1, <1>2, <1>3, <1>4 DEF HistoryInv

\* rollback_to_block removes what lies above the fork, of the scripts that have
\* come that far; it passes by the entries of the others, which is recorded.
LEMMA RollbackHistory ==
    ASSUME Typed, IndexInv, HistoryInv, NEW to \in Nat, RollbackToBlock(to),
           \A a \in Ancestors[tip] : Number[a] < to => a \in Ancestors[tip']
    PROVE  HistoryInv'
<1> DEFINE S == RolledBack(to)
           E == UNION {EntriesFrom(s, to) : s \in S}
<1>1. /\ history' = [e \in DOMAIN history \ E |-> history[e]]
      /\ scripts' = [s \in DOMAIN scripts |-> IF s \in S THEN to ELSE scripts[s]]
      /\ applied' = [s \in Scripts |-> IF s \in S
                        THEN {b \in applied[s] : Number[b] < to} ELSE applied[s]]
      /\ upset \subseteq upset'
      /\ \A s \in Scripts \ S : EntriesFrom(s, to) # {} => <<s, "orphaned">> \in upset'
  BY DEF RollbackToBlock
<1>2. \A e \in DOMAIN history : e \in E <=> e[1] \in S /\ e[2] >= to
  BY DEF EntriesFrom
<1>3. \A s \in DOMAIN scripts : s \in S <=> scripts[s] >= to BY DEF RolledBack
<1> HIDE DEF S, E
<1>4. DOMAIN scripts \subseteq Scripts /\ tip \in Blocks BY DEF Typed
<1>5. /\ applied \in [Scripts -> SUBSET Blocks]
      /\ \A s \in DOMAIN scripts :
            /\ scripts[s] \in Nat
            /\ \A b \in applied[s] :
                  b \in Ancestors[tip] /\ Number[b] <= scripts[s] /\ Number[b] \in Nat
  BY <1>4, ChainAssumption DEF HistoryInv, AppliedOnChain
\* A block that stays filtered lies below the fork and keeps its entries.
<1>6. ASSUME NEW s \in DOMAIN scripts, NEW b \in applied'[s]
      PROVE  b \in applied[s] /\ Number[b] < to
  <2>1. CASE s \in S BY <1>1, <1>4, <2>1
  <2>2. CASE s \notin S
    <3>1. b \in applied[s] BY <1>1, <1>4, <2>2
    <3>2. ~ (scripts[s] >= to) BY <1>3, <2>2
    <3>3. Number[b] <= scripts[s] /\ Number[b] \in Nat /\ scripts[s] \in Nat BY <1>5, <3>1
    <3> QED BY <3>1, <3>2, <3>3
  <2> QED BY <2>1, <2>2
<1>7. ASSUME NEW e \in DOMAIN history, e[2] \in Nat, e[2] < to
      PROVE  e \in DOMAIN history' /\ history'[e] = history[e]
  <2>1. ~ (e[2] >= to) BY <1>7
  <2> QED BY <1>1, <1>2, <2>1
<1>8. AppliedOnChain'
  <2>1. applied' \in [Scripts -> SUBSET Blocks] BY <1>1, <1>5
  <2>2. ASSUME NEW s \in DOMAIN scripts
        PROVE  /\ scripts'[s] \in Nat
               /\ \A b \in applied'[s] : b \in Ancestors[tip'] /\ Number[b] <= scripts'[s]
    <3>1. scripts'[s] \in Nat BY <1>1, <1>5
    <3>2. ASSUME NEW b \in applied'[s] PROVE b \in Ancestors[tip'] /\ Number[b] <= scripts'[s]
      <4>1. b \in applied[s] /\ Number[b] < to BY <1>6
      <4>2. b \in Ancestors[tip] /\ Number[b] <= scripts[s] /\ Number[b] \in Nat BY <1>5, <4>1
      <4>3. b \in Ancestors[tip'] BY <4>1, <4>2
      <4>4. scripts'[s] = to \/ scripts'[s] = scripts[s] BY <1>1
      <4> QED BY <4>1, <4>2, <4>3, <4>4
    <3> QED BY <3>1, <3>2
  <2>3. DOMAIN scripts' = DOMAIN scripts BY <1>1
  <2> QED BY <2>1, <2>2, <2>3 DEF AppliedOnChain
<1>9. EntriesOnChain'
  <2>1. \A e, a : InBlock(e, a)' <=> InBlock(e, a) BY DEF InBlock, OutputsIn, InputsIn
  <2>2. ASSUME NEW e \in DOMAIN history', <<e[1], "orphaned">> \notin upset'
        PROVE  \E b \in Ancestors[tip'] : InBlock(e, b) /\ history'[e] = Body[b][e[3]]
    <3>1. e \in DOMAIN history /\ e \notin E /\ history'[e] = history[e] BY <1>1
    <3>2. <<e[1], "orphaned">> \notin upset BY <1>1, <2>2
    <3>3. PICK b \in Ancestors[tip] : InBlock(e, b) /\ history[e] = Body[b][e[3]]
      BY <3>1, <3>2 DEF HistoryInv, EntriesOnChain
    <3>4. e[2] = Number[b] /\ Number[b] \in Nat
      <4>1. e[2] = Number[b] BY <3>3 DEF InBlock
      <4>2. Number[b] \in Nat BY <1>4, ChainAssumption
      <4> QED BY <4>1, <4>2
    <3>5. e[1] \in Scripts
      <4>1. e \in HistoryKeys BY <3>1 DEF IndexInv, KeysTyped
      <4> QED BY <4>1 DEF HistoryKeys
    <3>6. ~ (e[2] >= to)
      <4>1. CASE e[1] \in S BY <1>2, <3>1, <4>1
      <4>2. CASE e[1] \notin S
        <5>1. EntriesFrom(e[1], to) = {} BY <1>1, <2>2, <3>5, <4>2
        <5> QED BY <3>1, <5>1 DEF EntriesFrom
      <4> QED BY <4>1, <4>2
    <3>7. Number[b] < to BY <3>4, <3>6
    <3>8. b \in Ancestors[tip'] BY <3>7
    <3> QED BY <3>1, <3>3, <3>8
  <2> QED BY <2>1, <2>2 DEF EntriesOnChain
<1>10. OutputsEntered'
  <2>1. \A s, a, p : OutEntry(s, a, p)' = OutEntry(s, a, p) /\ OutputsIn(a, s)' = OutputsIn(a, s)
    BY DEF OutEntry, OutputsIn
  <2>2. ASSUME NEW s \in DOMAIN scripts, NEW b \in applied'[s], NEW p \in OutputsIn(b, s)
        PROVE  OutEntry(s, b, p) \in DOMAIN history' /\ history'[OutEntry(s, b, p)] = Body[b][p[1]]
    <3>1. b \in applied[s] /\ Number[b] < to BY <1>6
    <3>2. OutEntry(s, b, p) \in DOMAIN history /\ history[OutEntry(s, b, p)] = Body[b][p[1]]
      BY <3>1 DEF HistoryInv, OutputsEntered
    <3>3. OutEntry(s, b, p)[2] = Number[b] BY DEF OutEntry
    <3>4. Number[b] \in Nat BY <1>5, <3>1
    <3> QED BY <1>7, <3>1, <3>2, <3>3, <3>4
  <2>3. DOMAIN scripts' = DOMAIN scripts BY <1>1
  <2> QED BY <2>1, <2>2, <2>3 DEF OutputsEntered
<1>11. InputsEntered'
  <2>1. \A s, a, p : InEntry(s, a, p)' = InEntry(s, a, p) /\ InputsIn(a, s)' = InputsIn(a, s)
    BY DEF InEntry, InputsIn
  <2>2. ASSUME NEW s \in DOMAIN scripts, <<s, "redone">> \notin upset',
               NEW b \in applied'[s], NEW c \in applied'[s], NEW p \in InputsIn(b, s),
               NEW i \in DOMAIN Body[c], Body[c][i] = Inputs[Body[b][p[1]]][p[2]].tx
        PROVE  InEntry(s, b, p) \in DOMAIN history'
    <3>1. b \in applied[s] /\ Number[b] < to /\ c \in applied[s] BY <1>6
    <3>2. <<s, "redone">> \notin upset BY <1>1, <2>2
    <3>3. InEntry(s, b, p) \in DOMAIN history
      BY <2>2, <3>1, <3>2 DEF HistoryInv, InputsEntered
    <3>4. InEntry(s, b, p)[2] = Number[b] BY DEF InEntry
    <3>5. Number[b] \in Nat BY <1>5, <3>1
    <3> QED BY <1>7, <3>1, <3>3, <3>4, <3>5
  <2>3. DOMAIN scripts' = DOMAIN scripts BY <1>1
  <2> QED BY <2>1, <2>2, <2>3 DEF InputsEntered
<1> QED BY <1>8, <1>9, <1>10, <1>11 DEF HistoryInv

\* Nothing is in the history at the start.
LEMMA HistoryInit == Init => HistoryInv
<1> SUFFICES ASSUME Init PROVE HistoryInv OBVIOUS
<1>1. DOMAIN scripts = {} /\ DOMAIN history = {} /\ applied = [s \in Scripts |-> {}]
  BY DEF Init, EmptyMap
<1> QED BY <1>1 DEF HistoryInv, AppliedOnChain, EntriesOnChain, OutputsEntered, InputsEntered

\* Every step keeps the history of the filtered blocks.
LEMMA HistoryStep == Typed /\ IndexInv /\ HistoryInv /\ [Next]_vars => HistoryInv'
<1> SUFFICES ASSUME Typed, IndexInv, HistoryInv, [Next]_vars PROVE HistoryInv' OBVIOUS
<1>1. ASSUME NEW c \in Commands, SetScripts(c) PROVE HistoryInv'
  BY <1>1, SetScriptsHistory
<1>2. ASSUME FilterNext PROVE HistoryInv' BY <1>2, FilterNextHistory
<1>3. ASSUME NEW h \in Heads, MoveTip(h) PROVE HistoryInv'
  <2>1. h \in Blocks /\ tip \in Blocks BY CellsAssumption DEF Typed
  <2>2. tip' = h BY <1>3 DEF MoveTip
  <2>3. CASE tip \in Ancestors[h]
    <3>1. UNCHANGED <<scripts, history, applied, upset>>
      BY <1>3, <2>3 DEF MoveTip, dbVars, ghostVars
    <3>2. Ancestors[tip] \subseteq Ancestors[h] BY <2>1, <2>3, AncestorsNest
    <3> QED BY <2>2, <3>1, <3>2, SameHistory
  <2>4. CASE tip \notin Ancestors[h]
    <3> DEFINE fork == MaxOf({Number[a] : a \in Ancestors[h] \cap Ancestors[tip]})
    <3>1. RollbackToBlock(fork + 1) BY <1>3, <2>4 DEF MoveTip
    <3>2. fork \in Nat /\ \A a \in Ancestors[tip] : Number[a] < fork + 1 => a \in Ancestors[h]
      BY <2>1, ForkIsCommon
    <3> HIDE DEF fork
    <3>3. fork + 1 \in Nat BY <3>2
    <3> QED BY <2>2, <3>1, <3>2, <3>3, RollbackHistory
  <2> QED BY <2>3, <2>4
<1>4. ASSUME UNCHANGED <<tip, scripts, history, applied, upset>> PROVE HistoryInv'
  BY <1>4, SameHistory
<1>5. ASSUME NEW t \in Transactions, FetchTransaction(t) PROVE HistoryInv'
  BY <1>4, <1>5 DEF FetchTransaction, dbVars, ghostVars
<1>6. ASSUME NEW a \in asked, TransactionAnswered(a) PROVE HistoryInv'
  BY <1>4, <1>6 DEF TransactionAnswered, dbVars, ghostVars
<1>7. ASSUME NEW b \in Headers, FetchHeader(b) PROVE HistoryInv'
  BY <1>4, <1>7 DEF FetchHeader, dbVars, ghostVars
<1>8. ASSUME NEW a \in askedHeaders, HeaderAnswered(a) PROVE HistoryInv'
  BY <1>4, <1>8 DEF HeaderAnswered, ghostVars
<1>9. ASSUME NEW s \in Scripts, NEW order \in {"asc", "desc"}, ScanStart(s, order)
      PROVE  HistoryInv'
  BY <1>4, <1>9 DEF ScanStart, dbVars, ghostVars
<1>10. ASSUME ScanPage PROVE HistoryInv'
  <2>1. UNCHANGED <<tip, dbVars, ghostVars>> BY <1>10 DEF ScanPage
  <2> QED BY <1>4, <2>1 DEF dbVars, ghostVars
<1>11. ASSUME UNCHANGED vars PROVE HistoryInv'
  BY <1>4, <1>11 DEF vars, dbVars, ghostVars
<1> QED
  BY <1>1, <1>2, <1>3, <1>5, <1>6, <1>7, <1>8, <1>9, <1>10, <1>11 DEF Next

\* The transaction history that get_transactions reads is that of the filtered
\* blocks of each registered script, across filter_block, rollback_to_block,
\* set_scripts and fetched transactions in any order: every output and every
\* input that spends an output of a filtered block is there, under the right
\* transaction, and nothing that the block does not have.
THEOREM HistoryCorrect == Spec => []HistoryIsReplay
<1> DEFINE Inv == Typed /\ IndexInv /\ HistoryInv
<1>1. Init => Inv BY IndexInit, HistoryInit
<1>2. Inv /\ [Next]_vars => Inv' BY IndexStep, HistoryStep
<1>3. Inv => HistoryIsReplay BY HistoryInvSuffices
<1> QED BY <1>1, <1>2, <1>3, PTL DEF Spec

-----------------------------------------------------------------------------
(* The cells of the filtered blocks.                                         *)

\* Nothing has gone wrong for the script, of the four ways of Upsets.
Undisturbed(s) == \A u \in Upsets : <<s, u>> \notin upset

CellKey(s, b, p) == <<s, Number[b], p[1], p[2]>>

\* A cell is in the history too, so that a rollback finds it.
CellsEntered ==
    \A k \in DOMAIN cells : Undisturbed(k[1]) => EntryOf(k) \in DOMAIN history

\* A cell of a filtered block that a filtered block spends is gone.
SpentAreGone ==
    \A s \in DOMAIN scripts : Undisturbed(s) =>
        \A b, c \in applied[s] : \A p \in OutputsIn(b, s) :
            SpendsIn(c, Body[b][p[1]], p[2]) => CellKey(s, b, p) \notin DOMAIN cells

\* A cell of a filtered block that no filtered block spends is there.
UnspentAreKept ==
    \A s \in DOMAIN scripts : Undisturbed(s) =>
        \A b \in applied[s] : \A p \in OutputsIn(b, s) :
            (\A c \in applied[s] : ~SpendsIn(c, Body[b][p[1]], p[2]))
              => CellKey(s, b, p) \in DOMAIN cells

CellsInv == CellsEntered /\ SpentAreGone /\ UnspentAreKept

\* The keys after a batch: what was there or is put, unless it is deleted after
\* all of its puts.
LEMMA CommitDomain ==
    ASSUME NEW map, NEW puts, NEW deletes, NEW k
    PROVE  k \in DOMAIN Commit(map, puts, deletes) <=>
              /\ k \in DOMAIN map \/ \E p \in puts : p.key = k
              /\ ~ \E d \in deletes : d.key = k /\ \A p \in puts : p.key = k => p.at < d.at
<1> DEFINE added == {p.key : p \in puts}
           gone == {d.key : d \in {d \in deletes :
                       \A p \in puts : p.key = d.key => p.at < d.at}}
<1>1. DOMAIN Commit(map, puts, deletes) = (DOMAIN map \cup added) \ gone BY DEF Commit
<1>2. k \in added <=> \E p \in puts : p.key = k OBVIOUS
<1>3. k \in gone <=> \E d \in deletes : d.key = k /\ \A p \in puts : p.key = k => p.at < d.at
  OBVIOUS
<1> QED BY <1>1, <1>2, <1>3

\* On a chain a transaction has one place, which PositionOn names.
LEMMA PositionOnIs ==
    ASSUME NEW h \in Blocks, NEW a \in Ancestors[h], NEW j \in DOMAIN Body[a]
    PROVE  PositionOn(Body[a][j], h) = [number |-> Number[a], index |-> j]
<1> DEFINE t == Body[a][j]
           c == CHOOSE c \in Ancestors[h] : \E i \in DOMAIN Body[c] : Body[c][i] = t
           k == CHOOSE i \in DOMAIN Body[c] : Body[c][i] = t
<1>1. c \in Ancestors[h] /\ \E i \in DOMAIN Body[c] : Body[c][i] = t OBVIOUS
<1>2. k \in DOMAIN Body[c] /\ Body[c][k] = t BY <1>1
<1>3. PositionOn(t, h) = [number |-> Number[c], index |-> k] BY DEF PositionOn
<1> HIDE DEF c, k
<1>4. c = a /\ k = j BY <1>1, <1>2, InputsAssumption
<1> QED BY <1>3, <1>4

\* On a chain an output is spent in one place.
LEMMA OneSpender ==
    ASSUME NEW h \in Blocks, NEW b \in Ancestors[h], NEW c \in Ancestors[h], NEW t, NEW o,
           SpendsIn(b, t, o), SpendsIn(c, t, o)
    PROVE  b = c
<1>1. PICK i \in DOMAIN Body[b] : \E x \in DOMAIN Inputs[Body[b][i]] :
        Inputs[Body[b][i]][x] = [tx |-> t, out |-> o]
  BY DEF SpendsIn
<1>2. PICK j \in DOMAIN Body[c] : \E x \in DOMAIN Inputs[Body[c][j]] :
        Inputs[Body[c][j]][x] = [tx |-> t, out |-> o]
  BY DEF SpendsIn
<1>3. \E x \in DOMAIN Inputs[Body[b][i]], y \in DOMAIN Inputs[Body[c][j]] :
        Inputs[Body[b][i]][x] = Inputs[Body[c][j]][y]
  BY <1>1, <1>2
<1> QED BY <1>3, InputsAssumption

\* An input is a record of a transaction and the index of one of its outputs.
LEMMA InputTyped ==
    ASSUME NEW b \in Blocks, NEW i \in DOMAIN Body[b], NEW x \in DOMAIN Inputs[Body[b][i]]
    PROVE  /\ Inputs[Body[b][i]][x] \in [tx : Transactions, out : Nat]
           /\ Inputs[Body[b][i]][x]
                = [tx |-> Inputs[Body[b][i]][x].tx, out |-> Inputs[Body[b][i]][x].out]
           /\ i \in Nat /\ x \in 1 .. MaxIndex
<1>1. Body[b][i] \in Transactions /\ i \in Nat BY BodyTyped
<1>2. /\ Inputs[Body[b][i]] \in Seq([tx : Transactions, out : Nat])
      /\ Len(Inputs[Body[b][i]]) < MaxIndex /\ MaxIndex \in Nat
  BY <1>1, CellsAssumption
<1>3. x \in 1 .. MaxIndex
  <2>1. DOMAIN Inputs[Body[b][i]] = 1 .. Len(Inputs[Body[b][i]]) /\ Len(Inputs[Body[b][i]]) \in Nat
    BY <1>2
  <2> QED BY <1>2, <2>1
<1>4. Inputs[Body[b][i]][x] \in [tx : Transactions, out : Nat]
  <2>1. \A X : \A z \in Seq(X) : \A n \in DOMAIN z : z[n] \in X OBVIOUS
  <2> QED BY <1>2, <2>1, Zenon
<1>5. \A r \in [tx : Transactions, out : Nat] : r = [tx |-> r.tx, out |-> r.out] OBVIOUS
<1> QED BY <1>1, <1>3, <1>4, <1>5

\* Where a spent cell is found when the script is not misread.
LEMMA SpentAt ==
    ASSUME NEW b, NEW i \in DOMAIN Body[b], NEW S, NEW c \in SpentBy(b, i, S),
           c.script \notin Misread(b, S)
    PROVE  c.at = PositionOn(c.tx, b)
<1> DEFINE At(j) == {d.script : d \in {d \in SpentBy(b, j, S) : d.at # PositionOn(d.tx, b)}}
<1>1. Misread(b, S) = UNION {At(j) : j \in DOMAIN Body[b]} BY DEF Misread
<1>2. c.at # PositionOn(c.tx, b) => c.script \in At(i) OBVIOUS
<1> HIDE DEF At
<1> QED BY <1>1, <1>2

\* The cells that filter_block deletes are spent by an input of the block.
LEMMA DeletesAreSpent ==
    ASSUME NEW b \in Blocks, NEW S, NEW s, s \notin Misread(b, S),
           NEW d \in UtxoDeletes(b, S), d.key[1] = s
    PROVE  \E a \in Ancestors[b] : \E j \in DOMAIN Body[a] :
              d.key = <<s, Number[a], j, d.key[4]>> /\ SpendsIn(b, Body[a][j], d.key[4])
<1>1. PICK i \in DOMAIN Body[b] : \E c \in SpentBy(b, i, S) :
        d = [key |-> <<c.script, c.at.number, c.at.index, c.out>>, at |-> 2 * i]
  BY DEF UtxoDeletes
<1>2. PICK c \in SpentBy(b, i, S) :
        d = [key |-> <<c.script, c.at.number, c.at.index, c.out>>, at |-> 2 * i]
  BY <1>1
<1>3. PICK x \in DOMAIN Inputs[Body[b][i]] :
        c.tx = Inputs[Body[b][i]][x].tx /\ c.out = Inputs[Body[b][i]][x].out
  BY SMTT(20) DEF SpentBy
<1>4. PICK a \in Ancestors[b] : \E j \in DOMAIN Body[a] : Body[a][j] = c.tx
  BY <1>3, InputsAssumption
<1>5. PICK j \in DOMAIN Body[a] : Body[a][j] = c.tx BY <1>4
<1>6. PositionOn(c.tx, b) = [number |-> Number[a], index |-> j] BY <1>5, PositionOnIs
<1>7. c.script = s /\ d.key[4] = c.out /\ d.key = <<c.script, c.at.number, c.at.index, c.out>>
  BY <1>2
<1>8. c.at = [number |-> Number[a], index |-> j] BY <1>6, <1>7, SpentAt
<1>9. d.key = <<s, Number[a], j, d.key[4]>>
  <2>1. c.at.number = Number[a] /\ c.at.index = j BY <1>8
  <2> QED BY <1>7, <2>1
<1>10. Inputs[Body[b][i]][x] = [tx |-> c.tx, out |-> c.out] BY <1>3, InputTyped
<1>11. SpendsIn(b, Body[a][j], d.key[4]) BY <1>5, <1>7, <1>10 DEF SpendsIn
<1> QED BY <1>9, <1>11

\* The cells that filter_block finds spent are deleted, in the order of the
\* transactions.
LEMMA SpentAreDeleted ==
    ASSUME NEW b \in Blocks, NEW S, NEW s \in S, s \notin Misread(b, S),
           NEW i \in DOMAIN Body[b], NEW x \in DOMAIN Inputs[Body[b][i]],
           NEW a \in Ancestors[b], NEW j \in DOMAIN Body[a], NEW o,
           Inputs[Body[b][i]][x] = [tx |-> Body[a][j], out |-> o],
           s \in Outputs[Body[a][j]][o], Positions(Body[a][j], b, i) # {}
    PROVE  [key |-> <<s, Number[a], j, o>>, at |-> 2 * i] \in UtxoDeletes(b, S)
<1> DEFINE t == Inputs[Body[b][i]][x]
<1>0. t.tx = Body[a][j] /\ t.out = o OBVIOUS
<1>1. PICK p \in Positions(t.tx, b, i) : TRUE BY <1>0
<1> DEFINE c == [script |-> s, input |-> x, tx |-> t.tx, out |-> t.out, at |-> p]
           Of(k) == {[key |-> <<e.script, e.at.number, e.at.index, e.out>>, at |-> 2 * k] :
                        e \in SpentBy(b, k, S)}
           d == [key |-> <<s, p.number, p.index, t.out>>, at |-> 2 * i]
<1>2. c \in SpentBy(b, i, S)
  <2>1. s \in Outputs[t.tx][t.out] \cap S BY <1>0
  <2> QED BY <1>1, <2>1, SpentByIs, Zenon
<1>3. c.script = s /\ c.at = p /\ c.out = t.out /\ c.tx = t.tx OBVIOUS
<1> HIDE DEF c
<1>4. p = [number |-> Number[a], index |-> j]
  <2>1. p = PositionOn(t.tx, b) BY <1>2, <1>3, SpentAt
  <2> QED BY <1>0, <2>1, PositionOnIs
<1>5. d \in Of(i) BY <1>2, <1>3
<1>6. UtxoDeletes(b, S) = UNION {Of(k) : k \in DOMAIN Body[b]} BY DEF UtxoDeletes
<1> HIDE DEF Of
<1>7. d \in UtxoDeletes(b, S) BY <1>5, <1>6
<1>8. d = [key |-> <<s, Number[a], j, o>>, at |-> 2 * i] BY <1>0, <1>4
<1> QED BY <1>7, <1>8

\* The cells that filter_block puts are the outputs of the block.
LEMMA PutsAreOutputs ==
    ASSUME NEW b \in Blocks, NEW S \in SUBSET Scripts
    PROVE  /\ \A p \in UtxoPuts(b, S) :
                 /\ p.key[1] \in S /\ <<p.key[3], p.key[4]>> \in OutputsIn(b, p.key[1])
                 /\ p.key = CellKey(p.key[1], b, <<p.key[3], p.key[4]>>)
                 /\ p.at = 2 * p.key[3] + 1
           /\ \A s \in S : \A o \in OutputsIn(b, s) :
                 \E p \in UtxoPuts(b, S) : p.key = CellKey(s, b, o)
<1> DEFINE Rec(i, c) == [key |-> <<c.script, Number[b], i, c.out>>, tx |-> Body[b][i], at |-> 2 * i + 1]
<1>1. \A p : p \in UtxoPuts(b, S) <=>
        \E i \in DOMAIN Body[b] : \E c \in CreatedBy(b, i, S) : p = Rec(i, c)
  BY DEF UtxoPuts
<1>2. ASSUME NEW p \in UtxoPuts(b, S)
      PROVE  /\ p.key[1] \in S /\ <<p.key[3], p.key[4]>> \in OutputsIn(b, p.key[1])
             /\ p.key = CellKey(p.key[1], b, <<p.key[3], p.key[4]>>)
             /\ p.at = 2 * p.key[3] + 1
  <2>1. PICK i \in DOMAIN Body[b] : \E c \in CreatedBy(b, i, S) : p = Rec(i, c) BY <1>1
  <2>2. PICK c \in CreatedBy(b, i, S) : p = Rec(i, c) BY <2>1
  <2>3. /\ c.script \in S /\ c.out \in DOMAIN Outputs[Body[b][i]]
        /\ c.script \in Outputs[Body[b][i]][c.out]
    BY DEF CreatedBy
  <2>4. c.out \in 1 .. MaxIndex
    <3>1. Body[b][i] \in Transactions BY BodyTyped
    <3>2. /\ Outputs[Body[b][i]] \in Seq(SUBSET Scripts)
          /\ Len(Outputs[Body[b][i]]) < MaxIndex /\ MaxIndex \in Nat
      BY <3>1, CellsAssumption
    <3>3. /\ DOMAIN Outputs[Body[b][i]] = 1 .. Len(Outputs[Body[b][i]])
          /\ Len(Outputs[Body[b][i]]) \in Nat
      BY <3>2
    <3> QED BY <2>3, <3>2, <3>3
  <2>5. <<i, c.out>> \in OutputsIn(b, c.script) BY <2>3, <2>4 DEF OutputsIn
  <2>6. /\ p.key[1] = c.script /\ p.key[3] = i /\ p.key[4] = c.out /\ p.at = 2 * i + 1
        /\ p.key = <<c.script, Number[b], i, c.out>>
    BY <2>2
  <2>7. p.key = CellKey(p.key[1], b, <<p.key[3], p.key[4]>>) BY <2>6 DEF CellKey
  <2> QED BY <2>3, <2>5, <2>6, <2>7
<1>3. ASSUME NEW s \in S, NEW o \in OutputsIn(b, s)
      PROVE  \E p \in UtxoPuts(b, S) : p.key = CellKey(s, b, o)
  <2>1. /\ o[1] \in DOMAIN Body[b] /\ o[2] \in DOMAIN Outputs[Body[b][o[1]]]
        /\ s \in Outputs[Body[b][o[1]]][o[2]]
    BY DEF OutputsIn
  <2> DEFINE c == [script |-> s, out |-> o[2]]
  <2>2. c \in CreatedBy(b, o[1], S) BY <2>1 DEF CreatedBy
  <2>3. Rec(o[1], c) \in UtxoPuts(b, S) BY <1>1, <2>1, <2>2
  <2>4. Rec(o[1], c).key = CellKey(s, b, o) BY DEF CellKey
  <2> QED BY <2>3, <2>4
<1> QED BY <1>2, <1>3

\* On one chain, blocks with one number are one block.
LEMMA SameNumber ==
    ASSUME NEW h \in Blocks, NEW a \in Ancestors[h], NEW b \in Ancestors[h], Number[a] = Number[b]
    PROVE  a = b
<1>1. a \in Blocks /\ Number[a] \in Nat BY ChainAssumption
<1>2. Number[a] <= Number[b] BY <1>1
<1> QED BY <1>2, ChainOrder

\* What filter_block does to the cells of a script that it does not misread: the
\* outputs of the block appear, the cells that it spends go, those of its own
\* outputs included, and every other cell of the chain stays.
LEMMA FilterCells ==
    ASSUME NEW h \in Blocks, NEW b \in Ancestors[h], NEW known, DOMAIN known \subseteq Scripts,
           FilterBlock(b, known)
    PROVE  /\ \A k \in DOMAIN cells' :
                 \/ k \in DOMAIN cells
                 \/ \E p \in OutputsIn(b, k[1]) : k[1] \in DOMAIN known /\ k = CellKey(k[1], b, p)
           /\ \A s \in DOMAIN known \ Misread(b, DOMAIN known) :
              \A a \in Ancestors[h] : \A p \in OutputsIn(a, s) :
                 /\ ~SpendsIn(b, Body[a][p[1]], p[2]) /\ (a = b \/ CellKey(s, a, p) \in DOMAIN cells)
                       => CellKey(s, a, p) \in DOMAIN cells'
                 /\ SpendsIn(b, Body[a][p[1]], p[2]) /\ (a = b \/ Body[a][p[1]] \in DOMAIN txs)
                       => CellKey(s, a, p) \notin DOMAIN cells'
<1> DEFINE S == DOMAIN known
           puts == UtxoPuts(b, S)
           deletes == UtxoDeletes(b, S)
<1>1. S \in SUBSET Scripts /\ b \in Blocks /\ Ancestors[b] \subseteq Ancestors[h] BY AncestorsNest
<1>2. cells' = Commit(cells, puts, deletes) BY DEF FilterBlock
<1>3. /\ \A p \in puts :
            /\ p.key[1] \in S /\ <<p.key[3], p.key[4]>> \in OutputsIn(b, p.key[1])
            /\ p.key = CellKey(p.key[1], b, <<p.key[3], p.key[4]>>)
            /\ p.at = 2 * p.key[3] + 1
      /\ \A s \in S : \A o \in OutputsIn(b, s) : \E p \in puts : p.key = CellKey(s, b, o)
  BY <1>1, PutsAreOutputs
<1>4. \A k : k \in DOMAIN cells' <=>
        /\ k \in DOMAIN cells \/ \E p \in puts : p.key = k
        /\ ~ \E d \in deletes : d.key = k /\ \A p \in puts : p.key = k => p.at < d.at
  BY <1>2, CommitDomain
<1> HIDE DEF puts
<1>5. ASSUME NEW k \in DOMAIN cells'
      PROVE  \/ k \in DOMAIN cells
             \/ \E p \in OutputsIn(b, k[1]) : k[1] \in DOMAIN known /\ k = CellKey(k[1], b, p)
  <2>1. CASE \E p \in puts : p.key = k
    <3>1. PICK p \in puts : p.key = k BY <2>1
    <3> QED BY <1>3, <3>1
  <2> QED BY <1>4, <2>1
<1>6. ASSUME NEW s \in S \ Misread(b, S), NEW a \in Ancestors[h], NEW p \in OutputsIn(a, s),
             ~SpendsIn(b, Body[a][p[1]], p[2]), a = b \/ CellKey(s, a, p) \in DOMAIN cells
      PROVE  CellKey(s, a, p) \in DOMAIN cells'
  <2> DEFINE k == CellKey(s, a, p)
  <2>1. k \in DOMAIN cells \/ \E q \in puts : q.key = k BY <1>3, <1>6
  <2>2. ASSUME NEW d \in deletes, d.key = k PROVE FALSE
    <3>1. k[1] = s /\ k[2] = Number[a] /\ k[3] = p[1] /\ k[4] = p[2] BY DEF CellKey
    <3>2. PICK c \in Ancestors[b] : \E j \in DOMAIN Body[c] :
            d.key = <<s, Number[c], j, d.key[4]>> /\ SpendsIn(b, Body[c][j], d.key[4])
      <4>1. d.key[1] = s BY <2>2, <3>1
      <4> HIDE DEF k, S
      <4>2. s \notin Misread(b, S) /\ d \in UtxoDeletes(b, S) OBVIOUS
      <4> QED BY <1>1, <4>1, <4>2, DeletesAreSpent
    <3>3. PICK j \in DOMAIN Body[c] :
            d.key = <<s, Number[c], j, d.key[4]>> /\ SpendsIn(b, Body[c][j], d.key[4])
      BY <3>2
    <3>4. Number[c] = Number[a] /\ j = p[1] /\ d.key[4] = p[2] BY <2>2, <3>1, <3>3
    <3>5. c = a BY <1>1, <3>4, SameNumber
    <3> QED BY <1>6, <3>3, <3>4, <3>5
  <2> QED BY <1>4, <2>1, <2>2
<1>7. ASSUME NEW s \in S \ Misread(b, S), NEW a \in Ancestors[h], NEW p \in OutputsIn(a, s),
             SpendsIn(b, Body[a][p[1]], p[2]), a = b \/ Body[a][p[1]] \in DOMAIN txs
      PROVE  CellKey(s, a, p) \notin DOMAIN cells'
  <2> DEFINE k == CellKey(s, a, p)
  <2>1. /\ p[1] \in DOMAIN Body[a] /\ s \in Outputs[Body[a][p[1]]][p[2]] BY DEF OutputsIn
  <2>2. PICK i \in DOMAIN Body[b] : \E x \in DOMAIN Inputs[Body[b][i]] :
          Inputs[Body[b][i]][x] = [tx |-> Body[a][p[1]], out |-> p[2]]
    BY <1>7 DEF SpendsIn
  <2>3. PICK x \in DOMAIN Inputs[Body[b][i]] :
          Inputs[Body[b][i]][x] = [tx |-> Body[a][p[1]], out |-> p[2]]
    BY <2>2
  <2>4. Inputs[Body[b][i]][x].tx = Body[a][p[1]] /\ Inputs[Body[b][i]][x].out = p[2] BY <2>3
  <2>5. Number[a] < Number[b] \/ (a = b /\ p[1] < i) BY <2>1, <2>4, SpentPlace
  <2>6. Positions(Inputs[Body[b][i]][x].tx, b, i) # {}
    <3>1. Body[a][p[1]] \in DOMAIN txs \/ \E j \in DOMAIN Body[b] : j < i /\ Body[b][j] = Body[a][p[1]]
      <4>1. CASE a = b
        <5>1. Number[b] \in Nat BY <1>1, ChainAssumption
        <5>2. p[1] < i BY <2>5, <4>1, <5>1
        <5> QED BY <2>1, <4>1, <5>2
      <4> QED BY <1>7, <4>1
    <3> QED BY <1>1, <2>4, <3>1, PositionsFound
  <2>7. a \in Ancestors[b]
    <3>1. a \in Blocks /\ Number[a] \in Nat /\ Number[b] \in Nat BY <1>1, ChainAssumption
    <3>2. Number[a] <= Number[b] BY <2>5, <3>1
    <3> QED BY <3>2, ChainOrder
  <2>8. PICK d \in deletes : d.key = <<s, Number[a], p[1], p[2]>> /\ d.at = 2 * i
    <3> HIDE DEF S, k
    <3>1. s \in S /\ s \notin Misread(b, S) OBVIOUS
    <3>2. Positions(Body[a][p[1]], b, i) # {} BY <2>4, <2>6
    <3> DEFINE j == p[1]
               o == p[2]
    <3>3. /\ i \in DOMAIN Body[b] /\ x \in DOMAIN Inputs[Body[b][i]]
          /\ j \in DOMAIN Body[a] /\ s \in Outputs[Body[a][j]][o]
          /\ Inputs[Body[b][i]][x] = [tx |-> Body[a][j], out |-> o]
          /\ Positions(Body[a][j], b, i) # {}
      BY <2>1, <2>3, <3>2
    <3> HIDE DEF j, o
    <3>4. [key |-> <<s, Number[a], j, o>>, at |-> 2 * i] \in UtxoDeletes(b, S)
      BY <1>1, <2>7, <3>1, <3>3, SpentAreDeleted
    <3> QED BY <3>4 DEF j, o
  <2>9. d.key = k BY <2>8 DEF CellKey
  <2>10. ASSUME NEW q \in puts, q.key = k PROVE q.at < d.at
    <3>1. k[2] = Number[a] /\ k[3] = p[1] BY DEF CellKey
    <3>2. q.key[2] = Number[b] /\ q.at = 2 * q.key[3] + 1
      <4>1. q.key = CellKey(q.key[1], b, <<q.key[3], q.key[4]>>) /\ q.at = 2 * q.key[3] + 1 BY <1>3
      <4> QED BY <4>1 DEF CellKey
    <3>3. a = b BY <2>10, <3>1, <3>2, SameNumber
    <3>4. Number[b] \in Nat BY <1>1, ChainAssumption
    <3>5. p[1] < i BY <2>5, <3>3, <3>4
    <3>6. p[1] \in Nat /\ i \in Nat BY <1>1, <2>1, <3>3, BodyTyped
    <3>7. q.at = 2 * p[1] + 1 /\ d.at = 2 * i BY <2>8, <2>10, <3>1, <3>2
    <3> QED BY <3>5, <3>6, <3>7
  <2> QED BY <1>4, <2>9, <2>10
<1> QED BY <1>5, <1>6, <1>7

\* A block that spends a cell of a script has an input of the script.
LEMMA SpendIsInput ==
    ASSUME NEW b, NEW c \in Blocks, NEW s, NEW p \in OutputsIn(b, s),
           SpendsIn(c, Body[b][p[1]], p[2])
    PROVE  \E q \in InputsIn(c, s) :
              /\ q[1] \in DOMAIN Body[c] /\ q[2] \in DOMAIN Inputs[Body[c][q[1]]]
              /\ Inputs[Body[c][q[1]]][q[2]] = [tx |-> Body[b][p[1]], out |-> p[2]]
<1>1. s \in Outputs[Body[b][p[1]]][p[2]] BY DEF OutputsIn
<1>2. PICK i \in DOMAIN Body[c] : \E x \in DOMAIN Inputs[Body[c][i]] :
        Inputs[Body[c][i]][x] = [tx |-> Body[b][p[1]], out |-> p[2]]
  BY DEF SpendsIn
<1>3. PICK x \in DOMAIN Inputs[Body[c][i]] :
        Inputs[Body[c][i]][x] = [tx |-> Body[b][p[1]], out |-> p[2]]
  BY <1>2
<1>4. Inputs[Body[c][i]][x].tx = Body[b][p[1]] /\ Inputs[Body[c][i]][x].out = p[2] BY <1>3
<1>5. x \in 1 .. MaxIndex BY InputTyped
<1>6. <<i, x>> \in InputsIn(c, s) BY <1>1, <1>4, <1>5 DEF InputsIn
<1>7. <<i, x>>[1] = i /\ <<i, x>>[2] = x OBVIOUS
<1> QED BY <1>3, <1>6, <1>7

\* A step that leaves the cells alone, and adds only blocks to a script that have
\* nothing of it, or starts it from scratch.
LEMMA SameCells ==
    ASSUME CellsInv, DOMAIN cells' = DOMAIN cells, DOMAIN history \subseteq DOMAIN history',
           upset \subseteq upset',
           \A s \in DOMAIN scripts' :
              \/ applied'[s] = {}
              \/ /\ s \in DOMAIN scripts /\ applied[s] \subseteq applied'[s]
                 /\ \A a \in applied'[s] :
                       \/ a \in applied[s]
                       \/ a \in Blocks /\ OutputsIn(a, s) = {} /\ InputsIn(a, s) = {}
    PROVE  CellsInv'
<1>1. \A s : Undisturbed(s)' => Undisturbed(s) BY DEF Undisturbed
<1>2. CellsEntered' BY <1>1 DEF CellsInv, CellsEntered
<1>3. \A s, a, p : CellKey(s, a, p)' = CellKey(s, a, p) /\ OutputsIn(a, s)' = OutputsIn(a, s)
  BY DEF CellKey, OutputsIn
<1>4. \A a, u, o : SpendsIn(a, u, o)' <=> SpendsIn(a, u, o) BY DEF SpendsIn
<1>5. ASSUME NEW s \in DOMAIN scripts', Undisturbed(s)', NEW b \in applied'[s], NEW p \in OutputsIn(b, s)
      PROVE  s \in DOMAIN scripts /\ Undisturbed(s) /\ b \in applied[s] /\ applied[s] \subseteq applied'[s]
  BY <1>1, <1>5
<1>6. SpentAreGone'
  <2>1. ASSUME NEW s \in DOMAIN scripts', Undisturbed(s)', NEW b \in applied'[s],
               NEW c \in applied'[s], NEW p \in OutputsIn(b, s),
               SpendsIn(c, Body[b][p[1]], p[2])
        PROVE  CellKey(s, b, p) \notin DOMAIN cells
    <3>1. s \in DOMAIN scripts /\ Undisturbed(s) /\ b \in applied[s] BY <1>5, <2>1
    <3>2. c \in Blocks => InputsIn(c, s) # {} BY <2>1, SpendIsInput
    <3>3. c \in applied[s] BY <2>1, <3>1, <3>2
    <3> QED BY <2>1, <3>1, <3>3 DEF CellsInv, SpentAreGone
  <2> QED BY <1>3, <1>4, <2>1 DEF SpentAreGone
<1>7. UnspentAreKept'
  <2>1. ASSUME NEW s \in DOMAIN scripts', Undisturbed(s)', NEW b \in applied'[s],
               NEW p \in OutputsIn(b, s),
               \A c \in applied'[s] : ~SpendsIn(c, Body[b][p[1]], p[2])
        PROVE  CellKey(s, b, p) \in DOMAIN cells
    <3>1. /\ s \in DOMAIN scripts /\ Undisturbed(s) /\ b \in applied[s]
          /\ applied[s] \subseteq applied'[s]
      BY <1>5, <2>1
    <3> QED BY <2>1, <3>1 DEF CellsInv, UnspentAreKept
  <2> QED BY <1>3, <1>4, <2>1 DEF UnspentAreKept
<1> QED BY <1>2, <1>6, <1>7 DEF CellsInv

\* filter_block of a block of the chain, after the blocks A of a script or for
\* the first time.
LEMMA FilterCellsStep ==
    ASSUME Typed, IndexInv, HistoryInv, CellsInv, NEW b \in Ancestors[tip],
           NEW known, DOMAIN known \subseteq Scripts, FilterBlock(b, known),
           scripts' = known \/ DOMAIN scripts' = DOMAIN known,
           upset \subseteq upset',
           \A s \in Misread(b, DOMAIN known) : <<s, "misread">> \in upset',
           \A s \in DOMAIN known : Undisturbed(s)' =>
              \E A \in SUBSET applied[s] :
                 /\ applied'[s] = A \cup {b}
                 /\ A # {} => s \in DOMAIN scripts /\ A = applied[s]
                 /\ \/ OutputsIn(b, s) = {} /\ InputsIn(b, s) = {}
                    \/ \A c \in A : Number[c] < Number[b]
    PROVE  CellsInv'
<1>1. /\ tip \in Blocks /\ b \in Blocks /\ DOMAIN scripts' = DOMAIN known /\ Number[b] \in Nat
  BY ChainAssumption DEF Typed
<1>2. \A k \in DOMAIN cells' :
        \/ k \in DOMAIN cells
        \/ \E p \in OutputsIn(b, k[1]) : k[1] \in DOMAIN known /\ k = CellKey(k[1], b, p)
  BY <1>1, FilterCells
<1>3. \A s \in DOMAIN known \ Misread(b, DOMAIN known) :
      \A a \in Ancestors[tip] : \A p \in OutputsIn(a, s) :
         /\ ~SpendsIn(b, Body[a][p[1]], p[2]) /\ (a = b \/ CellKey(s, a, p) \in DOMAIN cells)
               => CellKey(s, a, p) \in DOMAIN cells'
         /\ SpendsIn(b, Body[a][p[1]], p[2]) /\ (a = b \/ Body[a][p[1]] \in DOMAIN txs)
               => CellKey(s, a, p) \notin DOMAIN cells'
  BY <1>1, FilterCells
<1>4. \A s : Undisturbed(s)' => Undisturbed(s) BY DEF Undisturbed
<1>5. \A s \in DOMAIN known : Undisturbed(s)' => s \in DOMAIN known \ Misread(b, DOMAIN known)
  <2>1. "misread" \in Upsets BY DEF Upsets
  <2> QED BY <2>1 DEF Undisturbed
<1>6. \A s, a, p : CellKey(s, a, p)' = CellKey(s, a, p) /\ OutputsIn(a, s)' = OutputsIn(a, s)
  BY DEF CellKey, OutputsIn
<1>7. \A a, u, o : SpendsIn(a, u, o)' <=> SpendsIn(a, u, o) BY DEF SpendsIn
<1>8. CellsEntered'
  <2>1. ASSUME NEW k \in DOMAIN cells', Undisturbed(k[1])'
        PROVE  EntryOf(k) \in DOMAIN history'
    <3>1. CASE k \in DOMAIN cells
      <4>1. EntryOf(k) \in DOMAIN history
        BY <1>4, <2>1, <3>1 DEF CellsInv, CellsEntered
      <4>2. DOMAIN history \subseteq DOMAIN history' BY <1>1, FilterHistory
      <4> QED BY <4>1, <4>2
    <3>2. CASE k \notin DOMAIN cells
      <4>1. PICK p \in OutputsIn(b, k[1]) : k[1] \in DOMAIN known /\ k = CellKey(k[1], b, p)
        BY <1>2, <3>2
      <4>2. OutEntry(k[1], b, p) \in DOMAIN history' BY <1>1, <4>1, FilterHistory
      <4>3. k[2] = Number[b] /\ k[3] = p[1] /\ k[4] = p[2] BY <4>1 DEF CellKey
      <4> QED BY <4>2, <4>3 DEF OutEntry, EntryOf
    <3> QED BY <3>1, <3>2
  <2> QED BY <2>1 DEF CellsEntered
\* A filtered block of the script is on the chain, and its cells are stored.
<1>9. ASSUME NEW s \in DOMAIN scripts, NEW a \in applied[s]
      PROVE  /\ a \in Ancestors[tip] /\ a \in Blocks /\ Number[a] \in Nat
             /\ \A p \in OutputsIn(a, s) : Body[a][p[1]] \in DOMAIN txs
  <2>1. a \in Ancestors[tip] BY DEF HistoryInv, AppliedOnChain
  <2>2. a \in Blocks /\ Number[a] \in Nat BY <1>1, <2>1, ChainAssumption
  <2>3. ASSUME NEW p \in OutputsIn(a, s) PROVE Body[a][p[1]] \in DOMAIN txs
    <3>1. /\ OutEntry(s, a, p) \in DOMAIN history
          /\ history[OutEntry(s, a, p)] = Body[a][p[1]]
      BY DEF HistoryInv, OutputsEntered
    <3> QED BY <3>1 DEF IndexInv, Indexed
  <2> QED BY <2>1, <2>2, <2>3
<1>10. SpentAreGone'
  <2>1. ASSUME NEW s \in DOMAIN known, Undisturbed(s)', NEW a \in applied'[s],
               NEW c \in applied'[s], NEW p \in OutputsIn(a, s),
               SpendsIn(c, Body[a][p[1]], p[2])
        PROVE  CellKey(s, a, p) \notin DOMAIN cells'
    <3>1. PICK A \in SUBSET applied[s] :
            /\ applied'[s] = A \cup {b}
            /\ A # {} => s \in DOMAIN scripts /\ A = applied[s]
            /\ \/ OutputsIn(b, s) = {} /\ InputsIn(b, s) = {}
               \/ \A d \in A : Number[d] < Number[b]
      BY <2>1
    <3>2. \A d \in A : /\ s \in DOMAIN scripts /\ d \in applied[s]
                       /\ d \in Ancestors[tip] /\ d \in Blocks /\ Number[d] \in Nat
      BY <1>9, <3>1
    <3>3. Undisturbed(s) /\ s \in DOMAIN known \ Misread(b, DOMAIN known) BY <1>4, <1>5, <2>1
    <3>4. a \in Ancestors[tip] /\ c \in Ancestors[tip] /\ c \in Blocks BY <1>1, <3>1, <3>2
    <3>5. CASE c = b
      <4>1. a = b \/ Body[a][p[1]] \in DOMAIN txs BY <1>9, <3>1, <3>2
      <4> QED BY <1>3, <2>1, <3>3, <3>4, <3>5, <4>1
    <3>6. CASE c \in A /\ a \in A /\ c # b /\ a # b
      <4>1. CellKey(s, a, p) \notin DOMAIN cells
        BY <2>1, <3>2, <3>3, <3>6 DEF CellsInv, SpentAreGone
      <4>2. ASSUME NEW q \in OutputsIn(b, s), CellKey(s, a, p) = CellKey(s, b, q) PROVE FALSE
        <5>1. Number[a] = Number[b] BY <4>2 DEF CellKey
        <5> QED BY <1>1, <3>4, <3>6, <5>1, SameNumber
      <4>3. CellKey(s, a, p)[1] = s BY DEF CellKey
      <4> QED BY <1>2, <4>1, <4>2, <4>3
    <3>7. CASE c \in A /\ a = b /\ c # b
      <4>1. Number[c] < Number[b] BY <3>1, <3>7
      <4>2. PICK q \in InputsIn(c, s) :
              /\ q[1] \in DOMAIN Body[c] /\ q[2] \in DOMAIN Inputs[Body[c][q[1]]]
              /\ Inputs[Body[c][q[1]]][q[2]] = [tx |-> Body[a][p[1]], out |-> p[2]]
        <5>1. c \in Blocks /\ p \in OutputsIn(a, s) /\ SpendsIn(c, Body[a][p[1]], p[2])
          BY <2>1, <3>4
        <5> QED BY ONLY <5>1, SpendIsInput
      <4>3. p[1] \in DOMAIN Body[a] BY DEF OutputsIn
      <4>4. Body[a][p[1]] = Inputs[Body[c][q[1]]][q[2]].tx BY <4>2
      <4>5. Number[a] < Number[c] \/ a = c BY <1>1, <3>4, <4>2, <4>3, <4>4, SpentPlace, SMTT(20)
      <4> QED BY <1>1, <3>2, <3>7, <4>1, <4>5
    <3> QED BY <3>1, <3>5, <3>6, <3>7
  <2> QED BY <1>1, <1>6, <1>7, <2>1 DEF SpentAreGone
<1>11. UnspentAreKept'
  <2>1. ASSUME NEW s \in DOMAIN known, Undisturbed(s)', NEW a \in applied'[s],
               NEW p \in OutputsIn(a, s),
               \A c \in applied'[s] : ~SpendsIn(c, Body[a][p[1]], p[2])
        PROVE  CellKey(s, a, p) \in DOMAIN cells'
    <3>1. PICK A \in SUBSET applied[s] :
            /\ applied'[s] = A \cup {b}
            /\ A # {} => s \in DOMAIN scripts /\ A = applied[s]
      BY <2>1
    <3>2. Undisturbed(s) /\ s \in DOMAIN known \ Misread(b, DOMAIN known) BY <1>4, <1>5, <2>1
    <3>3. ~SpendsIn(b, Body[a][p[1]], p[2]) BY <2>1, <3>1
    <3>4. CASE a = b BY <1>3, <3>2, <3>3, <3>4
    <3>5. CASE a \in A
      <4>1. s \in DOMAIN scripts /\ A = applied[s] BY <3>1, <3>5
      <4>2. a \in Ancestors[tip] BY <1>9, <3>5, <4>1
      <4>3. CellKey(s, a, p) \in DOMAIN cells
        BY <2>1, <3>1, <3>2, <3>5, <4>1 DEF CellsInv, UnspentAreKept
      <4> QED BY <1>3, <3>2, <3>3, <4>2, <4>3
    <3> QED BY <3>1, <3>4, <3>5
  <2> QED BY <1>1, <1>6, <1>7, <2>1 DEF UnspentAreKept
<1> QED BY <1>8, <1>10, <1>11 DEF CellsInv

\* Two digits of width w again: a higher number comes later.
LEMMA DigitsOrder ==
    ASSUME NEW w \in Nat, NEW a \in Nat, NEW b \in Nat, a < b,
           NEW i \in 0 .. w - 1, NEW j \in Nat
    PROVE  a * w + i < b * w + j
<1>1. PICK e \in Nat : b = a + 1 + e
  <2>1. b - a - 1 \in Nat /\ b = a + 1 + (b - a - 1) OBVIOUS
  <2> QED BY <2>1
<1>2. b * w = a * w + w + e * w BY <1>1
<1>3. e * w \in Nat /\ a * w \in Nat OBVIOUS
<1> QED BY <1>2, <1>3

\* Entries of a later transaction come later in the order of the keys.
LEMMA RankOrder ==
    ASSUME NEW o \in HistoryKeys, NEW e \in HistoryKeys,
           o[2] < e[2] \/ (o[2] = e[2] /\ o[3] < e[3])
    PROVE  Rank(o) < Rank(e)
<1> DEFINE w == MaxIndex + 1
           ho == o[2] * w + o[3]
           he == e[2] * w + e[3]
           x == ho * w + o[4]
           y == he * w + e[4]
<1>1. w \in Nat /\ Indexes = 0 .. w - 1 BY CellsAssumption DEF Indexes
<1>2. /\ o[2] \in Nat /\ o[3] \in 0 .. w - 1 /\ o[4] \in 0 .. w - 1 /\ o[5] \in {0, 1} /\ Len(o) = 5
      /\ e[2] \in Nat /\ e[3] \in 0 .. w - 1 /\ e[4] \in 0 .. w - 1 /\ e[5] \in {0, 1} /\ Len(e) = 5
  BY <1>1 DEF HistoryKeys
<1>3. Rank(o) = x * 2 + o[5] /\ Rank(e) = y * 2 + e[5] BY <1>2 DEF Rank
<1>4. o[3] \in Nat /\ e[3] \in Nat /\ o[4] \in Nat /\ e[4] \in Nat BY <1>1, <1>2
<1> HIDE DEF w
<1>5. ho \in Nat /\ he \in Nat
  <2>1. o[2] * w \in Nat /\ e[2] * w \in Nat BY <1>1, <1>2
  <2> QED BY <1>4, <2>1
<1>6. ho < he
  <2>1. CASE o[2] < e[2] BY <1>1, <1>2, <1>4, <2>1, DigitsOrder
  <2>2. CASE o[2] = e[2] /\ o[3] < e[3]
    <3>1. o[2] * w \in Nat BY <1>1, <1>2
    <3> QED BY <1>4, <2>2, <3>1
  <2> QED BY <2>1, <2>2
<1> HIDE DEF ho, he
<1>7. x < y BY <1>1, <1>2, <1>4, <1>5, <1>6, DigitsOrder
<1>8. x \in Nat /\ y \in Nat
  <2>1. ho * w \in Nat /\ he * w \in Nat BY <1>1, <1>5
  <2> QED BY <1>4, <2>1
<1> HIDE DEF x, y
<1> QED BY <1>2, <1>3, <1>7, <1>8

\* What a rolled back input puts back, when it is not misread: a cell of an earlier
\* place of the chain, which the block of the input spends.
LEMMA RestoredIsSpent ==
    ASSUME Typed, IndexInv, HistoryInv, NEW E \in SUBSET DOMAIN history,
           NEW p \in RestorePuts(E), <<p.key[1], "orphaned">> \notin upset,
           PositionOn(p.tx, tip) = [number |-> p.key[2], index |-> p.key[3]]
    PROVE  \E e \in E : \E a, c \in Ancestors[tip] :
              /\ e[1] = p.key[1] /\ e[2] = Number[c] /\ p.at = 0 - Rank(e)
              /\ p.key[2] = Number[a] /\ p.key[3] \in DOMAIN Body[a]
              /\ SpendsIn(c, Body[a][p.key[3]], p.key[4])
              /\ Number[a] < e[2] \/ (Number[a] = e[2] /\ p.key[3] < e[3])
<1>1. PICK e \in E : /\ e[5] = 0
                     /\ p \in LET q == Inputs[history[e]][e[4]]
                              IN  IF q.tx \in DOMAIN txs
                                  THEN {[key |-> <<e[1], txs[q.tx].number, txs[q.tx].index, q.out>>,
                                         tx |-> q.tx, at |-> 0 - Rank(e)]}
                                  ELSE {}
  BY DEF RestorePuts
<1> DEFINE q == Inputs[history[e]][e[4]]
<1>2. p = [key |-> <<e[1], txs[q.tx].number, txs[q.tx].index, q.out>>,
           tx |-> q.tx, at |-> 0 - Rank(e)]
  BY <1>1
<1>3. /\ p.key[1] = e[1] /\ p.tx = q.tx /\ p.key[4] = q.out /\ p.at = 0 - Rank(e)
  BY <1>2
<1>4. PICK c \in Ancestors[tip] : InBlock(e, c) /\ history[e] = Body[c][e[3]]
  BY <1>3 DEF HistoryInv, EntriesOnChain
<1>5. e[2] = Number[c] /\ <<e[3], e[4]>> \in InputsIn(c, e[1]) BY <1>1, <1>4 DEF InBlock
<1>6. e[3] \in DOMAIN Body[c] /\ e[4] \in DOMAIN Inputs[Body[c][e[3]]] BY <1>5 DEF InputsIn
<1>7. tip \in Blocks /\ c \in Blocks /\ Ancestors[c] \subseteq Ancestors[tip]
  BY AncestorsNest DEF Typed
<1>8. q = Inputs[Body[c][e[3]]][e[4]] BY <1>4
<1>9. PICK a \in Ancestors[c] : \E j \in DOMAIN Body[a] :
        Body[a][j] = Inputs[Body[c][e[3]]][e[4]].tx /\ (a = c => j < e[3])
  <2> DEFINE i == e[3]
             x == e[4]
  <2>1. c \in Blocks /\ i \in DOMAIN Body[c] /\ x \in DOMAIN Inputs[Body[c][i]] BY <1>6, <1>7
  <2> HIDE DEF i, x
  <2>2. \E d \in Ancestors[c] : \E j \in DOMAIN Body[d] :
          Body[d][j] = Inputs[Body[c][i]][x].tx /\ (d = c => j < i)
    BY ONLY <2>1, InputsAssumption
  <2> QED BY <2>2 DEF i, x
<1>10. PICK j \in DOMAIN Body[a] :
        Body[a][j] = Inputs[Body[c][e[3]]][e[4]].tx /\ (a = c => j < e[3])
  BY <1>9
<1>11. a \in Ancestors[tip] BY <1>7
<1>12. PositionOn(Body[a][j], tip) = [number |-> Number[a], index |-> j]
  BY <1>7, <1>11, PositionOnIs
<1>13. Body[a][j] = p.tx BY <1>3, <1>8, <1>10
<1>14. p.key[2] = Number[a] /\ p.key[3] = j
  <2>1. [number |-> Number[a], index |-> j] = [number |-> p.key[2], index |-> p.key[3]]
    BY <1>12, <1>13
  <2>2. \A f, g : f = g => f.number = g.number /\ f.index = g.index OBVIOUS
  <2> QED BY <2>1, <2>2
<1>15. SpendsIn(c, Body[a][j], p.key[4])
  <2>1. Inputs[Body[c][e[3]]][e[4]] = [tx |-> Body[a][j], out |-> p.key[4]]
    BY <1>3, <1>6, <1>7, <1>8, <1>10, InputTyped
  <2> QED BY <1>6, <2>1 DEF SpendsIn
<1>16. Number[a] < e[2] \/ (Number[a] = e[2] /\ j < e[3])
  <2>1. a # c => Number[a] < Number[c] BY <1>7, TreeAssumption
  <2> QED BY <1>5, <1>10, <2>1
<1> QED BY <1>3, <1>5, <1>11, <1>14, <1>15, <1>16

\* A rolled back input puts the cell that it spent back.
LEMMA SpentIsRestored ==
    ASSUME NEW E, NEW e \in E, e[5] = 0, NEW t, NEW o,
           Inputs[history[e]][e[4]] = [tx |-> t, out |-> o], t \in DOMAIN txs
    PROVE  [key |-> <<e[1], txs[t].number, txs[t].index, o>>, tx |-> t, at |-> 0 - Rank(e)]
              \in RestorePuts(E)
<1> DEFINE In(f) == Inputs[history[f]][f[4]]
           Of(f) == IF In(f).tx \in DOMAIN txs
                    THEN {[key |-> <<f[1], txs[In(f).tx].number, txs[In(f).tx].index, In(f).out>>,
                           tx |-> In(f).tx, at |-> 0 - Rank(f)]}
                    ELSE {}
<1>1. RestorePuts(E) = UNION {Of(f) : f \in {f \in E : f[5] = 0}} BY DEF RestorePuts
<1>2. In(e).tx = t /\ In(e).out = o OBVIOUS
<1> HIDE DEF In
<1>3. [key |-> <<e[1], txs[t].number, txs[t].index, o>>, tx |-> t, at |-> 0 - Rank(e)] \in Of(e)
  BY <1>2
<1> HIDE DEF Of
<1> QED BY <1>1, <1>3

\* rollback_to_block takes the cells above the fork away and puts those back that
\* were spent above it: below it the index is as if the blocks above had never
\* been filtered.
LEMMA RollbackCells ==
    ASSUME Typed, IndexInv, HistoryInv, CellsInv, NEW to \in Nat, RollbackToBlock(to)
    PROVE  CellsInv'
<1> DEFINE S == RolledBack(to)
           E == UNION {EntriesFrom(s, to) : s \in S}
           puts == RestorePuts(E)
           deletes == RestoreDeletes(E)
<1>1. /\ cells' = Commit(cells, puts, deletes)
      /\ history' = [e \in DOMAIN history \ E |-> history[e]]
      /\ DOMAIN scripts' = DOMAIN scripts
      /\ applied' = [s \in Scripts |-> IF s \in S
                        THEN {b \in applied[s] : Number[b] < to} ELSE applied[s]]
      /\ upset \subseteq upset'
  BY DEF RollbackToBlock
<1>2. \A p \in puts : PositionOn(p.tx, tip) # [number |-> p.key[2], index |-> p.key[3]]
                        => <<p.key[1], "misread">> \in upset'
  BY DEF RollbackToBlock
<1>3. \A p \in puts : EntryOf(p.key) \notin DOMAIN history => <<p.key[1], "revived">> \in upset'
  BY DEF RollbackToBlock
<1>4. \A e \in DOMAIN history : e \in E <=> e[1] \in S /\ e[2] >= to BY DEF EntriesFrom
<1>5. E \in SUBSET DOMAIN history BY DEF EntriesFrom
<1>6. \A s \in DOMAIN scripts : s \in S <=> scripts[s] >= to BY DEF RolledBack
<1> HIDE DEF S, E
<1>7. /\ \A d \in deletes : \E e \in E : d.key = <<e[1], e[2], e[3], e[4]>>
      /\ \A e \in E : e[5] = 1 =>
            [key |-> <<e[1], e[2], e[3], e[4]>>, at |-> 0 - Rank(e)] \in deletes
  <2>1. \A d \in deletes : \E e \in E : d.key = <<e[1], e[2], e[3], e[4]>> BY DEF RestoreDeletes
  <2>2. \A e \in E : e[5] = 1 =>
          [key |-> <<e[1], e[2], e[3], e[4]>>, at |-> 0 - Rank(e)] \in deletes
    BY DEF RestoreDeletes
  <2> QED BY <2>1, <2>2
<1>8. \A p \in puts : p.key \in CellKeys BY <1>5, RestoreShape
<1>9. \A k : k \in DOMAIN cells' <=>
        /\ k \in DOMAIN cells \/ \E p \in puts : p.key = k
        /\ ~ \E d \in deletes : d.key = k /\ \A p \in puts : p.key = k => p.at < d.at
  BY <1>1, CommitDomain
<1>10. \A p \in puts : Undisturbed(p.key[1])' =>
         \E e \in E : \E a, c \in Ancestors[tip] :
              /\ e[1] = p.key[1] /\ e[2] = Number[c] /\ p.at = 0 - Rank(e)
              /\ p.key[2] = Number[a] /\ p.key[3] \in DOMAIN Body[a]
              /\ SpendsIn(c, Body[a][p.key[3]], p.key[4])
              /\ Number[a] < e[2] \/ (Number[a] = e[2] /\ p.key[3] < e[3])
  <2> TAKE p \in puts
  <2> HAVE Undisturbed(p.key[1])'
  <2>1. {"misread", "orphaned"} \subseteq Upsets BY DEF Upsets
  <2>2. <<p.key[1], "misread">> \notin upset' /\ <<p.key[1], "orphaned">> \notin upset'
    BY <2>1 DEF Undisturbed
  <2>3. <<p.key[1], "orphaned">> \notin upset BY <1>1, <2>2
  <2>4. PositionOn(p.tx, tip) = [number |-> p.key[2], index |-> p.key[3]] BY <1>2, <2>2
  <2> QED BY <1>5, <2>3, <2>4, RestoredIsSpent
<1> HIDE DEF puts, deletes
<1>11. \A s : Undisturbed(s)' => Undisturbed(s) BY <1>1 DEF Undisturbed
<1>12. \A e \in DOMAIN history : e \in HistoryKeys BY DEF IndexInv, KeysTyped
<1>13. \A k \in CellKeys : k = <<k[1], k[2], k[3], k[4]>>
  BY DEF CellKeys
<1>14. \A k \in DOMAIN cells : k \in CellKeys BY DEF IndexInv, KeysTyped
<1>15. CellsEntered'
  <2>1. ASSUME NEW k \in DOMAIN cells', Undisturbed(k[1])'
        PROVE  EntryOf(k) \in DOMAIN history'
    <3> DEFINE o == EntryOf(k)
    <3>1. o \in DOMAIN history
      <4>1. CASE k \in DOMAIN cells BY <1>11, <2>1, <4>1 DEF CellsInv, CellsEntered
      <4>2. CASE \E p \in puts : p.key = k
        <5>1. PICK p \in puts : p.key = k BY <4>2
        <5>2. "revived" \in Upsets BY DEF Upsets
        <5>3. <<k[1], "revived">> \notin upset' BY <2>1, <5>2 DEF Undisturbed
        <5> QED BY <1>3, <5>1, <5>3
      <4> QED BY <1>9, <4>1, <4>2
    <3>2. o[1] = k[1] /\ o[2] = k[2] /\ o[3] = k[3] /\ o[4] = k[4] /\ o[5] = 1 BY DEF EntryOf
    <3>3. k = <<k[1], k[2], k[3], k[4]>> BY <1>8, <1>9, <1>13, <1>14
    <3> HIDE DEF o
    <3>4. ASSUME o \in E PROVE FALSE
      <4> DEFINE d == [key |-> <<o[1], o[2], o[3], o[4]>>, at |-> 0 - Rank(o)]
      <4>1. d \in deletes BY <1>7, <3>2, <3>4
      <4>2. d.key = k /\ d.at = 0 - Rank(o) BY <3>2, <3>3
      <4> HIDE DEF d
      <4>3. ASSUME NEW p \in puts, p.key = k PROVE p.at < d.at
        <5>1. PICK e \in E : \E a, c \in Ancestors[tip] :
                /\ p.at = 0 - Rank(e) /\ p.key[2] = Number[a]
                /\ Number[a] < e[2] \/ (Number[a] = e[2] /\ p.key[3] < e[3])
          BY <1>10, <2>1, <4>3
        <5>2. e \in HistoryKeys /\ o \in HistoryKeys BY <1>5, <1>12, <3>1
        <5>3. o[2] < e[2] \/ (o[2] = e[2] /\ o[3] < e[3]) BY <3>2, <4>3, <5>1
        <5>4. Rank(o) < Rank(e) BY <5>2, <5>3, RankOrder
        <5>5. Rank(o) \in Nat /\ Rank(e) \in Nat BY <5>2, EntryRank
        <5>6. p.at = 0 - Rank(e) BY <5>1
        <5> QED BY <4>2, <5>4, <5>5, <5>6
      <4> QED BY <1>9, <2>1, <4>1, <4>2, <4>3
    <3>5. o \in DOMAIN history' BY <1>1, <3>1, <3>4
    <3> QED BY <3>5 DEF o
  <2> QED BY <2>1 DEF CellsEntered
<1>16. tip \in Blocks /\ DOMAIN scripts \subseteq Scripts BY DEF Typed
<1>17. /\ applied \in [Scripts -> SUBSET Blocks]
       /\ \A s \in DOMAIN scripts :
             /\ scripts[s] \in Nat
             /\ \A b \in applied[s] :
                   b \in Ancestors[tip] /\ Number[b] <= scripts[s] /\ Number[b] \in Nat
  BY <1>16, ChainAssumption DEF HistoryInv, AppliedOnChain
<1>18. ASSUME NEW s \in DOMAIN scripts, NEW b \in applied'[s]
       PROVE  b \in applied[s] /\ Number[b] < to /\ Number[b] \in Nat /\ b \in Ancestors[tip] /\ b \in Blocks
  <2>1. b \in applied[s] BY <1>1, <1>16
  <2>2. Number[b] <= scripts[s] /\ Number[b] \in Nat /\ scripts[s] \in Nat /\ b \in Ancestors[tip]
    BY <1>17, <2>1
  <2>3. b \in Blocks BY <1>16, <1>17, <2>1
  <2>4. CASE s \in S BY <1>1, <1>16, <2>1, <2>2, <2>3, <2>4
  <2>5. CASE s \notin S
    <3>1. ~ (scripts[s] >= to) BY <1>6, <2>5
    <3> QED BY <2>1, <2>2, <2>3, <3>1
  <2> QED BY <2>4, <2>5
<1>19. \A s, a, p : CellKey(s, a, p)' = CellKey(s, a, p) /\ OutputsIn(a, s)' = OutputsIn(a, s)
  BY DEF CellKey, OutputsIn
<1>20. \A a, u, o : SpendsIn(a, u, o)' <=> SpendsIn(a, u, o) BY DEF SpendsIn
<1>21. SpentAreGone'
  <2>1. ASSUME NEW s \in DOMAIN scripts, Undisturbed(s)', NEW b \in applied'[s],
               NEW c \in applied'[s], NEW p \in OutputsIn(b, s),
               SpendsIn(c, Body[b][p[1]], p[2])
        PROVE  CellKey(s, b, p) \notin DOMAIN cells'
    <3> DEFINE k == CellKey(s, b, p)
    <3>1. k[1] = s /\ k[2] = Number[b] /\ k[3] = p[1] /\ k[4] = p[2] BY DEF CellKey
    <3>2. /\ b \in applied[s] /\ b \in Ancestors[tip] /\ c \in applied[s] /\ c \in Ancestors[tip]
          /\ Number[c] < to /\ Number[c] \in Nat
      BY <1>18
    <3>3. k \notin DOMAIN cells BY <1>11, <2>1, <3>2 DEF CellsInv, SpentAreGone
    <3> HIDE DEF k
    <3>4. ASSUME NEW q \in puts, q.key = k PROVE FALSE
      <4>1. PICK e \in E : \E a, d \in Ancestors[tip] :
              /\ e[2] = Number[d] /\ k[2] = Number[a] /\ SpendsIn(d, Body[a][k[3]], k[4])
        BY <1>10, <2>1, <3>1, <3>4
      <4>2. PICK a \in Ancestors[tip], d \in Ancestors[tip] :
              /\ e[2] = Number[d] /\ k[2] = Number[a] /\ SpendsIn(d, Body[a][k[3]], k[4])
        BY <4>1
      <4>3. a = b BY <1>16, <3>1, <3>2, <4>2, SameNumber
      <4>4. SpendsIn(d, Body[b][p[1]], p[2]) BY <3>1, <4>2, <4>3
      <4>5. d = c BY <1>16, <2>1, <3>2, <4>4, OneSpender
      <4>6. Number[c] >= to BY <1>4, <1>5, <4>2, <4>5
      <4> QED BY <3>2, <4>6
    <3> QED BY <1>9, <3>3, <3>4 DEF k
  <2> QED BY <1>1, <1>19, <1>20, <2>1 DEF SpentAreGone
<1>22. UnspentAreKept'
  <2>1. ASSUME NEW s \in DOMAIN scripts, Undisturbed(s)', NEW b \in applied'[s],
               NEW p \in OutputsIn(b, s),
               \A c \in applied'[s] : ~SpendsIn(c, Body[b][p[1]], p[2])
        PROVE  CellKey(s, b, p) \in DOMAIN cells'
    <3> DEFINE k == CellKey(s, b, p)
               t == Body[b][p[1]]
    <3>1. k[2] = Number[b] BY DEF CellKey
    <3>2. /\ b \in applied[s] /\ Number[b] < to /\ Number[b] \in Nat
          /\ b \in Ancestors[tip] /\ b \in Blocks
      BY <1>18
    <3>3. p[1] \in DOMAIN Body[b] BY DEF OutputsIn
    <3>4. ASSUME NEW d \in deletes, d.key = k PROVE FALSE
      <4>1. PICK e \in E : d.key = <<e[1], e[2], e[3], e[4]>> BY <1>7
      <4>2. e[2] = Number[b] BY <3>1, <3>4, <4>1
      <4>3. e[2] >= to BY <1>4, <1>5
      <4> QED BY <3>2, <4>2, <4>3
    <3>5. CASE \A c \in applied[s] : ~SpendsIn(c, t, p[2])
      <4>1. k \in DOMAIN cells BY <1>11, <2>1, <3>2, <3>5 DEF CellsInv, UnspentAreKept
      <4> QED BY <1>9, <3>4, <4>1
    <3>6. CASE \E c \in applied[s] : SpendsIn(c, t, p[2])
      <4>1. PICK c \in applied[s] : SpendsIn(c, t, p[2]) BY <3>6
      <4>2. c \in Ancestors[tip] /\ c \in Blocks /\ Number[c] \in Nat BY <1>16, <1>17, ChainAssumption
      <4>3. s \in S /\ Number[c] >= to
        <5>1. c \notin applied'[s] BY <2>1, <4>1
        <5>2. s \in S /\ ~ (Number[c] < to) BY <1>1, <1>16, <5>1
        <5> QED BY <4>2, <5>2
      <4>4. PICK q \in InputsIn(c, s) :
              /\ q[1] \in DOMAIN Body[c] /\ q[2] \in DOMAIN Inputs[Body[c][q[1]]]
              /\ Inputs[Body[c][q[1]]][q[2]] = [tx |-> Body[b][p[1]], out |-> p[2]]
        <5>1. c \in Blocks /\ p \in OutputsIn(b, s) /\ SpendsIn(c, Body[b][p[1]], p[2])
          BY <4>1, <4>2
        <5> QED BY ONLY <5>1, SpendIsInput
      <4> DEFINE e == InEntry(s, c, q)
      <4>5. e[1] = s /\ e[2] = Number[c] /\ e[3] = q[1] /\ e[4] = q[2] /\ e[5] = 0 BY DEF InEntry
      <4>6. e \in DOMAIN history
        <5>1. "redone" \in Upsets BY DEF Upsets
        <5>2. <<s, "redone">> \notin upset BY <1>11, <2>1, <5>1 DEF Undisturbed
        <5>3. Body[b][p[1]] = Inputs[Body[c][q[1]]][q[2]].tx BY <4>4
        <5> QED BY <3>2, <3>3, <5>2, <5>3 DEF HistoryInv, InputsEntered
      <4> HIDE DEF e
      <4>7. e \in E BY <1>4, <4>3, <4>5, <4>6
      <4>8. history[e] = Body[c][q[1]]
        <5>1. "orphaned" \in Upsets BY DEF Upsets
        <5>2. <<e[1], "orphaned">> \notin upset BY <1>11, <2>1, <4>5, <5>1 DEF Undisturbed
        <5>3. PICK d \in Ancestors[tip] : InBlock(e, d) /\ history[e] = Body[d][e[3]]
          BY <4>6, <5>2 DEF HistoryInv, EntriesOnChain
        <5>4. Number[d] = Number[c] BY <4>5, <5>3 DEF InBlock
        <5>5. d = c BY <1>16, <4>2, <5>4, SameNumber
        <5> QED BY <4>5, <5>3, <5>5
      <4>9. t \in DOMAIN txs
        <5>1. /\ OutEntry(s, b, p) \in DOMAIN history
              /\ history[OutEntry(s, b, p)] = t
          BY <3>2 DEF HistoryInv, OutputsEntered
        <5> QED BY <5>1 DEF IndexInv, Indexed
      <4> DEFINE r == [key |-> <<e[1], txs[t].number, txs[t].index, p[2]>>, tx |-> t, at |-> 0 - Rank(e)]
      <4>10. r \in puts
        <5>1. Inputs[history[e]][e[4]] = [tx |-> t, out |-> p[2]] BY <4>4, <4>5, <4>8
        <5> QED BY <4>5, <4>7, <4>9, <5>1, SpentIsRestored DEF puts
      <4>11. r.key[1] = s /\ r.key[2] = txs[t].number /\ r.key[3] = txs[t].index /\ r.tx = t
        BY <4>5
      <4>12. r.key = k
        <5>1. "misread" \in Upsets BY DEF Upsets
        <5>2. <<s, "misread">> \notin upset' BY <2>1, <5>1 DEF Undisturbed
        <5>3. PositionOn(t, tip) = [number |-> txs[t].number, index |-> txs[t].index]
          <6> HIDE DEF r, t
          <6> QED BY <1>2, <4>10, <4>11, <5>2 DEF puts
        <5>4. PositionOn(t, tip) = [number |-> Number[b], index |-> p[1]]
          BY <1>16, <3>2, <3>3, PositionOnIs
        <5>5. txs[t].number = Number[b] /\ txs[t].index = p[1]
          <6>1. \A f, g : f = g => f.number = g.number /\ f.index = g.index OBVIOUS
          <6>2. [number |-> txs[t].number, index |-> txs[t].index] = [number |-> Number[b], index |-> p[1]]
            BY <5>3, <5>4
          <6> QED BY <6>1, <6>2
        <5> QED BY <4>5, <5>5 DEF CellKey
      <4> HIDE DEF r, k
      <4>13. \E x \in puts : x.key = k BY <4>10, <4>12
      <4>14. k \in DOMAIN cells' BY <1>9, <3>4, <4>13
      <4> QED BY <4>14 DEF k
    <3> QED BY <3>5, <3>6
  <2> QED BY <1>1, <1>19, <1>20, <2>1 DEF UnspentAreKept
<1> QED BY <1>15, <1>21, <1>22 DEF CellsInv

\* set_scripts: a script that is named starts from scratch; the genesis block may
\* be filtered for all.
LEMMA SetScriptsCells ==
    ASSUME Typed, IndexInv, HistoryInv, CellsInv, NEW c \in Commands, SetScripts(c)
    PROVE  CellsInv'
<1> DEFINE new == NewScripts(c)
           genesis == c.command # "delete" /\ \E s \in DOMAIN c.scripts : c.scripts[s] = 0
<1>1. /\ scripts' = new
      /\ IF genesis THEN FilterBlock(Genesis, new)
                    ELSE UNCHANGED <<cells, history, txs, byNumber, headers>>
      /\ applied' = [s \in Scripts |->
              (IF s \in DOMAIN c.scripts \/ s \notin DOMAIN new THEN {} ELSE applied[s])
              \cup (IF genesis /\ s \in DOMAIN new THEN {Genesis} ELSE {})]
      /\ upset \subseteq upset'
      /\ \A s \in Misread(Genesis, DOMAIN new) : genesis => <<s, "misread">> \in upset'
      /\ \A s \in DOMAIN new \ DOMAIN c.scripts :
            genesis /\ applied[s] # {} => <<s, "redone">> \in upset'
  BY DEF SetScripts
<1>2. DOMAIN new \subseteq Scripts BY NewScriptsTyped
<1>3. \A s \in DOMAIN new : s \notin DOMAIN c.scripts => s \in DOMAIN scripts BY NewScriptsAre
<1> HIDE DEF new, genesis
<1>4. CASE ~genesis
  <2>1. cells' = cells /\ history' = history BY <1>1, <1>4
  <2>2. ASSUME NEW s \in DOMAIN scripts'
        PROVE  \/ applied'[s] = {}
               \/ s \in DOMAIN scripts /\ applied'[s] = applied[s]
    BY <1>1, <1>2, <1>3, <1>4
  <2> QED BY <1>1, <2>1, <2>2, SameCells
<1>5. CASE genesis
  <2>1. Genesis \in Ancestors[tip] BY ChainAssumption DEF Typed
  <2>2. ASSUME NEW s \in DOMAIN new, Undisturbed(s)'
        PROVE  \E A \in SUBSET applied[s] :
                 /\ applied'[s] = A \cup {Genesis}
                 /\ A # {} => s \in DOMAIN scripts /\ A = applied[s]
                 /\ \/ OutputsIn(Genesis, s) = {} /\ InputsIn(Genesis, s) = {}
                    \/ \A d \in A : Number[d] < Number[Genesis]
    <3>1. "redone" \in Upsets BY DEF Upsets
    <3>2. <<s, "redone">> \notin upset' BY <2>2, <3>1 DEF Undisturbed
    <3>3. s \notin DOMAIN c.scripts => applied[s] = {} BY <1>1, <1>5, <3>2
    <3>4. applied'[s] = {} \cup {Genesis} BY <1>1, <1>2, <1>5, <3>3
    <3>5. {} \in SUBSET applied[s] OBVIOUS
    <3> QED BY <3>4, <3>5
  <2>3. FilterBlock(Genesis, new) BY <1>1, <1>5
  <2>4. \A s \in Misread(Genesis, DOMAIN new) : <<s, "misread">> \in upset' BY <1>1, <1>5
  <2> QED BY <1>1, <1>2, <2>1, <2>2, <2>3, <2>4, FilterCellsStep
<1> QED BY <1>4, <1>5

\* The next block is filtered, or has nothing of the scripts it is due for.
LEMMA FilterNextCells ==
    ASSUME Typed, IndexInv, HistoryInv, CellsInv, FilterNext
    PROVE  CellsInv'
<1>1. PICK b \in Ancestors[tip] :
        LET due == {s \in DOMAIN scripts : scripts[s] < Number[b]}
        IN  /\ DOMAIN scripts' = DOMAIN scripts
            /\ IF FilterHas(b, due)
               THEN /\ FilterBlock(b, scripts)
                    /\ upset' = upset
                          \cup {<<s, "misread">> : s \in Misread(b, DOMAIN scripts)}
                          \cup {<<s, "redone">> : s \in {s \in DOMAIN scripts \ due :
                                   /\ FilterHas(b, {s})
                                   /\ \E c \in applied[s] : Number[c] >= Number[b]}}
               ELSE cells' = cells /\ history' = history /\ upset' = upset
            /\ applied' = [s \in Scripts |->
                  IF s \in due \/ (FilterHas(b, due) /\ s \in DOMAIN scripts)
                  THEN applied[s] \cup {b} ELSE applied[s]]
  BY DEF FilterNext
<1> DEFINE due == {s \in DOMAIN scripts : scripts[s] < Number[b]}
           has == FilterHas(b, due)
<1>2. /\ DOMAIN scripts' = DOMAIN scripts
      /\ upset \subseteq upset'
      /\ has => FilterBlock(b, scripts)
      /\ has => \A s \in Misread(b, DOMAIN scripts) : <<s, "misread">> \in upset'
      /\ ~has => cells' = cells /\ history' = history
      /\ applied' = [s \in Scripts |->
            IF s \in due \/ (has /\ s \in DOMAIN scripts) THEN applied[s] \cup {b} ELSE applied[s]]
  BY <1>1
<1>3. ASSUME has, NEW s \in DOMAIN scripts \ due, FilterHas(b, {s}),
             NEW c \in applied[s], Number[c] >= Number[b]
      PROVE  <<s, "redone">> \in upset'
  BY <1>1, <1>3
<1>4. due \subseteq DOMAIN scripts /\ \A s \in due : scripts[s] < Number[b] OBVIOUS
<1> HIDE DEF due, has
<1>5. /\ tip \in Blocks /\ b \in Blocks /\ Number[b] \in Nat /\ DOMAIN scripts \subseteq Scripts
  BY ChainAssumption DEF Typed
<1>6. \A s \in DOMAIN scripts : scripts[s] \in Nat /\
        \A c \in applied[s] : Number[c] <= scripts[s] /\ Number[c] \in Nat
  BY <1>5, ChainAssumption DEF HistoryInv, AppliedOnChain
<1>7. CASE ~has
  <2>1. ASSUME NEW s \in due PROVE OutputsIn(b, s) = {} /\ InputsIn(b, s) = {}
    BY <1>7, <2>1, FilterHasScript DEF has
  <2>2. ASSUME NEW s \in DOMAIN scripts
        PROVE  /\ applied[s] \subseteq applied'[s]
               /\ \A a \in applied'[s] :
                     \/ a \in applied[s]
                     \/ a \in Blocks /\ OutputsIn(a, s) = {} /\ InputsIn(a, s) = {}
    <3>1. CASE s \in due BY <1>2, <1>5, <2>1, <3>1
    <3>2. CASE s \notin due BY <1>2, <1>5, <1>7, <3>2
    <3> QED BY <3>1, <3>2
  <2>3. cells' = cells /\ history' = history BY <1>2, <1>7
  <2> QED BY <1>2, <2>2, <2>3, SameCells
<1>8. CASE has
  <2>1. ASSUME NEW s \in DOMAIN scripts, Undisturbed(s)'
        PROVE  \E A \in SUBSET applied[s] :
                 /\ applied'[s] = A \cup {b}
                 /\ A # {} => s \in DOMAIN scripts /\ A = applied[s]
                 /\ \/ OutputsIn(b, s) = {} /\ InputsIn(b, s) = {}
                    \/ \A d \in A : Number[d] < Number[b]
    <3>1. applied'[s] = applied[s] \cup {b} BY <1>2, <1>5, <1>8
    <3>2. CASE OutputsIn(b, s) = {} /\ InputsIn(b, s) = {} BY <3>1, <3>2
    <3>3. CASE ~ (OutputsIn(b, s) = {} /\ InputsIn(b, s) = {})
      <4>1. s \in {s} OBVIOUS
      <4>2. FilterHas(b, {s}) BY <3>3, <4>1, FilterHasScript
      <4>3. "redone" \in Upsets BY DEF Upsets
      <4>4. <<s, "redone">> \notin upset' BY <2>1, <4>3 DEF Undisturbed
      <4>5. ASSUME NEW d \in applied[s] PROVE Number[d] < Number[b]
        <5>1. Number[d] <= scripts[s] /\ Number[d] \in Nat /\ scripts[s] \in Nat BY <1>6
        <5>2. CASE s \in due
          <6>1. scripts[s] < Number[b] BY <1>4, <5>2
          <6> QED BY <1>5, <5>1, <6>1
        <5>3. CASE s \notin due
          <6>1. ~ (Number[d] >= Number[b]) BY <1>3, <1>8, <4>2, <4>4, <5>3
          <6> QED BY <1>5, <5>1, <6>1
        <5> QED BY <5>2, <5>3
      <4> QED BY <3>1, <4>5
    <3> QED BY <3>2, <3>3
  <2>2. /\ FilterBlock(b, scripts)
        /\ \A s \in Misread(b, DOMAIN scripts) : <<s, "misread">> \in upset'
    BY <1>2, <1>8
  <2> QED BY <1>2, <1>5, <2>1, <2>2, FilterCellsStep
<1> QED BY <1>7, <1>8

\* Nothing is in the index at the start.
LEMMA CellsInit == Init => CellsInv
<1> SUFFICES ASSUME Init PROVE CellsInv OBVIOUS
<1>1. DOMAIN scripts = {} /\ DOMAIN cells = {} BY DEF Init, EmptyMap
<1> QED BY <1>1 DEF CellsInv, CellsEntered, SpentAreGone, UnspentAreKept

\* Every step keeps the cells of the filtered blocks.
LEMMA CellsStep == Typed /\ IndexInv /\ HistoryInv /\ CellsInv /\ [Next]_vars => CellsInv'
<1> SUFFICES ASSUME Typed, IndexInv, HistoryInv, CellsInv, [Next]_vars PROVE CellsInv' OBVIOUS
<1>1. ASSUME NEW c \in Commands, SetScripts(c) PROVE CellsInv' BY <1>1, SetScriptsCells
<1>2. ASSUME FilterNext PROVE CellsInv' BY <1>2, FilterNextCells
<1>3. ASSUME UNCHANGED <<cells, scripts, history, applied, upset>> PROVE CellsInv'
  BY <1>3, SameCells
<1>4. ASSUME NEW h \in Heads, MoveTip(h) PROVE CellsInv'
  <2>1. h \in Blocks /\ tip \in Blocks BY CellsAssumption DEF Typed
  <2>2. CASE tip \in Ancestors[h]
    BY <1>3, <1>4, <2>2 DEF MoveTip, dbVars, ghostVars
  <2>3. CASE tip \notin Ancestors[h]
    <3> DEFINE fork == MaxOf({Number[a] : a \in Ancestors[h] \cap Ancestors[tip]})
    <3>1. RollbackToBlock(fork + 1) BY <1>4, <2>3 DEF MoveTip
    <3>2. fork \in Nat BY <2>1, ForkIsCommon
    <3> HIDE DEF fork
    <3>3. fork + 1 \in Nat BY <3>2
    <3> QED BY <3>1, <3>3, RollbackCells
  <2> QED BY <2>2, <2>3
<1>5. ASSUME NEW t \in Transactions, FetchTransaction(t) PROVE CellsInv'
  BY <1>3, <1>5 DEF FetchTransaction, dbVars, ghostVars
<1>6. ASSUME NEW a \in asked, TransactionAnswered(a) PROVE CellsInv'
  BY <1>3, <1>6 DEF TransactionAnswered, dbVars, ghostVars
<1>7. ASSUME NEW b \in Headers, FetchHeader(b) PROVE CellsInv'
  BY <1>3, <1>7 DEF FetchHeader, dbVars, ghostVars
<1>8. ASSUME NEW a \in askedHeaders, HeaderAnswered(a) PROVE CellsInv'
  BY <1>3, <1>8 DEF HeaderAnswered, ghostVars
<1>9. ASSUME NEW s \in Scripts, NEW order \in {"asc", "desc"}, ScanStart(s, order)
      PROVE  CellsInv'
  BY <1>3, <1>9 DEF ScanStart, dbVars, ghostVars
<1>10. ASSUME ScanPage PROVE CellsInv'
  <2>1. UNCHANGED <<dbVars, ghostVars>> BY <1>10 DEF ScanPage
  <2> QED BY <1>3, <2>1 DEF dbVars, ghostVars
<1>11. ASSUME UNCHANGED vars PROVE CellsInv'
  BY <1>3, <1>11 DEF vars, dbVars, ghostVars
<1> QED
  BY <1>1, <1>2, <1>4, <1>5, <1>6, <1>7, <1>8, <1>9, <1>10, <1>11 DEF Next

\* The invariant gives the property: a cell has its entry, and the entry is of
\* the filtered block with its number.
LEMMA CellsInvSuffices == Typed /\ IndexInv /\ HistoryInv /\ CellsInv => CellsAreReplay
<1> SUFFICES ASSUME Typed, IndexInv, HistoryInv, CellsInv,
                    NEW s \in DOMAIN scripts, \A u \in Upsets : <<s, u>> \notin upset,
                    NEW b \in applied[s]
             PROVE  {k \in CellsOf(s) : k[2] = Number[b]}
                      = {<<s, Number[b], p[1], p[2]>> : p \in {p \in OutputsIn(b, s) :
                            \A c \in applied[s] : ~SpendsIn(c, Body[b][p[1]], p[2])}}
  BY DEF CellsAreReplay
<1>1. Undisturbed(s) BY DEF Undisturbed
<1>2. tip \in Blocks /\ b \in Ancestors[tip] BY DEF Typed, HistoryInv, AppliedOnChain
<1>3. ASSUME NEW k \in CellsOf(s), k[2] = Number[b]
      PROVE  \E p \in OutputsIn(b, s) : /\ \A c \in applied[s] : ~SpendsIn(c, Body[b][p[1]], p[2])
                                        /\ k = <<s, Number[b], p[1], p[2]>>
  <2>1. k \in DOMAIN cells /\ k[1] = s BY DEF CellsOf
  <2>2. k = <<k[1], k[2], k[3], k[4]>> BY <2>1 DEF IndexInv, KeysTyped, CellKeys
  <2> DEFINE e == EntryOf(k)
             p == <<k[3], k[4]>>
  <2>3. e[1] = s /\ e[2] = k[2] /\ e[3] = k[3] /\ e[4] = k[4] /\ e[5] = 1 BY <2>1 DEF EntryOf
  <2>4. e \in DOMAIN history BY <1>1, <2>1 DEF CellsInv, CellsEntered
  <2> HIDE DEF e
  <2>5. "orphaned" \in Upsets BY DEF Upsets
  <2>6. PICK a \in Ancestors[tip] : InBlock(e, a) BY <2>3, <2>4, <2>5 DEF HistoryInv, EntriesOnChain
  <2>7. Number[a] = Number[b] /\ <<e[3], e[4]>> \in OutputsIn(a, e[1]) BY <1>3, <2>3, <2>6 DEF InBlock
  <2>8. a = b BY <1>2, <2>7, SameNumber
  <2>9. p \in OutputsIn(b, s) /\ p[1] = k[3] /\ p[2] = k[4] BY <2>3, <2>7, <2>8
  <2> HIDE DEF p
  <2>10. k = <<s, Number[b], p[1], p[2]>> BY <1>3, <2>1, <2>2, <2>9
  <2>11. \A c \in applied[s] : ~SpendsIn(c, Body[b][p[1]], p[2])
    BY <1>1, <2>1, <2>9, <2>10 DEF CellsInv, SpentAreGone, CellKey
  <2> QED BY <2>9, <2>10, <2>11
<1>4. ASSUME NEW p \in OutputsIn(b, s), \A c \in applied[s] : ~SpendsIn(c, Body[b][p[1]], p[2])
      PROVE  /\ <<s, Number[b], p[1], p[2]>> \in CellsOf(s)
             /\ <<s, Number[b], p[1], p[2]>>[2] = Number[b]
  <2>1. CellKey(s, b, p) \in DOMAIN cells BY <1>1, <1>4 DEF CellsInv, UnspentAreKept
  <2> QED BY <2>1 DEF CellKey, CellsOf
<1> QED BY <1>3, <1>4

\* The cells that get_cells reads are the unspent outputs of the filtered blocks
\* of each registered script, across filter_block, rollback_to_block, set_scripts
\* and fetched transactions in any order, as long as none of the four things of
\* Upsets has happened to the script.
THEOREM CellsCorrect == Spec => []CellsAreReplay
<1> DEFINE Inv == Typed /\ IndexInv /\ HistoryInv /\ CellsInv
<1>1. Init => Inv BY IndexInit, HistoryInit, CellsInit
<1>2. Inv /\ [Next]_vars => Inv' BY IndexStep, HistoryStep, CellsStep
<1>3. Inv => CellsAreReplay BY CellsInvSuffices
<1> QED BY <1>1, <1>2, <1>3, PTL DEF Spec
=============================================================================
