-------------------------- MODULE PeerStateProofs --------------------------
(***************************************************************************)
(* Theorems about PeerState, for every block tree, any peers and any order  *)
(* of messages, refreshes and losses: no transition of the machine fails,   *)
(* and the prove state of a connected peer only moves to heavier chains.    *)
(* On trees whose heads are longer than the window, and not lower when they *)
(* are heavier, the stored headers are the window below the stored tip      *)
(* (HeadersAreContinuous).                                                  *)
(***************************************************************************)
EXTENDS PeerState, ChainProofs, SequenceTheorems

-----------------------------------------------------------------------------
(* The invariant of one peer.                                                *)

\* What is proved or requested of a peer was once its last state, and the last
\* states of a full node grow heavier.
OrderOK(s) ==
    /\ s.prove # NoProve =>
          s.prove.last = s.last \/ TotalDifficulty[s.prove.last] < TotalDifficulty[s.last]
    /\ s.request # NoRequest =>
          /\ s.request.last = s.last \/ TotalDifficulty[s.request.last] < TotalDifficulty[s.last]
          /\ Number[s.request.start] < Number[s.request.last]

GoodState(s) == s \in PeerStates /\ FitsName(s) /\ OrderOK(s)

\* The prove state is not lost, and moves to no lighter chain.
Advances(s, t) ==
    s.prove # NoProve => /\ t.prove # NoProve
                         /\ TotalDifficulty[s.prove.last] <= TotalDifficulty[t.prove.last]

\* The states that a proof may be asked for and received in.
Provable == {"OnlyHasLastState", "RequestFirstLastStateProof", "Ready", "RequestNewLastStateProof"}

LEMMA NoBlockLemma ==
    /\ \A r \in Requests : r # NoRequest /\ r.last \in Blocks /\ r.start \in Blocks
    /\ \A v \in ProveStates : v # NoProve /\ v.last \in Blocks
    /\ NoProve.last = NoBlock /\ NoRequest.last = NoBlock /\ NoRequest.open = FALSE
    /\ NoBlock \notin Blocks
BY PeerStateAssumption DEF Requests, ProveStates, NoProve, NoRequest, ProveRequest

LEMMA StateLemma ==
    ASSUME NEW s \in PeerStates
    PROVE  /\ s.name \in Names /\ s.last \in Blocks \cup {NoBlock}
           /\ s.prove \in ProveStates \cup {NoProve}
           /\ s.request \in Requests \cup {NoRequest}
           /\ s = [name |-> s.name, last |-> s.last, prove |-> s.prove, request |-> s.request]
BY DEF PeerStates

\* A state with these parts.
State(n, b, v, r) == [name |-> n, last |-> b, prove |-> v, request |-> r]

LEMMA MakeState ==
    ASSUME NEW n \in Names, NEW b \in Blocks \cup {NoBlock}, NEW v \in ProveStates \cup {NoProve},
           NEW r \in Requests \cup {NoRequest}
    PROVE  State(n, b, v, r) \in PeerStates
BY DEF State, PeerStates

LEMMA StateFields ==
    ASSUME NEW n, NEW b, NEW v, NEW r
    PROVE  /\ State(n, b, v, r).name = n /\ State(n, b, v, r).last = b
           /\ State(n, b, v, r).prove = v /\ State(n, b, v, r).request = r
BY DEF State

LEMMA ExceptName ==
    ASSUME NEW s, NEW n, NEW b, NEW v, NEW r, s = State(n, b, v, r), NEW x
    PROVE  [s EXCEPT !.name = x] = State(x, b, v, r)
BY DEF State

LEMMA ExceptLast ==
    ASSUME NEW s, NEW n, NEW b, NEW v, NEW r, s = State(n, b, v, r), NEW x
    PROVE  [s EXCEPT !.last = x] = State(n, x, v, r)
BY DEF State

LEMMA ExceptRequest ==
    ASSUME NEW s, NEW n, NEW b, NEW v, NEW r, s = State(n, b, v, r), NEW x
    PROVE  [s EXCEPT !.request = x] = State(n, b, v, x)
BY DEF State

WithProof(s, v, r) == [s EXCEPT !.prove = v, !.request = r]

LEMMA ExceptProve ==
    ASSUME NEW s, NEW n, NEW b, NEW v, NEW r, s = State(n, b, v, r), NEW x, NEW y
    PROVE  WithProof(s, x, y) = State(n, b, x, y)
<1> DEFINE u == [s EXCEPT !.prove = x]
<1>1. WithProof(s, x, y) = [u EXCEPT !.request = y]
  BY DEF WithProof
<1>2. u = State(n, b, x, r)
  BY DEF State
<1> HIDE DEF u
<1>3. [u EXCEPT !.request = y] = State(n, b, x, y)
  BY <1>2, ExceptRequest
<1> QED
  BY <1>1, <1>3, Zenon

\* A transition that has a case for the state only changes its name.
LEMMA TransitionLemma ==
    ASSUME NEW s \in PeerStates, NEW table, s.name \in DOMAIN table, table[s.name] # "Initialized"
    PROVE  /\ Transition(table, s) = State(table[s.name], s.last, s.prove, s.request)
           /\ Transition(table, s) # Initialized
<1>1. s = State(s.name, s.last, s.prove, s.request)
  BY StateLemma DEF State
<1>2. Transition(table, s) = [s EXCEPT !.name = table[s.name]]
  BY DEF Transition
<1>3. Transition(table, s) = State(table[s.name], s.last, s.prove, s.request)
  BY <1>1, <1>2, ExceptName
<1>4. Initialized.name = "Initialized"
  BY DEF Initialized, Absent
<1> QED
  BY <1>3, <1>4, StateFields

LEMMA ReceiveLastStateLemma ==
    ASSUME NEW s \in PeerStates, s.name # "Absent", NEW b
    PROVE  ReceiveLastState(s, b) =
              State(IF s.name = "RequestFirstLastState" THEN "OnlyHasLastState"
                    ELSE IF s.name = "RequestNewLastState" THEN "Ready" ELSE s.name,
                    b, s.prove, s.request)
<1> DEFINE table == [RequestFirstLastState |-> "OnlyHasLastState",
                     RequestNewLastState |-> "Ready",
                     OnlyHasLastState |-> "OnlyHasLastState",
                     RequestFirstLastStateProof |-> "RequestFirstLastStateProof",
                     Ready |-> "Ready",
                     RequestNewLastStateProof |-> "RequestNewLastStateProof"]
           n == IF s.name = "RequestFirstLastState" THEN "OnlyHasLastState"
                ELSE IF s.name = "RequestNewLastState" THEN "Ready" ELSE s.name
           t == Transition(table, s)
<1>1. s.name \in Names
  BY StateLemma
<1>2. s.name \in DOMAIN table /\ table[s.name] = n /\ n # "Initialized"
  BY <1>1 DEF Names
<1>3. ReceiveLastState(s, b) = IF t = Initialized THEN t ELSE [t EXCEPT !.last = b]
  BY DEF ReceiveLastState
<1> HIDE DEF n, table
<1>4. t = State(n, s.last, s.prove, s.request) /\ t # Initialized
  BY <1>2, TransitionLemma
<1>5. ReceiveLastState(s, b) = State(n, b, s.prove, s.request)
  BY <1>3, <1>4, ExceptLast
<1> QED
  BY <1>5 DEF n

LEMMA RequestLastStateLemma ==
    ASSUME NEW s \in PeerStates, s.name \in {"OnlyHasLastState", "Ready"}
    PROVE  RequestLastState(s) =
              State(IF s.name = "Ready" THEN "RequestNewLastState" ELSE s.name,
                    s.last, s.prove, s.request)
<1> DEFINE table == [Initialized |-> "RequestFirstLastState",
                     OnlyHasLastState |-> "OnlyHasLastState",
                     Ready |-> "RequestNewLastState"]
           n == IF s.name = "Ready" THEN "RequestNewLastState" ELSE s.name
<1>2. s.name \in DOMAIN table /\ table[s.name] = n /\ n # "Initialized"
  OBVIOUS
<1>3. RequestLastState(s) = Transition(table, s)
  BY DEF RequestLastState
<1> HIDE DEF n, table
<1>4. Transition(table, s) = State(n, s.last, s.prove, s.request)
  BY <1>2, TransitionLemma
<1> QED
  BY <1>3, <1>4 DEF n

LEMMA RequestLastStateProofLemma ==
    ASSUME NEW s \in PeerStates, s.name \in Provable, NEW r
    PROVE  RequestLastStateProof(s, r) =
              State(IF s.name \in {"OnlyHasLastState", "RequestFirstLastStateProof"}
                    THEN "RequestFirstLastStateProof" ELSE "RequestNewLastStateProof",
                    s.last, s.prove, r)
<1> DEFINE table == [OnlyHasLastState |-> "RequestFirstLastStateProof",
                     Ready |-> "RequestNewLastStateProof",
                     RequestFirstLastStateProof |-> "RequestFirstLastStateProof",
                     RequestNewLastStateProof |-> "RequestNewLastStateProof"]
           n == IF s.name \in {"OnlyHasLastState", "RequestFirstLastStateProof"}
                THEN "RequestFirstLastStateProof" ELSE "RequestNewLastStateProof"
           t == Transition(table, s)
<1>2. s.name \in DOMAIN table /\ table[s.name] = n /\ n # "Initialized"
  BY DEF Provable
<1>3. RequestLastStateProof(s, r) = IF t = Initialized THEN t ELSE [t EXCEPT !.request = r]
  BY DEF RequestLastStateProof
<1> HIDE DEF n, table
<1>4. t = State(n, s.last, s.prove, s.request) /\ t # Initialized
  BY <1>2, TransitionLemma
<1>5. RequestLastStateProof(s, r) = State(n, s.last, s.prove, r)
  BY <1>3, <1>4, ExceptRequest
<1> QED
  BY <1>5 DEF n

LEMMA ReceiveLastStateProofLemma ==
    ASSUME NEW s \in PeerStates, s.name \in Provable, NEW v
    PROVE  ReceiveLastStateProof(s, v) = State("Ready", s.last, v, NoRequest)
<1> DEFINE table == [OnlyHasLastState |-> "Ready",
                     RequestFirstLastStateProof |-> "Ready",
                     Ready |-> "Ready",
                     RequestNewLastStateProof |-> "Ready"]
           t == Transition(table, s)
<1>2. s.name \in DOMAIN table /\ table[s.name] = "Ready"
  BY DEF Provable
<1>3. ReceiveLastStateProof(s, v) =
         IF t = Initialized THEN t ELSE WithProof(t, v, NoRequest)
  BY DEF ReceiveLastStateProof, WithProof
<1> HIDE DEF table
<1>4. t = State("Ready", s.last, s.prove, s.request) /\ t # Initialized
  BY <1>2, TransitionLemma
<1> HIDE DEF t
<1>5. WithProof(t, v, NoRequest) = State("Ready", s.last, v, NoRequest)
  BY <1>4, ExceptProve
<1> QED
  BY <1>3, <1>4, <1>5

-----------------------------------------------------------------------------
(* The transitions keep the invariant of a peer.                             *)

\* One last state, prove state or request after another.
NotAfter(a, b) == a = b \/ TotalDifficulty[a] < TotalDifficulty[b]

\* The invariant in terms of the parts of a state.
LEMMA GoodParts ==
    ASSUME NEW n \in Names, NEW b \in Blocks \cup {NoBlock}, NEW v \in ProveStates \cup {NoProve},
           NEW r \in Requests \cup {NoRequest},
           (b # NoBlock) <=> n \notin {"Absent", "RequestFirstLastState"},
           (v # NoProve) <=> n \in {"Ready", "RequestNewLastState", "RequestNewLastStateProof"},
           (r # NoRequest) <=> n \in {"RequestFirstLastStateProof", "RequestNewLastStateProof"},
           v # NoProve /\ r # NoRequest => TotalDifficulty[v.last] < TotalDifficulty[r.last],
           v # NoProve => NotAfter(v.last, b),
           r # NoRequest => NotAfter(r.last, b) /\ Number[r.start] < Number[r.last]
    PROVE  GoodState(State(n, b, v, r))
<1> DEFINE s == State(n, b, v, r)
<1>1. s \in PeerStates
  BY MakeState
<1>2. s.name = n /\ s.last = b /\ s.prove = v /\ s.request = r
  BY StateFields
<1> HIDE DEF s
<1>3. FitsName(s)
  BY <1>2 DEF FitsName
<1>4. OrderOK(s)
  BY <1>2 DEF OrderOK, NotAfter
<1> QED
  BY <1>1, <1>3, <1>4 DEF GoodState, s

LEMMA GoodFields ==
    ASSUME NEW s, GoodState(s)
    PROVE  /\ s \in PeerStates /\ s.name \in Names /\ s.last \in Blocks \cup {NoBlock}
           /\ s.prove \in ProveStates \cup {NoProve} /\ s.request \in Requests \cup {NoRequest}
           /\ (s.last # NoBlock) <=> s.name \notin {"Absent", "RequestFirstLastState"}
           /\ (s.prove # NoProve) <=>
                 s.name \in {"Ready", "RequestNewLastState", "RequestNewLastStateProof"}
           /\ (s.request # NoRequest) <=>
                 s.name \in {"RequestFirstLastStateProof", "RequestNewLastStateProof"}
           /\ s.prove # NoProve /\ s.request # NoRequest =>
                 TotalDifficulty[s.prove.last] < TotalDifficulty[s.request.last]
           /\ s.prove # NoProve => NotAfter(s.prove.last, s.last)
           /\ s.request # NoRequest =>
                 /\ NotAfter(s.request.last, s.last)
                 /\ Number[s.request.start] < Number[s.request.last]
<1>1. s \in PeerStates /\ FitsName(s) /\ OrderOK(s)
  BY DEF GoodState
<1>2. /\ s.name \in Names /\ s.last \in Blocks \cup {NoBlock}
      /\ s.prove \in ProveStates \cup {NoProve} /\ s.request \in Requests \cup {NoRequest}
  BY <1>1, StateLemma
<1> QED
  BY <1>1, <1>2 DEF FitsName, OrderOK, NotAfter

\* The only state named Absent is the one of a peer that is not connected.
LEMMA AbsentLemma ==
    /\ GoodState(Absent)
    /\ \A s : GoodState(s) /\ s.name = "Absent" => s = Absent
<1>1. Absent = State("Absent", NoBlock, NoProve, NoRequest)
  BY DEF Absent, State
<1>2. GoodState(State("Absent", NoBlock, NoProve, NoRequest))
  BY GoodParts DEF Names
<1>3. ASSUME NEW s, GoodState(s), s.name = "Absent"
      PROVE  s = Absent
  <2>1. s \in PeerStates /\ s.last = NoBlock /\ s.prove = NoProve /\ s.request = NoRequest
    BY <1>3, GoodFields
  <2>2. s = State(s.name, s.last, s.prove, s.request)
    BY <2>1, StateLemma DEF State
  <2> QED
    BY <1>1, <1>3, <2>1, <2>2
<1> QED
  BY <1>1, <1>2, <1>3

\* A heavier last state.
LEMMA GoodReceive ==
    ASSUME NEW s, GoodState(s), s.name # "Absent", NEW b \in Blocks,
           s.last # NoBlock => TotalDifficulty[b] > TotalDifficulty[s.last]
    PROVE  LET t == ReceiveLastState(s, b)
           IN  /\ GoodState(t) /\ t.name \in Provable
               /\ t.last = b /\ t.prove = s.prove /\ t.request = s.request
<1> DEFINE n == IF s.name = "RequestFirstLastState" THEN "OnlyHasLastState"
                ELSE IF s.name = "RequestNewLastState" THEN "Ready" ELSE s.name
           v == s.prove
           r == s.request
           l == s.last
           t == ReceiveLastState(s, b)
<1>1. t = State(n, b, v, r)
  BY GoodFields, ReceiveLastStateLemma
<1>2. /\ n \in Names /\ n \in Provable
      /\ v \in ProveStates \cup {NoProve} /\ r \in Requests \cup {NoRequest}
      /\ l \in Blocks \cup {NoBlock}
  BY GoodFields DEF Names, Provable
<1>3. b # NoBlock /\ n \notin {"Absent", "RequestFirstLastState"}
  BY <1>2, NoBlockLemma DEF Provable
<1>4. /\ (v # NoProve) <=> n \in {"Ready", "RequestNewLastState", "RequestNewLastStateProof"}
      /\ (r # NoRequest) <=> n \in {"RequestFirstLastStateProof", "RequestNewLastStateProof"}
      /\ v # NoProve => l # NoBlock
      /\ r # NoRequest => l # NoBlock
  BY GoodFields
<1>5. /\ v # NoProve /\ r # NoRequest => TotalDifficulty[v.last] < TotalDifficulty[r.last]
      /\ v # NoProve => NotAfter(v.last, l)
      /\ r # NoRequest => NotAfter(r.last, l) /\ Number[r.start] < Number[r.last]
  BY GoodFields
<1> HIDE DEF n, v, r, t
<1>6. v # NoProve => v.last \in Blocks
  BY <1>2, NoBlockLemma
<1>7. r # NoRequest => r.last \in Blocks
  BY <1>2, NoBlockLemma
<1>8. ASSUME NEW a \in Blocks, NotAfter(a, l), l # NoBlock PROVE NotAfter(a, b)
  <2>1. TotalDifficulty \in [Blocks -> Nat]
    BY ChainAssumption
  <2>2. l \in Blocks /\ TotalDifficulty[b] > TotalDifficulty[l]
    BY <1>2, <1>8
  <2> QED
    BY <1>8, <2>1, <2>2 DEF NotAfter
<1>9. v # NoProve => NotAfter(v.last, b)
  BY <1>4, <1>5, <1>6, <1>8
<1>10. r # NoRequest => NotAfter(r.last, b)
  BY <1>4, <1>5, <1>7, <1>8
<1>11. GoodState(t)
  BY <1>1, <1>2, <1>3, <1>4, <1>5, <1>9, <1>10, GoodParts
<1>12. t.name = n /\ t.last = b /\ t.prove = v /\ t.request = r
  BY <1>1, StateFields
<1> QED
  BY <1>2, <1>11, <1>12 DEF t, v, r

\* A request for the last state, or for an older one.
LEMMA GoodRequest ==
    ASSUME NEW s, GoodState(s), s.name \in Provable, NEW r \in Requests,
           NotAfter(r.last, s.last), Number[r.start] < Number[r.last],
           s.prove # NoProve => TotalDifficulty[s.prove.last] < TotalDifficulty[r.last]
    PROVE  LET t == RequestLastStateProof(s, r)
           IN  GoodState(t) /\ t.prove = s.prove
<1> DEFINE n == IF s.name \in {"OnlyHasLastState", "RequestFirstLastStateProof"}
                THEN "RequestFirstLastStateProof" ELSE "RequestNewLastStateProof"
           t == RequestLastStateProof(s, r)
<1>1. t = State(n, s.last, s.prove, r)
  BY GoodFields, RequestLastStateProofLemma
<1>2. n \in Names /\ r # NoRequest
  BY NoBlockLemma DEF Names
<1>3. /\ s.last \in Blocks \cup {NoBlock} /\ s.prove \in ProveStates \cup {NoProve}
      /\ s.prove # NoProve => NotAfter(s.prove.last, s.last)
  BY GoodFields
<1>4. /\ (s.last # NoBlock) <=> n \notin {"Absent", "RequestFirstLastState"}
      /\ (s.prove # NoProve) <=> n \in {"Ready", "RequestNewLastState", "RequestNewLastStateProof"}
      /\ (r # NoRequest) <=> n \in {"RequestFirstLastStateProof", "RequestNewLastStateProof"}
  BY <1>2, GoodFields DEF Provable
<1> HIDE DEF n, t
<1>5. GoodState(t)
  BY <1>1, <1>2, <1>3, <1>4, GoodParts
<1>6. t.prove = s.prove
  BY <1>1, StateFields
<1> QED
  BY <1>5, <1>6 DEF t

\* A proof of the last state, or of an older one.
LEMMA GoodProof ==
    ASSUME NEW s, GoodState(s), s.name \in Provable, NEW v \in ProveStates,
           NotAfter(v.last, s.last)
    PROVE  LET t == ReceiveLastStateProof(s, v)
           IN  GoodState(t) /\ t.prove = v
<1> DEFINE t == ReceiveLastStateProof(s, v)
<1>1. t = State("Ready", s.last, v, NoRequest)
  BY GoodFields, ReceiveLastStateProofLemma
<1>2. s.last \in Blocks \cup {NoBlock} /\ s.last # NoBlock /\ v # NoProve
  BY GoodFields, NoBlockLemma DEF Provable
<1> HIDE DEF t
<1>3. GoodState(t)
  BY <1>1, <1>2, GoodParts DEF Names
<1>4. t.prove = v
  BY <1>1, StateFields
<1> QED
  BY <1>3, <1>4 DEF t

-----------------------------------------------------------------------------
(* Requests.                                                                 *)

\* A request starts at the proved header, or at an older one that is stored.
LEMMA RequestStartLemma ==
    ASSUME lastN \in Seq(Blocks), NEW start \in Blocks, NEW last \in Blocks
    PROVE  RequestStart(start, last) \in Blocks /\ Number[RequestStart(start, last)] <= Number[start]
<1> DEFINE fits(h) == Number[h] < Number[start] /\ Number[last] <= Number[h] + LastN
           at == {i \in DOMAIN lastN : fits(lastN[i])}
           first(j) == fits(lastN[j]) /\ \A k \in 1 .. j - 1 : ~ fits(lastN[k])
           m == CHOOSE j \in DOMAIN lastN : first(j)
<1>1. Number[start] \in Nat /\ \A i \in DOMAIN lastN : lastN[i] \in Blocks /\ Number[lastN[i]] \in Nat
  BY ChainAssumption
<1>2. ASSUME at # {}
      PROVE  lastN[m] \in Blocks /\ Number[lastN[m]] <= Number[start]
  <2>1. at \in SUBSET Nat
    OBVIOUS
  <2>2. DOMAIN lastN = 1 .. Len(lastN) /\ Len(lastN) \in Nat
    OBVIOUS
  <2> HIDE DEF fits
  <2>3. PICK x \in at : \A y \in at : x <= y
    BY <1>2, <2>1, NatMin
  <2>4. x \in DOMAIN lastN /\ fits(lastN[x])
    OBVIOUS
  <2>5. ASSUME NEW k \in 1 .. x - 1 PROVE ~ fits(lastN[k])
    <3>1. k \in DOMAIN lastN /\ k < x
      BY ONLY <2>2, <2>4, x \in DOMAIN lastN, k \in 1 .. x - 1
    <3> QED
      BY <2>3, <3>1
  <2>6. first(x)
    BY <2>4, <2>5
  <2> HIDE DEF first
  <2>7. m \in DOMAIN lastN /\ first(m)
    BY <2>4, <2>6
  <2>8. fits(lastN[m])
    BY <2>7 DEF first
  <2>9. Number[lastN[m]] < Number[start]
    BY <2>8 DEF fits
  <2> QED
    BY <1>1, <2>7, <2>9
<1>3. RequestStart(start, last) \in {start, lastN[m]}
      /\ (at = {} => RequestStart(start, last) = start)
  BY DEF RequestStart
<1> HIDE DEF at, m
<1> QED
  BY <1>1, <1>2, <1>3

LEMMA BuildLemma ==
    ASSUME tip \in Blocks, lastN \in Seq(Blocks), NEW s, GoodState(s),
           NEW last \in Blocks, NEW skip \in BOOLEAN, NEW r \in BuildProveRequest(s, last, skip)
    PROVE  r \in Requests /\ r.last = last /\ Number[r.start] < Number[r.last]
<1> DEFINE start == IF s.prove = NoProve THEN tip ELSE s.prove.last
           first == RequestStart(start, last)
<1>1. start \in Blocks
  BY GoodFields, NoBlockLemma
<1>2. r = ProveRequest(last, first, skip, FALSE) /\ ~ (Number[start] >= Number[last])
  BY DEF BuildProveRequest
<1> HIDE DEF start
<1>3. first \in Blocks /\ Number[first] <= Number[start]
  BY <1>1, RequestStartLemma
<1> HIDE DEF first
<1>4. Number[first] \in Nat /\ Number[start] \in Nat /\ Number[last] \in Nat
  BY <1>1, <1>3, ChainAssumption
<1>5. Number[first] < Number[last]
  BY <1>2, <1>3, <1>4
<1>6. r \in Requests /\ r.last = last /\ r.start = first
  BY <1>2, <1>3 DEF ProveRequest, Requests
<1> QED
  BY <1>5, <1>6

\* get_last_state_proof: the last state is proved already, or copied, or asked for.
LEMMA GetProofLemma ==
    ASSUME tip \in Blocks, lastN \in Seq(Blocks), \A q \in Peers : GoodState(state[q]),
           NEW s, GoodState(s), s.name \in Provable, NEW t \in GetLastStateProof(s)
    PROVE  GoodState(t) /\ Advances(s, t)
<1>1. /\ s.last \in Blocks
      /\ s.prove \in ProveStates \cup {NoProve}
      /\ s.prove # NoProve => NotAfter(s.prove.last, s.last)
  BY GoodFields, NoBlockLemma DEF Provable
<1>2. s.prove # NoProve => s.prove.last \in Blocks
  BY <1>1, NoBlockLemma
<1>3. TotalDifficulty \in [Blocks -> Nat]
  BY ChainAssumption
<1>4. CASE t = s
  BY <1>2, <1>3, <1>4 DEF Advances
<1>5. ASSUME NEW q \in Peers, state[q].prove.last = s.last,
             t = ReceiveLastStateProof(s, state[q].prove)
      PROVE  GoodState(t) /\ Advances(s, t)
  <2> DEFINE v == state[q].prove
  <2>1. v \in ProveStates /\ v.last = s.last
    BY <1>1, <1>5, GoodFields, NoBlockLemma
  <2> HIDE DEF v
  <2>2. NotAfter(v.last, s.last)
    BY <2>1 DEF NotAfter
  <2>3. t = ReceiveLastStateProof(s, v)
    BY <1>5 DEF v
  <2>4. GoodState(t) /\ t.prove = v
    BY <2>1, <2>2, <2>3, GoodProof
  <2>5. v # NoProve
    BY <2>1, NoBlockLemma
  <2> QED
    BY <1>1, <1>2, <1>3, <2>1, <2>4, <2>5 DEF Advances, NotAfter
<1>6. ASSUME s.last # s.prove.last, NEW r \in BuildProveRequest(s, s.last, FALSE),
             t = RequestLastStateProof(s, r)
      PROVE  GoodState(t) /\ Advances(s, t)
  <2>1. r \in Requests /\ r.last = s.last /\ Number[r.start] < Number[r.last]
    BY <1>1, <1>6, BuildLemma
  <2>2. NotAfter(r.last, s.last)
    BY <2>1 DEF NotAfter
  <2>3. s.prove # NoProve => TotalDifficulty[s.prove.last] < TotalDifficulty[r.last]
    BY <1>1, <1>6, <2>1 DEF NotAfter
  <2>4. GoodState(t) /\ t.prove = s.prove
    BY <1>6, <2>1, <2>2, <2>3, GoodRequest
  <2> QED
    BY <1>2, <1>3, <2>4 DEF Advances
<1>7. \/ t = s
      \/ \E q \in Peers : state[q].prove.last = s.last /\ t = ReceiveLastStateProof(s, state[q].prove)
      \/ /\ s.last # s.prove.last
         /\ \E r \in BuildProveRequest(s, s.last, FALSE) : t = RequestLastStateProof(s, r)
  BY Zenon DEF GetLastStateProof
<1> QED
  BY <1>4, <1>5, <1>6, <1>7

-----------------------------------------------------------------------------
(* The headers of an answer.                                                 *)

LEMMA MaxOfPair ==
    ASSUME NEW i \in Int, NEW j \in Int
    PROVE  MaxOf({i, j}) \in {i, j} /\ i <= MaxOf({i, j}) /\ j <= MaxOf({i, j})
<1>1. \E n \in {i, j} : \A m \in {i, j} : m <= n
  <2>1. CASE i <= j BY <2>1
  <2>2. CASE j <= i BY <2>2
  <2> QED BY <2>1, <2>2
<1> QED
  BY <1>1 DEF MaxOf

LEMMA PathLemma ==
    ASSUME NEW b \in Blocks, NEW i \in Nat, NEW j \in Int, j <= Number[b]
    PROVE  Path(b, i, j) \in Seq(Blocks)
<1> DEFINE n == j - i + 1
           at(k) == CHOOSE a \in Ancestors[b] : Number[a] = i + k - 1
<1>1. Number[b] \in Nat
  BY ChainAssumption
<1>2. ASSUME NEW k \in 1 .. n PROVE at(k) \in Blocks
  <2>1. i + k - 1 \in 0 .. Number[b]
    BY <1>1
  <2>2. \E a \in Ancestors[b] : Number[a] = i + k - 1
    BY <2>1, AncestorAt
  <2>3. at(k) \in Ancestors[b]
    BY <2>2
  <2> QED
    BY <2>3, ChainAssumption
<1>3. Path(b, i, j) = [k \in 1 .. n |-> at(k)]
  BY DEF Path
<1> HIDE DEF at
<1>4. CASE n \in Nat
  BY <1>2, <1>3, <1>4
<1>5. CASE n \notin Nat
  <2>1. 1 .. n = 1 .. 0
    BY <1>5
  <2>2. Path(b, i, j) = [k \in 1 .. 0 |-> at(k)]
    BY <1>3, <2>1
  <2>3. [k \in 1 .. 0 |-> at(k)] \in Seq(Blocks)
    OBVIOUS
  <2> QED
    BY <2>2, <2>3
<1> QED
  BY <1>4, <1>5

LEMMA AnswerLemma ==
    ASSUME NEW r \in Requests, Number[r.start] < Number[r.last]
    PROVE  AnsweredReorg(r) \in Seq(Blocks) /\ AnsweredLastN(r) \in Seq(Blocks)
<1> DEFINE f == Number[r.start]
           l == Number[r.last]
           m == MaxOf({1, f - LastN})
           i == IF IsSampled(r) THEN l - LastN ELSE f
<1>1. r.last \in Blocks /\ r.start \in Blocks
  BY NoBlockLemma
<1>2. f \in Nat /\ l \in Nat /\ f < l /\ LastN \in Nat
  BY <1>1, ChainAssumption
<1>3. AnsweredReorg(r) \in {<<>>, Path(r.last, m, f - 1)}
  BY DEF AnsweredReorg
<1>4. AnsweredLastN(r) = Path(r.last, i, l - 1)
  BY DEF AnsweredLastN
<1>5. IsSampled(r) => l - f > LastN
  BY DEF IsSampled
<1> HIDE DEF f, l
<1>6. m \in Nat
  <2>1. f - LastN \in Int /\ 1 \in Int
    BY <1>2
  <2>2. m \in {1, f - LastN} /\ 1 <= m
    BY <2>1, MaxOfPair
  <2> QED
    BY <2>1, <2>2
<1>7. i \in Nat
  BY <1>2, <1>5
<1> HIDE DEF m, i
<1>8. f - 1 \in Int /\ f - 1 <= l /\ l - 1 \in Int /\ l - 1 <= l
  BY <1>2
<1>9. Path(r.last, m, f - 1) \in Seq(Blocks) /\ Path(r.last, i, l - 1) \in Seq(Blocks)
  BY <1>1, <1>6, <1>7, <1>8, PathLemma DEF l
<1>10. AnsweredReorg(r) = <<>> \/ AnsweredReorg(r) = Path(r.last, m, f - 1)
  BY <1>3
<1>11. AnsweredReorg(r) \in Seq(Blocks)
  <2>1. <<>> \in Seq(Blocks)
    OBVIOUS
  <2> QED
    BY ONLY <1>9, <1>10, <2>1, Zenon
<1> QED
  BY <1>4, <1>9, <1>11

LEMMA SuffixLemma ==
    ASSUME NEW list \in Seq(Blocks), NEW n \in Nat
    PROVE  Suffix(list, n) \in Seq(Blocks)
<1> DEFINE k == Len(list) - n + 1
           m == MaxOf({1, k})
<1>1. k \in Int /\ Len(list) \in Nat
  OBVIOUS
<1> HIDE DEF k
<1>2. m \in Int /\ 1 <= m
  <2>1. 1 \in Int /\ k \in Int
    BY <1>1
  <2>2. m \in {1, k} /\ 1 <= m
    BY ONLY <2>1, MaxOfPair, Zenon
  <2> QED
    BY <2>1, <2>2
<1> HIDE DEF m
<1>3. \A x \in m .. Len(list) : list[x] \in Blocks
  BY <1>1, <1>2
<1>4. SubSeq(list, m, Len(list)) \in Seq(Blocks)
  BY <1>1, <1>2, <1>3, SubSeqProperties
<1> QED
  BY <1>4 DEF Suffix, m, k

LEMMA NewHeadersLemma ==
    ASSUME NEW s, GoodState(s), s.request # NoRequest
    PROVE  [last |-> s.request.last, reorg |-> AnsweredReorg(s.request),
            headers |-> NewLastHeaders(s)] \in ProveStates
<1> DEFINE reorg == AnsweredReorg(s.request)
           new   == AnsweredLastN(s.request)
           old   == IF reorg = <<>> THEN s.prove.headers ELSE reorg
           fill  == Suffix(old, LastN - Len(new))
<1>1. /\ s.request \in Requests /\ s.request.last \in Blocks
      /\ Number[s.request.start] < Number[s.request.last]
  BY GoodFields, NoBlockLemma
<1>2. reorg \in Seq(Blocks) /\ new \in Seq(Blocks)
  BY <1>1, AnswerLemma
<1>3. s.prove.headers \in Seq(Blocks)
  <2>1. s.prove \in ProveStates \cup {NoProve}
    BY GoodFields
  <2>2. \A v \in ProveStates : v.headers \in Seq(Blocks)
    BY DEF ProveStates
  <2>3. NoProve.headers \in Seq(Blocks)
    BY DEF NoProve
  <2> QED
    BY <2>1, <2>2, <2>3
<1>4. old \in Seq(Blocks)
  BY <1>2, <1>3
<1>5. NewLastHeaders(s) = IF Len(new) >= LastN THEN new ELSE fill \o new
  BY DEF NewLastHeaders
<1> HIDE DEF reorg, new, old
<1>6. ASSUME ~ (Len(new) >= LastN) PROVE fill \o new \in Seq(Blocks)
  <2>1. LastN \in Nat /\ Len(new) \in Nat
    BY <1>2, ChainAssumption
  <2>2. LastN - Len(new) \in Nat
    BY <1>6, <2>1
  <2>3. fill \in Seq(Blocks)
    BY <1>4, <2>2, SuffixLemma
  <2> QED
    BY <1>2, <2>3, ConcatProperties
<1>7. NewLastHeaders(s) \in Seq(Blocks)
  BY <1>2, <1>5, <1>6
<1> QED
  BY <1>1, <1>2, <1>7 DEF ProveStates, reorg

LEMMA NewChildLemma ==
    ASSUME NEW v \in ProveStates, NEW b \in Blocks
    PROVE  NewChild(v, b) \in ProveStates /\ NewChild(v, b).last = b
<1> DEFINE kept == IF Len(v.headers) >= LastN THEN Tail(v.headers) ELSE v.headers
<1>1. v.headers \in Seq(Blocks) /\ v.reorg \in Seq(Blocks) /\ v.last \in Blocks
  BY DEF ProveStates
<1>2. LastN \in Nat \ {0}
  BY ChainAssumption
<1>3. ASSUME Len(v.headers) >= LastN PROVE Tail(v.headers) \in Seq(Blocks)
  <2>1. v.headers # <<>>
    BY <1>1, <1>2, <1>3
  <2> QED
    BY <1>1, <2>1
<1>4. kept \in Seq(Blocks)
  BY <1>1, <1>3
<1>5. NewChild(v, b) = [last |-> b, reorg |-> v.reorg, headers |-> Append(kept, v.last)]
  BY DEF NewChild
<1> HIDE DEF kept
<1>6. Append(kept, v.last) \in Seq(Blocks)
  BY <1>1, <1>4
<1> QED
  BY <1>1, <1>5, <1>6 DEF ProveStates

-----------------------------------------------------------------------------
(* The inductive invariant, and what a step does to the peers.               *)

PeersOK ==
    /\ tip \in Blocks /\ lastN \in Seq(Blocks)
    /\ state \in [Peers -> PeerStates]
    /\ \A p \in Peers : GoodState(state[p])

\* A peer that refresh_all_peers has still to ask has a last state and no request.
TodoInv == todo \subseteq Peers /\ \A p \in todo : state[p].name \in {"OnlyHasLastState", "Ready"}

Inv == PeersOK /\ TodoInv /\ aged \subseteq Peers /\ losses \in 0 .. MaxLosses

StateStep ==
    PeersOK' /\ \A p \in Peers : state'[p] = Absent \/ Advances(state[p], state'[p])

LEMMA AdvancesRefl ==
    ASSUME NEW s, GoodState(s)
    PROVE  Advances(s, s)
<1>1. s.prove # NoProve => s.prove.last \in Blocks
  BY GoodFields, NoBlockLemma
<1> QED
  BY <1>1, ChainAssumption DEF Advances

\* One peer moves to a good state that advances.
LEMMA OneMoves ==
    ASSUME PeersOK, NEW p \in Peers, NEW t, GoodState(t), t = Absent \/ Advances(state[p], t),
           state' = [state EXCEPT ![p] = t], tip' \in Blocks, lastN' \in Seq(Blocks)
    PROVE  StateStep
<1>1. t \in PeerStates
  BY GoodFields
<1>2. state \in [Peers -> PeerStates]
  BY DEF PeersOK
<1>3. state' \in [Peers -> PeerStates]
  BY <1>1, <1>2
<1>4. \A q \in Peers : state'[q] = IF q = p THEN t ELSE state[q]
  BY <1>2
<1>5. \A q \in Peers : GoodState(state[q])
  BY DEF PeersOK
<1>6. \A q \in Peers : GoodState(state'[q])
  BY <1>4, <1>5
<1>7. \A q \in Peers : state'[q] = Absent \/ Advances(state[q], state'[q])
  BY <1>4, <1>5, AdvancesRefl
<1> QED
  BY <1>3, <1>6, <1>7 DEF StateStep, PeersOK

-----------------------------------------------------------------------------
(* One lemma per handler.                                                    *)

LEMMA ConnectedLemma ==
    ASSUME PeersOK, NEW p \in Peers, Connected(p)
    PROVE  StateStep
<1> DEFINE t == RequestLastState(Initialized)
<1>1. t = State("RequestFirstLastState", NoBlock, NoProve, NoRequest)
  BY DEF RequestLastState, Transition, Initialized, Absent, State
<1>2. GoodState(State("RequestFirstLastState", NoBlock, NoProve, NoRequest))
  BY GoodParts DEF Names
<1>3. Absent.prove = NoProve
  BY DEF Absent
<1>4. /\ state[p] = Absent /\ state' = [state EXCEPT ![p] = t]
      /\ tip' = tip /\ lastN' = lastN
  BY DEF Connected
<1> HIDE DEF t
<1>5. Advances(state[p], t)
  BY <1>3, <1>4 DEF Advances
<1>6. tip' \in Blocks /\ lastN' \in Seq(Blocks)
  BY <1>4 DEF PeersOK
<1> QED
  BY <1>1, <1>2, <1>4, <1>5, <1>6, OneMoves

LEMMA DisconnectedLemma ==
    ASSUME PeersOK, NEW p \in Peers, Disconnected(p)
    PROVE  StateStep
<1>1. state' = [state EXCEPT ![p] = Absent] /\ tip' = tip /\ lastN' = lastN
  BY DEF Disconnected
<1>2. tip' \in Blocks /\ lastN' \in Seq(Blocks)
  BY <1>1 DEF PeersOK
<1> QED
  BY <1>1, <1>2, AbsentLemma, OneMoves

LEMMA RestartLemma ==
    ASSUME PeersOK, Restart
    PROVE  StateStep
<1>1. state' = [p \in Peers |-> Absent] /\ tip' = tip /\ lastN' = lastN
  BY DEF Restart
<1>2. Absent \in PeerStates /\ GoodState(Absent)
  BY AbsentLemma, GoodFields
<1> QED
  BY <1>1, <1>2 DEF PeersOK, StateStep

\* What is announced comes after the last state of a connected peer.
LEMMA AnnouncedLemma ==
    ASSUME PeersOK, NEW p \in Peers, NEW b \in Heads, MayAnnounce(p, b)
    PROVE  LET t == ReceiveLastState(state[p], b)
           IN  /\ b \in Blocks /\ GoodState(state[p])
               /\ state[p].last # NoBlock => TotalDifficulty[b] > TotalDifficulty[state[p].last]
               /\ GoodState(t) /\ t.name \in Provable
               /\ t.last = b /\ t.prove = state[p].prove /\ Advances(state[p], t)
<1> DEFINE s == state[p]
           t == ReceiveLastState(s, b)
<1>1. b \in Blocks
  BY PeerStateAssumption
<1>2. GoodState(s)
  BY DEF PeersOK
<1>3. s # Absent /\ (s.last # NoBlock => TotalDifficulty[b] > TotalDifficulty[s.last])
  BY DEF MayAnnounce
<1> HIDE DEF s
<1>4. s.name # "Absent"
  BY <1>2, <1>3, AbsentLemma
<1>5. GoodState(t) /\ t.name \in Provable /\ t.last = b /\ t.prove = s.prove
  BY <1>1, <1>2, <1>3, <1>4, GoodReceive
<1> HIDE DEF t
<1>6. Advances(s, t)
  BY <1>2, <1>5, AdvancesRefl DEF Advances
<1> QED
  BY <1>1, <1>2, <1>3, <1>5, <1>6 DEF s, t

\* Moving twice advances.
LEMMA AdvancesTrans ==
    ASSUME NEW s, NEW t, NEW u, GoodState(s), GoodState(t), GoodState(u),
           Advances(s, t), Advances(t, u)
    PROVE  Advances(s, u)
<1>1. /\ s.prove # NoProve => s.prove.last \in Blocks
      /\ t.prove # NoProve => t.prove.last \in Blocks
      /\ u.prove # NoProve => u.prove.last \in Blocks
  BY GoodFields, NoBlockLemma
<1> QED
  BY <1>1, ChainAssumption DEF Advances

\* A last state, after which a proof is asked for.
LEMMA AnnouncedAndAsked ==
    ASSUME PeersOK, NEW p \in Peers, NEW b \in Heads, MayAnnounce(p, b),
           NEW t \in GetLastStateProof(ReceiveLastState(state[p], b)),
           state' = [state EXCEPT ![p] = t], tip' = tip, lastN' = lastN
    PROVE  StateStep
<1> DEFINE s == ReceiveLastState(state[p], b)
<1>1. GoodState(state[p]) /\ GoodState(s) /\ s.name \in Provable /\ Advances(state[p], s)
  BY AnnouncedLemma
<1>2. tip \in Blocks /\ lastN \in Seq(Blocks) /\ \A q \in Peers : GoodState(state[q])
  BY DEF PeersOK
<1>3. t \in GetLastStateProof(s)
  OBVIOUS
<1> HIDE DEF s
<1>4. GoodState(t) /\ Advances(s, t)
  BY <1>1, <1>2, <1>3, GetProofLemma
<1>5. Advances(state[p], t)
  BY <1>1, <1>4, AdvancesTrans
<1>6. tip' \in Blocks /\ lastN' \in Seq(Blocks)
  BY <1>2
<1> QED
  BY <1>4, <1>5, <1>6, OneMoves

\* A last state that stays without a proof for now.
LEMMA AnnouncedOnly ==
    ASSUME PeersOK, NEW p \in Peers, NEW b \in Heads, MayAnnounce(p, b),
           state' = [state EXCEPT ![p] = ReceiveLastState(state[p], b)],
           tip' = tip, lastN' = lastN
    PROVE  StateStep
<1> DEFINE s == ReceiveLastState(state[p], b)
<1>1. GoodState(s) /\ Advances(state[p], s)
  BY AnnouncedLemma
<1>2. state' = [state EXCEPT ![p] = s] /\ tip' \in Blocks /\ lastN' \in Seq(Blocks)
  BY DEF PeersOK
<1> HIDE DEF s
<1> QED
  BY <1>1, <1>2, OneMoves

\* A child of the proved header.
LEMMA ChildLemma ==
    ASSUME PeersOK, NEW p \in Peers, NEW b \in Heads, MayAnnounce(p, b),
           state[p].prove # NoProve,
           state' = [state EXCEPT ![p] = ReceiveLastStateProof(ReceiveLastState(state[p], b),
                                            NewChild(state[p].prove, b))],
           \/ tip' = b /\ lastN' = NewChild(state[p].prove, b).headers
           \/ tip' = tip /\ lastN' = lastN
    PROVE  StateStep
<1> DEFINE o == state[p]
           s == ReceiveLastState(o, b)
           v == NewChild(o.prove, b)
           t == ReceiveLastStateProof(s, v)
<1>1. /\ b \in Blocks /\ GoodState(o)
      /\ o.last # NoBlock => TotalDifficulty[b] > TotalDifficulty[o.last]
      /\ GoodState(s) /\ s.name \in Provable /\ s.last = b
  BY AnnouncedLemma
<1>2. tip \in Blocks /\ lastN \in Seq(Blocks)
  BY DEF PeersOK
<1>3. /\ state' = [state EXCEPT ![p] = t]
      /\ \/ tip' = b /\ lastN' = v.headers
         \/ tip' = tip /\ lastN' = lastN
  OBVIOUS
<1> HIDE DEF o
<1>4. /\ o.prove # NoProve /\ o.prove \in ProveStates /\ o.prove.last \in Blocks
      /\ NotAfter(o.prove.last, o.last) /\ o.last # NoBlock /\ o.last \in Blocks
  <2>1. o.prove # NoProve
    BY DEF o
  <2> QED
    BY <1>1, <2>1, GoodFields, NoBlockLemma
<1>5. v \in ProveStates /\ v.last = b
  BY <1>1, <1>4, NewChildLemma
<1> HIDE DEF s, v
<1>6. GoodState(t) /\ t.prove = v
  BY <1>1, <1>5, GoodProof DEF NotAfter
<1> HIDE DEF t
<1>7. Advances(o, t)
  <2>1. TotalDifficulty[o.prove.last] <= TotalDifficulty[b]
    BY <1>1, <1>4, ChainAssumption DEF NotAfter
  <2>2. v # NoProve
    BY <1>5, NoBlockLemma
  <2> QED
    BY <1>5, <1>6, <2>1, <2>2 DEF Advances
<1>8. tip' \in Blocks /\ lastN' \in Seq(Blocks)
  BY <1>1, <1>2, <1>5, <1>3 DEF ProveStates
<1> QED
  BY <1>3, <1>6, <1>7, <1>8, OneMoves DEF o

LEMMA SendLastStateLemma ==
    ASSUME PeersOK, NEW p \in Peers, NEW b \in Heads, SendLastState(p, b)
    PROVE  StateStep
<1>1. MayAnnounce(p, b) /\ (SendFirstLastState(p, b) \/ SendNextLastState(p, b))
  BY DEF SendLastState
<1>2. CASE SendFirstLastState(p, b)
  BY <1>1, <1>2, AnnouncedAndAsked DEF SendFirstLastState
<1>3. CASE SendNextLastState(p, b)
  <2>1. CASE state' = [state EXCEPT ![p] = ReceiveLastState(state[p], b)] /\ UNCHANGED <<tip, lastN>>
    BY <1>1, <2>1, AnnouncedOnly
  <2>2. CASE /\ state[p].prove # NoProve
             /\ state' = [state EXCEPT ![p] = ReceiveLastStateProof(ReceiveLastState(state[p], b),
                                                 NewChild(state[p].prove, b))]
             /\ \/ tip' = b /\ lastN' = NewChild(state[p].prove, b).headers
                \/ tip' = tip /\ lastN' = lastN
    BY <1>1, <2>2, ChildLemma
  <2> QED
    BY <1>3, <2>1, <2>2, Zenon DEF SendNextLastState
<1> QED
  BY <1>1, <1>2, <1>3

LEMMA ProofWithNewStateLemma ==
    ASSUME PeersOK, NEW p \in Peers, NEW b \in Heads, ProofWithNewState(p, b)
    PROVE  StateStep
<1>1. MayAnnounce(p, b) /\ tip' = tip /\ lastN' = lastN
  BY DEF ProofWithNewState
<1>2. CASE \E t \in GetLastStateProof(ReceiveLastState(state[p], b)) : state' = [state EXCEPT ![p] = t]
  BY <1>1, <1>2, AnnouncedAndAsked
<1>3. CASE state' = [state EXCEPT ![p] = ReceiveLastState(state[p], b)]
  BY <1>1, <1>3, AnnouncedOnly
<1> QED
  BY <1>2, <1>3, Zenon DEF ProofWithNewState

\* What is known of the request that an answer belongs to.
LEMMA OpenRequest ==
    ASSUME NEW s, GoodState(s), s.request.open
    PROVE  /\ s.name \in Provable /\ s.request # NoRequest /\ s.request \in Requests
           /\ s.request.last \in Blocks /\ NotAfter(s.request.last, s.last)
           /\ Number[s.request.start] < Number[s.request.last]
           /\ s.prove # NoProve =>
                 /\ s.prove.last \in Blocks
                 /\ TotalDifficulty[s.prove.last] < TotalDifficulty[s.request.last]
<1>1. s.request # NoRequest
  BY NoBlockLemma
<1> QED
  BY <1>1, GoodFields, NoBlockLemma DEF Provable

LEMMA CommitLemma ==
    ASSUME PeersOK, NEW p \in Peers, state[p].request.open, CommitProveState(p)
    PROVE  StateStep
<1> DEFINE s == state[p]
           v == [last |-> s.request.last, reorg |-> AnsweredReorg(s.request),
                 headers |-> NewLastHeaders(s)]
           t == ReceiveLastStateProof(s, v)
<1>1. GoodState(s) /\ s.request.open
  BY DEF PeersOK
<1>2. tip \in Blocks /\ lastN \in Seq(Blocks)
  BY DEF PeersOK
<1>3. /\ state' = [state EXCEPT ![p] = t]
      /\ \/ tip' = s.request.last /\ lastN' = v.headers
         \/ tip' = tip /\ lastN' = lastN
  BY DEF CommitProveState
<1> HIDE DEF s
<1>4. /\ s.name \in Provable /\ s.request # NoRequest /\ s.request.last \in Blocks
      /\ NotAfter(s.request.last, s.last)
      /\ s.prove # NoProve =>
            /\ s.prove.last \in Blocks
            /\ TotalDifficulty[s.prove.last] < TotalDifficulty[s.request.last]
  BY <1>1, OpenRequest
<1>5. v \in ProveStates /\ v.last = s.request.last
  BY <1>1, <1>4, NewHeadersLemma
<1> HIDE DEF v
<1>6. GoodState(t) /\ t.prove = v
  BY <1>1, <1>4, <1>5, GoodProof
<1> HIDE DEF t
<1>7. v # NoProve
  BY <1>5, NoBlockLemma
<1>8. Advances(s, t)
  BY <1>4, <1>5, <1>6, <1>7, ChainAssumption DEF Advances
<1>9. tip' \in Blocks /\ lastN' \in Seq(Blocks)
  BY <1>2, <1>3, <1>4, <1>5 DEF ProveStates
<1> QED
  BY <1>3, <1>6, <1>8, <1>9, OneMoves DEF s

\* A request for the header that was requested before.
LEMMA AskAgainLemma ==
    ASSUME PeersOK, NEW p \in Peers, state[p].request.open,
           NEW r \in Requests, r.last = state[p].request.last, Number[r.start] < Number[r.last],
           state' = [state EXCEPT ![p] = RequestLastStateProof(state[p], r)],
           tip' = tip, lastN' = lastN
    PROVE  StateStep
<1> DEFINE s == state[p]
           t == RequestLastStateProof(s, r)
<1>1. GoodState(s) /\ s.request.open /\ r.last = s.request.last
  BY DEF PeersOK
<1>2. state' = [state EXCEPT ![p] = t] /\ tip' \in Blocks /\ lastN' \in Seq(Blocks)
  BY DEF PeersOK
<1> HIDE DEF s
<1>3. /\ s.name \in Provable /\ NotAfter(r.last, s.last)
      /\ s.prove # NoProve => TotalDifficulty[s.prove.last] < TotalDifficulty[r.last]
  BY <1>1, OpenRequest
<1>4. GoodState(t) /\ t.prove = s.prove
  BY <1>1, <1>3, GoodRequest
<1> HIDE DEF t
<1>5. Advances(s, t)
  BY <1>1, <1>4, AdvancesRefl DEF Advances
<1> QED
  BY <1>2, <1>4, <1>5, OneMoves DEF s

LEMMA SendLastStateProofLemma ==
    ASSUME PeersOK, NEW p \in Peers, SendLastStateProof(p)
    PROVE  StateStep
<1> DEFINE q == state[p].request
<1>1. /\ state[p].request.open
      /\ CommitProveState(p) \/ AskFromGenesis(p) \/ AskAgainWithoutTau(p)
  BY DEF SendLastStateProof
<1>2. GoodState(state[p]) /\ tip \in Blocks /\ lastN \in Seq(Blocks)
  BY DEF PeersOK
<1>3. q \in Requests /\ q.last \in Blocks /\ Number[q.start] < Number[q.last]
  BY <1>1, <1>2, OpenRequest
<1>4. q.start \in Blocks
  BY <1>3, NoBlockLemma
<1>5. CASE CommitProveState(p)
  BY <1>1, <1>5, CommitLemma
<1>6. CASE AskFromGenesis(p)
  <2> DEFINE r == ProveRequest(q.last, Genesis, FALSE, TRUE)
  <2>1. /\ state' = [state EXCEPT ![p] = RequestLastStateProof(state[p], r)]
        /\ tip' = tip /\ lastN' = lastN
    BY <1>6 DEF AskFromGenesis
  <2>2. Number[Genesis] = 0 /\ Genesis \in Blocks /\ Number[q.start] \in Nat /\ Number[q.last] \in Nat
    BY <1>3, <1>4, ChainAssumption
  <2> HIDE DEF q
  <2>3. r \in Requests /\ r.last = q.last /\ r.start = Genesis
    BY <1>3, <2>2 DEF ProveRequest, Requests
  <2> HIDE DEF r
  <2>4. Number[r.start] < Number[r.last]
    BY <1>3, <2>2, <2>3
  <2> QED
    BY <1>1, <2>1, <2>3, <2>4, AskAgainLemma DEF q
<1>7. CASE AskAgainWithoutTau(p)
  <2> DEFINE again == BuildProveRequest(state[p], q.last, TRUE)
             closed == [q EXCEPT !.open = FALSE]
  <2>1. tip' = tip /\ lastN' = lastN
    BY <1>7 DEF AskAgainWithoutTau
  <2>2. PICK r \in IF again = {} THEN {closed} ELSE again :
               state' = [state EXCEPT ![p] = RequestLastStateProof(state[p], r)]
    BY <1>7 DEF AskAgainWithoutTau
  <2>3. r = closed \/ r \in again
    BY <2>2
  <2>4. r \in Requests /\ r.last = q.last /\ Number[r.start] < Number[r.last]
    <3>1. CASE r \in again
      BY <1>2, <1>3, <3>1, BuildLemma
    <3>2. CASE r = closed
      <4> HIDE DEF q
      <4>1. closed \in Requests /\ closed.last = q.last /\ closed.start = q.start
        BY <1>3 DEF Requests
      <4> QED
        BY <1>3, <3>2, <4>1
    <3> QED
      BY <2>3, <3>1, <3>2
  <2> QED
    BY <1>1, <2>1, <2>2, <2>4, AskAgainLemma
<1> QED
  BY <1>1, <1>5, <1>6, <1>7

LEMMA RefreshProofLemma ==
    ASSUME Inv, NEW p \in Peers, RefreshProof(p)
    PROVE  StateStep /\ TodoInv'
<1>1. /\ p \in todo /\ todo' = todo \ {p} /\ tip' = tip /\ lastN' = lastN
      /\ \E t \in GetLastStateProof(state[p]) : state' = [state EXCEPT ![p] = t]
  BY DEF RefreshProof
<1>2. PICK t \in GetLastStateProof(state[p]) : state' = [state EXCEPT ![p] = t]
  BY <1>1
<1>3. /\ PeersOK /\ tip \in Blocks /\ lastN \in Seq(Blocks)
      /\ \A q \in Peers : GoodState(state[q])
  BY DEF Inv, PeersOK
<1>4. state[p].name \in Provable
  BY <1>1 DEF Inv, TodoInv, Provable
<1>5. GoodState(t) /\ Advances(state[p], t)
  BY <1>3, <1>4, GetProofLemma
<1>6. tip' \in Blocks /\ lastN' \in Seq(Blocks)
  BY <1>1, <1>3
<1>7. StateStep
  BY <1>2, <1>3, <1>5, <1>6, OneMoves
<1>8. TodoInv'
  <2>1. state \in [Peers -> PeerStates]
    BY <1>3 DEF PeersOK
  <2>2. todo \subseteq Peers /\ \A q \in todo : state[q].name \in {"OnlyHasLastState", "Ready"}
    BY DEF Inv, TodoInv
  <2>3. \A q \in todo' : q \in todo /\ state'[q] = state[q]
    BY <1>1, <1>2, <2>1, <2>2
  <2> QED
    BY <2>2, <2>3 DEF TodoInv
<1> QED
  BY <1>7, <1>8

\* A peer is only asked for its last state when it has one or has just connected.
LEMMA RefreshAllLemma ==
    ASSUME Inv, RefreshAllPeers
    PROVE  StateStep /\ TodoInv' /\ aged' \subseteq Peers
<1>1. PICK old : /\ state' = [p \in Peers |-> IF RequireNewLastState(state[p], p \in old)
                                              THEN RequestLastState(state[p]) ELSE state[p]]
                 /\ todo' = {p \in Peers : RequireNewLastStateProof(state'[p])}
                 /\ aged' = {p \in Peers : state[p].last # NoBlock}
                 /\ tip' = tip /\ lastN' = lastN
  <2>1. PICK old \in IF Jitter THEN SUBSET Peers ELSE {aged} :
          LET asked == {p \in Peers : RequireNewLastState(state[p], p \in old)}
          IN  /\ state' = [p \in Peers |->
                    IF p \in asked THEN RequestLastState(state[p]) ELSE state[p]]
              /\ todo' = {p \in Peers : RequireNewLastStateProof(state'[p])}
              /\ aged' = {p \in Peers : state[p].last # NoBlock}
              /\ UNCHANGED <<tip, lastN, losses>>
    BY Zenon DEF RefreshAllPeers
  <2> QED
    BY <2>1
<1>2. /\ tip \in Blocks /\ lastN \in Seq(Blocks)
      /\ \A q \in Peers : GoodState(state[q])
  BY DEF Inv, PeersOK
<1>3. ASSUME NEW p \in Peers
      PROVE  GoodState(state'[p]) /\ Advances(state[p], state'[p])
  <2> DEFINE s == state[p]
  <2>1. GoodState(s)
    BY <1>2
  <2>2. state'[p] = IF RequireNewLastState(s, p \in old) THEN RequestLastState(s) ELSE s
    BY <1>1
  <2> HIDE DEF s
  <2>3. CASE ~ RequireNewLastState(s, p \in old)
    BY <2>1, <2>2, <2>3, AdvancesRefl DEF s
  <2>4. CASE RequireNewLastState(s, p \in old)
    <3> DEFINE n == IF s.name = "Ready" THEN "RequestNewLastState" ELSE s.name
               t == State(n, s.last, s.prove, s.request)
    <3>1. s.name \in {"OnlyHasLastState", "Ready"}
      BY <2>1, <2>4, GoodFields DEF RequireNewLastState, Names
    <3>2. state'[p] = t
      BY <2>1, <2>2, <2>4, <3>1, GoodFields, RequestLastStateLemma
    <3>3. /\ n \in Names
          /\ (s.last # NoBlock) <=> n \notin {"Absent", "RequestFirstLastState"}
          /\ (s.prove # NoProve) <=>
                n \in {"Ready", "RequestNewLastState", "RequestNewLastStateProof"}
          /\ (s.request # NoRequest) <=>
                n \in {"RequestFirstLastStateProof", "RequestNewLastStateProof"}
      BY <2>1, <3>1, GoodFields DEF Names
    <3> HIDE DEF n
    <3>4. GoodState(t)
      BY <2>1, <3>3, GoodFields, GoodParts
    <3>5. t.prove = s.prove
      BY StateFields
    <3> HIDE DEF t
    <3>6. Advances(s, t)
      BY <2>1, <3>5, AdvancesRefl DEF Advances
    <3> QED
      BY <3>2, <3>4, <3>6 DEF s
  <2> QED
    BY <2>3, <2>4
<1>4. state' \in [Peers -> PeerStates]
  <2>1. \A p \in Peers : state'[p] \in PeerStates
    BY <1>3, GoodFields
  <2>2. state' = [p \in Peers |-> state'[p]]
    BY <1>1
  <2> QED
    BY <2>1, <2>2
<1>5. StateStep
  BY <1>1, <1>2, <1>3, <1>4 DEF StateStep, PeersOK
<1>6. TodoInv' /\ aged' \subseteq Peers
  BY <1>1 DEF TodoInv, RequireNewLastStateProof
<1> QED
  BY <1>5, <1>6

-----------------------------------------------------------------------------
(* The theorems.                                                             *)

LEMMA InitLemma == Init => Inv
<1> SUFFICES ASSUME Init PROVE Inv
  OBVIOUS
<1>1. Absent \in PeerStates /\ GoodState(Absent)
  BY AbsentLemma, GoodFields
<1>2. tip \in Blocks /\ lastN \in Seq(Blocks)
  BY ChainAssumption DEF Init
<1>3. state = [p \in Peers |-> Absent] /\ aged = {} /\ todo = {} /\ losses = MaxLosses
  BY DEF Init
<1>4. losses \in 0 .. MaxLosses
  BY <1>3, PeerStateAssumption
<1> QED
  BY <1>1, <1>2, <1>3, <1>4 DEF Inv, PeersOK, TodoInv

LEMMA NextLemma ==
    ASSUME Inv, Next
    PROVE  Inv' /\ StateStep
<1>1. PeersOK /\ TodoInv /\ aged \subseteq Peers /\ losses \in 0 .. MaxLosses
  BY DEF Inv
<1>2. StateStep /\ TodoInv' /\ aged' \subseteq Peers /\ losses' \in 0 .. MaxLosses
  <2>1. MaxLosses \in Nat
    BY PeerStateAssumption
  <2>2. ASSUME Idle, UNCHANGED todo PROVE TodoInv'
    BY <2>2 DEF Idle, TodoInv
  <2>3. ASSUME Idle, NEW p \in Peers, NEW b \in Heads, SendLastState(p, b)
        PROVE  StateStep /\ TodoInv' /\ aged' \subseteq Peers /\ losses' \in 0 .. MaxLosses
    BY <1>1, <2>2, <2>3, SendLastStateLemma DEF SendLastState
  <2>4. ASSUME Idle, NEW p \in Peers, NEW b \in Heads, ProofWithNewState(p, b)
        PROVE  StateStep /\ TodoInv' /\ aged' \subseteq Peers /\ losses' \in 0 .. MaxLosses
    BY <1>1, <2>2, <2>4, ProofWithNewStateLemma DEF ProofWithNewState
  <2>5. ASSUME Idle, NEW p \in Peers, Connected(p)
        PROVE  StateStep /\ TodoInv' /\ aged' \subseteq Peers /\ losses' \in 0 .. MaxLosses
    BY <1>1, <2>2, <2>5, ConnectedLemma DEF Connected
  <2>6. ASSUME Idle, NEW p \in Peers, Disconnected(p)
        PROVE  StateStep /\ TodoInv' /\ aged' \subseteq Peers /\ losses' \in 0 .. MaxLosses
    <3>1. StateStep
      BY <1>1, <2>6, DisconnectedLemma
    <3> QED
      BY <1>1, <2>1, <2>2, <2>6, <3>1 DEF Disconnected
  <2>7. ASSUME Idle, NEW p \in Peers, SendLastStateProof(p)
        PROVE  StateStep /\ TodoInv' /\ aged' \subseteq Peers /\ losses' \in 0 .. MaxLosses
    BY <1>1, <2>2, <2>7, SendLastStateProofLemma DEF SendLastStateProof
  <2>8. ASSUME Idle, Restart
        PROVE  StateStep /\ TodoInv' /\ aged' \subseteq Peers /\ losses' \in 0 .. MaxLosses
    <3>1. StateStep
      BY <1>1, <2>8, RestartLemma
    <3> QED
      BY <1>1, <2>1, <2>2, <2>8, <3>1 DEF Restart
  <2>9. ASSUME RefreshAllPeers
        PROVE  StateStep /\ TodoInv' /\ aged' \subseteq Peers /\ losses' \in 0 .. MaxLosses
    <3>1. losses' = losses
      BY <2>9 DEF RefreshAllPeers
    <3> QED
      BY <1>1, <2>9, <3>1, RefreshAllLemma
  <2>10. ASSUME NEW p \in Peers, RefreshProof(p)
         PROVE  StateStep /\ TodoInv' /\ aged' \subseteq Peers /\ losses' \in 0 .. MaxLosses
    BY <1>1, <2>10, RefreshProofLemma DEF RefreshProof
  <2> QED
    BY <2>3, <2>4, <2>5, <2>6, <2>7, <2>8, <2>9, <2>10 DEF Next
<1> QED
  BY <1>2 DEF Inv, StateStep

LEMMA StepLemma ==
    ASSUME Inv, [Next]_vars
    PROVE  Inv'
<1>1. CASE Next
  BY <1>1, NextLemma
<1>2. CASE UNCHANGED vars
  BY <1>2 DEF vars, Inv, PeersOK, TodoInv
<1> QED
  BY <1>1, <1>2

LEMMA InvariantHolds == Spec => []Inv
<1>1. Init => Inv
  BY InitLemma
<1>2. Inv /\ [Next]_vars => Inv'
  BY StepLemma
<1> QED
  BY <1>1, <1>2, PTL DEF Spec

LEMMA InvGivesType == Inv => TypeOK
BY DEF Inv, PeersOK, TodoInv, TypeOK, GoodState

\* Whatever comes in whatever order, no transition of PeerState fails, and what a
\* peer carries fits its name: the last state, the prove state and the request of
\* peers.rs are there exactly in the states whose variants hold them.
THEOREM PeerStateTypeCorrect == Spec => []TypeOK
BY InvariantHolds, InvGivesType, PTL

\* The prove state of a connected peer is never lost and moves to no lighter
\* chain, for every block tree and any peers: receive_last_state_proof is only
\* reached with a header that was announced after the proved one.
THEOREM ProveStatesAdvance == Spec => ProveStateAdvances
<1> DEFINE A == \A p \in Peers :
                   (state[p].prove # NoProve /\ state'[p] # Absent) =>
                       /\ state'[p].prove # NoProve
                       /\ TotalDifficulty[state[p].prove.last] <=
                              TotalDifficulty[state'[p].prove.last]
<1>1. ASSUME Inv, Next PROVE A
  <2>1. \A p \in Peers : state'[p] = Absent \/ Advances(state[p], state'[p])
    BY <1>1, NextLemma DEF StateStep
  <2> QED
    BY <2>1 DEF Advances
<1>2. Inv /\ [Next]_vars => [A]_vars
  BY <1>1
<1>3. Spec => [][Next]_vars
  BY PTL DEF Spec
<1> HIDE DEF A
<1>4. Spec => [][A]_vars
  BY <1>2, <1>3, InvariantHolds, PTL
<1> QED
  BY <1>4 DEF A, ProveStateAdvances

-----------------------------------------------------------------------------
(* Lists that end in the blocks below a block.                               *)

\* A list that ends in n blocks below b ends in fewer.
LEMMA EndsBelowLess ==
    ASSUME NEW hs, NEW b, NEW n \in Int, NEW m \in Int, m <= n, Len(hs) \in Nat, EndsBelow(hs, b, n)
    PROVE  EndsBelow(hs, b, m)
<1>1. \A k \in 1 .. m : k \in 1 .. n
  OBVIOUS
<1>2. Len(hs) >= m
  BY DEF EndsBelow
<1> QED
  BY <1>1, <1>2 DEF EndsBelow

\* The blocks i .. j of the chain of b are the blocks below the one after them.
LEMMA PathEndsBelow ==
    ASSUME NEW b \in Blocks, NEW a \in Ancestors[b], NEW i \in Nat, i <= Number[a]
    PROVE  LET hs == Path(b, i, Number[a] - 1)
           IN  hs \in Seq(Blocks) /\ Len(hs) = Number[a] - i /\ EndsBelow(hs, a, Number[a] - i)
<1> DEFINE n == Number[a] - i
           at(k) == CHOOSE c \in Ancestors[b] : Number[c] = i + k - 1
           hs == Path(b, i, Number[a] - 1)
<1>1. /\ a \in Blocks /\ Number[a] \in Nat /\ Number[b] \in Nat /\ n \in Nat
      /\ Number[a] <= Number[b]
  BY AncestorsNest, ChainAssumption
<1>2. ASSUME NEW k \in 1 .. n PROVE at(k) \in Ancestors[b] /\ Number[at(k)] = i + k - 1
  <2>1. i + k - 1 \in 0 .. Number[b]
    BY <1>1
  <2>2. \E c \in Ancestors[b] : Number[c] = i + k - 1
    BY <2>1, AncestorAt
  <2> QED
    BY <2>2
<1>3. (Number[a] - 1) - i + 1 = n
  BY <1>1
<1>4. hs = [k \in 1 .. n |-> at(k)]
  BY <1>3 DEF Path
<1>5. hs \in Seq(Blocks)
  <2>1. Number[a] - 1 \in Int /\ Number[a] - 1 <= Number[b]
    BY <1>1
  <2> QED
    BY <2>1, PathLemma
<1> HIDE DEF at
<1>6. Len(hs) = n
  BY <1>1, <1>4, <1>5
<1> HIDE DEF hs
<1>7. ASSUME NEW k \in 1 .. n
      PROVE  hs[Len(hs) + 1 - k] \in Ancestors[a] /\ Number[hs[Len(hs) + 1 - k]] = Number[a] - k
  <2>1. n + 1 - k \in 1 .. n
    BY <1>1
  <2>2. hs[n + 1 - k] = at(n + 1 - k)
    BY <1>4, <2>1
  <2>3. Number[at(n + 1 - k)] = i + (n + 1 - k) - 1 /\ at(n + 1 - k) \in Ancestors[b]
    BY <1>2, <2>1
  <2>4. Number[at(n + 1 - k)] = Number[a] - k /\ Number[a] - k <= Number[a]
    BY <1>1, <2>3
  <2>5. at(n + 1 - k) \in Ancestors[a]
    BY <2>3, <2>4, ChainOrder
  <2> QED
    BY <1>6, <2>2, <2>4, <2>5
<1>8. EndsBelow(hs, a, n)
  BY <1>1, <1>6, <1>7 DEF EndsBelow
<1> QED
  BY <1>5, <1>6, <1>8 DEF hs

\* What is put in front of a list does not change its end.
LEMMA ConcatEndsBelow ==
    ASSUME NEW old \in Seq(Blocks), NEW new \in Seq(Blocks), NEW b, NEW n \in Int,
           n <= Len(new), EndsBelow(new, b, n)
    PROVE  EndsBelow(old \o new, b, n)
<1> DEFINE hs == old \o new
<1>1. Len(old) \in Nat /\ Len(new) \in Nat
  OBVIOUS
<1>2. /\ Len(hs) = Len(old) + Len(new)
      /\ \A i \in 1 .. Len(old) + Len(new) : hs[i] = IF i <= Len(old) THEN old[i] ELSE new[i - Len(old)]
  BY ConcatProperties
<1> HIDE DEF hs
<1>3. ASSUME NEW k \in 1 .. n PROVE hs[Len(hs) + 1 - k] = new[Len(new) + 1 - k]
  <2>1. /\ Len(hs) + 1 - k \in 1 .. Len(old) + Len(new) /\ ~ (Len(hs) + 1 - k <= Len(old))
        /\ (Len(hs) + 1 - k) - Len(old) = Len(new) + 1 - k
    BY <1>1, <1>2
  <2> QED
    BY <1>2, <2>1
<1>4. Len(hs) >= n
  BY <1>1, <1>2
<1> QED
  BY <1>3, <1>4 DEF EndsBelow, hs

\* A list that ends below a block of the chain, followed by the blocks from there
\* on, is one piece of the chain.
LEMMA JoinEndsBelow ==
    ASSUME NEW old \in Seq(Blocks), NEW new \in Seq(Blocks), NEW b \in Blocks,
           NEW a \in Ancestors[b], Len(new) = Number[b] - Number[a],
           EndsBelow(new, b, Len(new)), NEW n \in Nat, EndsBelow(old, a, n)
    PROVE  EndsBelow(old \o new, b, n + Len(new))
<1> DEFINE hs == old \o new
           d == Len(new)
<1>1. Len(old) \in Nat /\ d \in Nat
  OBVIOUS
<1>2. /\ Len(hs) = Len(old) + d
      /\ \A i \in 1 .. Len(old) + d : hs[i] = IF i <= Len(old) THEN old[i] ELSE new[i - Len(old)]
  BY ConcatProperties
<1>3. a \in Blocks /\ Ancestors[a] \subseteq Ancestors[b] /\ Number[a] \in Nat /\ Number[b] \in Nat
  BY AncestorsNest, ChainAssumption
<1>4. d = Number[b] - Number[a]
  OBVIOUS
<1>5. Len(old) >= n /\ \A k \in 1 .. n :
         old[Len(old) + 1 - k] \in Ancestors[a] /\ Number[old[Len(old) + 1 - k]] = Number[a] - k
  BY DEF EndsBelow
<1>6. \A k \in 1 .. d : new[d + 1 - k] \in Ancestors[b] /\ Number[new[d + 1 - k]] = Number[b] - k
  BY DEF EndsBelow
<1> HIDE DEF hs, d
<1>7. ASSUME NEW k \in 1 .. n + d
      PROVE  hs[Len(hs) + 1 - k] \in Ancestors[b] /\ Number[hs[Len(hs) + 1 - k]] = Number[b] - k
  <2> DEFINE x == Len(hs) + 1 - k
  <2>1. x \in 1 .. Len(old) + d
    BY <1>1, <1>2, <1>5
  <2>2. CASE k <= d
    <3>1. ~ (x <= Len(old)) /\ x - Len(old) = d + 1 - k /\ k \in 1 .. d
      BY <1>1, <1>2, <2>2
    <3>2. hs[x] = new[d + 1 - k]
      BY <1>2, <2>1, <3>1
    <3> QED
      BY <1>6, <3>1, <3>2
  <2>3. CASE ~ (k <= d)
    <3>1. x <= Len(old) /\ x = Len(old) + 1 - (k - d) /\ k - d \in 1 .. n
      BY <1>1, <1>2, <2>3
    <3>2. hs[x] = old[Len(old) + 1 - (k - d)]
      BY <1>2, <2>1, <3>1
    <3>3. hs[x] \in Ancestors[a] /\ Number[hs[x]] = Number[a] - (k - d)
      BY <1>5, <3>1, <3>2
    <3>4. Number[a] - (k - d) = Number[b] - k
      BY <1>1, <1>3, <1>4, SMTT(20)
    <3> QED
      BY <1>3, <3>3, <3>4
  <2> QED
    BY <2>2, <2>3
<1>8. Len(hs) >= n + d
  BY <1>1, <1>2, <1>5
<1> QED
  BY <1>7, <1>8 DEF EndsBelow, hs, d

\* A shorter list keeps the end.
LEMMA SuffixEndsBelow ==
    ASSUME NEW hs \in Seq(Blocks), NEW m \in Nat
    PROVE  /\ Suffix(hs, m) \in Seq(Blocks) /\ Len(Suffix(hs, m)) <= m
           /\ \A b : \A n \in Int : n <= m /\ EndsBelow(hs, b, n) => EndsBelow(Suffix(hs, m), b, n)
<1> DEFINE l == Len(hs)
           x == MaxOf({1, l - m + 1})
           s == Suffix(hs, m)
<1>1. l \in Nat /\ l - m + 1 \in Int
  OBVIOUS
<1>2. x \in {1, l - m + 1} /\ 1 <= x /\ l - m + 1 <= x
  BY <1>1, MaxOfPair
<1>3. s = SubSeq(hs, x, l)
  BY DEF Suffix
<1> HIDE DEF x
<1>4. x \in Int /\ x \in Nat
  BY <1>1, <1>2
<1>5. \A i \in x .. l : hs[i] \in Blocks
  BY <1>1, <1>2, <1>4
<1> HIDE DEF l
<1>6. /\ SubSeq(hs, x, l) \in Seq(Blocks)
      /\ Len(SubSeq(hs, x, l)) = IF x <= l THEN l - x + 1 ELSE 0
      /\ \A i \in 1 .. l - x + 1 : SubSeq(hs, x, l)[i] = hs[x + i - 1]
  BY <1>1, <1>4, <1>5, SubSeqProperties
<1>7. s \in Seq(Blocks) /\ Len(s) <= m
  BY <1>1, <1>2, <1>3, <1>4, <1>6
<1>8. ASSUME NEW b, NEW n \in Int, n <= m, EndsBelow(hs, b, n) PROVE EndsBelow(s, b, n)
  <2>1. l >= n
    BY <1>8 DEF EndsBelow, l
  <2>2. CASE n <= 0
    <3>1. Len(s) \in Nat
      BY <1>7
    <3> QED
      BY <2>2, <3>1 DEF EndsBelow
  <2>3. CASE n > 0
    <3>1. x <= l /\ Len(s) = l - x + 1 /\ Len(s) >= n
      BY <1>1, <1>2, <1>3, <1>4, <1>6, <1>8, <2>1, <2>3
    <3>2. ASSUME NEW k \in 1 .. n PROVE s[Len(s) + 1 - k] = hs[l + 1 - k]
      <4>1. Len(s) + 1 - k \in 1 .. l - x + 1 /\ x + (Len(s) + 1 - k) - 1 = l + 1 - k
        BY <1>1, <1>4, <3>1
      <4> QED
        BY <1>3, <1>6, <4>1
    <3> QED
      BY <1>8, <3>1, <3>2 DEF EndsBelow, l
  <2> QED
    BY <1>8, <2>2, <2>3
<1> HIDE DEF s
<1> QED
  BY <1>7, <1>8 DEF s

-----------------------------------------------------------------------------
(* The window of headers.                                                    *)

\* The headers of a prove state, when the stored tip is t.
WindowOK(v, t) ==
    /\ v.last \in Heads /\ TotalDifficulty[v.last] <= TotalDifficulty[t]
    /\ Len(v.headers) <= LastN
    /\ EndsBelow(v.headers, v.last, LastN + Number[v.last] - Number[t])

\* A request brings a whole window, or what is left of one as far as the peer is
\* not behind the stored tip, or starts where the headers of the prove state end.
RequestOK(v, r, t) ==
    /\ r.last \in Heads
    /\ \/ r.longFork
       \/ Number[r.last] - Number[r.start] >= LastN
       \/ Number[r.last] - Number[r.start] >= LastN + Number[r.last] - Number[t]
       \/ v # NoProve /\ r.start = v.last

WindowState(s, t) ==
    /\ s.last # NoBlock => s.last \in Heads
    /\ s.prove # NoProve => WindowOK(s.prove, t)
    /\ s.request # NoRequest => RequestOK(s.prove, s.request, t)

\* The stored headers hs and the stored tip t.
StoredOK(t, hs) ==
    /\ t \in Heads \cup {Genesis}
    /\ t = Genesis => hs = <<>>
    /\ t # Genesis => Len(hs) = LastN /\ EndsBelow(hs, t, LastN)

WindowInv == StoredOK(tip, lastN) /\ \A p \in Peers : WindowState(state[p], tip)

\* The hypotheses under which the lists are right.
Regular == TallHeads /\ HeavierIsHigher

\* A stored tip that is not lighter is not lower.
LEMMA TipLemma ==
    ASSUME Regular, NEW a \in Heads \cup {Genesis}, NEW b \in Heads \cup {Genesis},
           TotalDifficulty[a] <= TotalDifficulty[b]
    PROVE  Number[a] <= Number[b]
<1>1. /\ a \in Blocks /\ b \in Blocks /\ Number[a] \in Nat /\ Number[b] \in Nat
      /\ TotalDifficulty[a] \in Nat /\ TotalDifficulty[b] \in Nat
  BY ChainAssumption, PeerStateAssumption
<1>2. CASE a = Genesis
  BY <1>1, <1>2, ChainAssumption
<1>3. CASE a \in Heads /\ b = Genesis
  <2>1. Genesis \in Ancestors[a] /\ a # Genesis
    BY <1>1, <1>3, ChainAssumption, PeerStateAssumption
  <2>2. TotalDifficulty[Genesis] < TotalDifficulty[a]
    BY <1>1, <2>1, AncestorIsLighter
  <2> QED
    BY <1>1, <1>3, <2>2
<1>4. CASE a \in Heads /\ b \in Heads
  BY <1>4 DEF Regular, HeavierIsHigher
<1> QED
  BY <1>2, <1>3, <1>4

\* Either no stored header fits, or the start is the first one that does.
LEMMA RequestStartCases ==
    ASSUME lastN \in Seq(Blocks), NEW start \in Blocks, NEW last \in Blocks
    PROVE  \/ /\ RequestStart(start, last) = start
              /\ \/ Number[last] - Number[start] > LastN
                 \/ \A i \in DOMAIN lastN :
                       ~ (Number[lastN[i]] < Number[start] /\ Number[last] <= Number[lastN[i]] + LastN)
           \/ \E j \in DOMAIN lastN :
                 /\ RequestStart(start, last) = lastN[j]
                 /\ Number[lastN[j]] < Number[start] /\ Number[last] <= Number[lastN[j]] + LastN
                 /\ \A k \in 1 .. j - 1 :
                       ~ (Number[lastN[k]] < Number[start] /\ Number[last] <= Number[lastN[k]] + LastN)
<1> DEFINE fits(h) == Number[h] < Number[start] /\ Number[last] <= Number[h] + LastN
           at == {i \in DOMAIN lastN : fits(lastN[i])}
           near == Number[last] - Number[start] <= LastN
           first(j) == fits(lastN[j]) /\ \A k \in 1 .. j - 1 : ~ fits(lastN[k])
           m == CHOOSE j \in DOMAIN lastN : first(j)
<1>1. RequestStart(start, last) = IF near /\ at # {} THEN lastN[m] ELSE start
  BY DEF RequestStart
<1>2. ~ near => Number[last] - Number[start] > LastN
  BY ChainAssumption
<1> HIDE DEF fits, near
<1>3. ASSUME at # {} PROVE m \in DOMAIN lastN /\ first(m)
  <2>1. at \in SUBSET Nat /\ DOMAIN lastN = 1 .. Len(lastN) /\ Len(lastN) \in Nat
    OBVIOUS
  <2>2. PICK x \in at : \A y \in at : x <= y
    BY <1>3, <2>1, NatMin
  <2>3. x \in DOMAIN lastN /\ fits(lastN[x])
    OBVIOUS
  <2>4. ASSUME NEW k \in 1 .. x - 1 PROVE ~ fits(lastN[k])
    <3>1. k \in DOMAIN lastN /\ k < x
      BY ONLY <2>1, <2>3, x \in DOMAIN lastN, k \in 1 .. x - 1
    <3> QED
      BY <2>2, <3>1
  <2>5. first(x)
    BY <2>3, <2>4
  <2> HIDE DEF first
  <2> QED
    BY <2>3, <2>5
<1> HIDE DEF m
<1>4. CASE near /\ at # {}
  <2>1. /\ RequestStart(start, last) = lastN[m] /\ m \in DOMAIN lastN
        /\ fits(lastN[m]) /\ \A k \in 1 .. m - 1 : ~ fits(lastN[k])
    BY <1>1, <1>3, <1>4
  <2> QED
    BY <2>1 DEF fits
<1>5. CASE ~ (near /\ at # {})
  <2>1. RequestStart(start, last) = start
    BY <1>1, <1>5
  <2>2. ~ near \/ \A i \in DOMAIN lastN : ~ fits(lastN[i])
    BY <1>5
  <2> QED
    BY <1>2, <2>1, <2>2 DEF fits
<1> QED
  BY <1>4, <1>5

\* The number of a stored header.
LEMMA StoredNumber ==
    ASSUME StoredOK(tip, lastN), tip # Genesis
    PROVE  Len(lastN) = LastN /\ \A j \in 1 .. LastN : Number[lastN[j]] = Number[tip] - LastN + j - 1
<1>1. Len(lastN) = LastN /\ LastN \in Nat /\ EndsBelow(lastN, tip, LastN)
  BY ChainAssumption DEF StoredOK
<1>2. tip \in Blocks /\ Number[tip] \in Nat
  BY ChainAssumption, PeerStateAssumption DEF StoredOK
<1>3. ASSUME NEW j \in 1 .. LastN PROVE Number[lastN[j]] = Number[tip] - LastN + j - 1
  <2> DEFINE k == LastN + 1 - j
  <2>1. k \in 1 .. LastN /\ Len(lastN) + 1 - k = j
    BY <1>1
  <2>2. Number[lastN[Len(lastN) + 1 - k]] = Number[tip] - k
    BY <1>1, <2>1 DEF EndsBelow
  <2> QED
    BY <1>1, <1>2, <2>1, <2>2
<1> QED
  BY <1>1, <1>3

\* build_prove_request_content lowers the start so that the answer is a whole
\* window, as far as the stored headers reach.
LEMMA BuildWindow ==
    ASSUME Regular, StoredOK(tip, lastN), tip \in Blocks, lastN \in Seq(Blocks),
           NEW s, GoodState(s), NEW last \in Heads, NEW skip \in BOOLEAN,
           NEW r \in BuildProveRequest(s, last, skip)
    PROVE  RequestOK(s.prove, r, tip)
<1> DEFINE start == IF s.prove = NoProve THEN tip ELSE s.prove.last
           first == RequestStart(start, last)
<1>1. start \in Blocks /\ last \in Blocks
  BY GoodFields, NoBlockLemma, PeerStateAssumption
<1>2. r = ProveRequest(last, first, skip, FALSE) /\ ~ (Number[start] >= Number[last])
  BY DEF BuildProveRequest
<1>3. r.last = last /\ r.start = first
  BY <1>2 DEF ProveRequest
<1> DEFINE d == Number[last] - Number[first]
<1>4. s.prove = NoProve => start = tip
  OBVIOUS
<1>5. s.prove # NoProve => start = s.prove.last
  OBVIOUS
<1> HIDE DEF start
<1>6. /\ Number[start] \in Nat /\ Number[last] \in Nat /\ Number[tip] \in Nat /\ LastN \in Nat
      /\ Number[Genesis] = 0 /\ LastN > 0
  BY <1>1, ChainAssumption
<1>7. Number[last] > LastN
  BY DEF Regular, TallHeads
<1>8. DOMAIN lastN = 1 .. Len(lastN)
  OBVIOUS
<1> HIDE DEF first
<1>9. ASSUME NEW j \in DOMAIN lastN, first = lastN[j],
             Number[lastN[j]] < Number[start], Number[last] <= Number[lastN[j]] + LastN,
             \A k \in 1 .. j - 1 :
                ~ (Number[lastN[k]] < Number[start] /\ Number[last] <= Number[lastN[k]] + LastN)
      PROVE  d >= LastN \/ d >= LastN + Number[last] - Number[tip]
  <2>1. tip # Genesis
    BY <1>8, <1>9 DEF StoredOK
  <2>2. Len(lastN) = LastN /\ \A i \in 1 .. LastN : Number[lastN[i]] = Number[tip] - LastN + i - 1
    BY <2>1, StoredNumber
  <2>3. j \in 1 .. LastN /\ Number[lastN[j]] = Number[tip] - LastN + j - 1
    BY <1>8, <2>2
  <2>4. CASE j = 1
    BY <1>6, <1>9, <2>3, <2>4
  <2>5. CASE j # 1
    <3>1. j - 1 \in 1 .. LastN /\ j - 1 \in 1 .. j - 1
      BY <1>6, <2>3, <2>5
    <3>2. Number[lastN[j - 1]] = Number[tip] - LastN + (j - 1) - 1
      BY <2>2, <3>1
    <3>3. ~ (Number[lastN[j - 1]] < Number[start] /\ Number[last] <= Number[lastN[j - 1]] + LastN)
      BY <1>9, <3>1
    <3>4. Number[lastN[j - 1]] = Number[first] - 1 /\ Number[first] < Number[start] /\ Number[first] \in Int
      <4>1. Number[first] = Number[tip] - LastN + j - 1 /\ Number[first] < Number[start] /\ j \in Int
        BY <1>9, <2>3
      <4>2. (Number[tip] - LastN + j - 1) - 1 = Number[tip] - LastN + (j - 1) - 1
        BY <1>6, <4>1
      <4> QED
        BY <1>6, <3>2, <4>1, <4>2
    <3>5. ~ (Number[last] <= (Number[first] - 1) + LastN)
      BY <1>6, <3>3, <3>4
    <3> QED
      BY <1>6, <3>4, <3>5
  <2> QED
    BY <2>4, <2>5
<1>10. ASSUME first = start, s.prove = NoProve,
              \/ Number[last] - Number[start] > LastN
              \/ \A i \in DOMAIN lastN :
                    ~ (Number[lastN[i]] < Number[start] /\ Number[last] <= Number[lastN[i]] + LastN)
       PROVE  d >= LastN
  <2>1. start = tip
    BY <1>4, <1>10
  <2>2. CASE tip = Genesis
    BY <1>6, <1>7, <1>10, <2>1, <2>2
  <2>3. CASE tip # Genesis
    <3>1. Len(lastN) = LastN /\ Number[lastN[LastN]] = Number[tip] - LastN + LastN - 1
      <4>1. LastN \in 1 .. LastN
        BY <1>6
      <4> QED
        BY <2>3, <4>1, StoredNumber
    <3>2. LastN \in DOMAIN lastN
      BY <1>6, <1>8, <3>1
    <3>3. \/ Number[last] - Number[tip] > LastN
          \/ ~ (Number[lastN[LastN]] < Number[tip] /\ Number[last] <= Number[lastN[LastN]] + LastN)
      BY <1>10, <2>1, <3>2
    <3>4. Number[lastN[LastN]] = Number[tip] - 1
      BY <1>6, <3>1
    <3>5. Number[last] - Number[tip] >= LastN
      BY <1>6, <3>3, <3>4
    <3> QED
      BY <1>10, <2>1, <3>5
  <2> QED
    BY <2>2, <2>3
<1>11. \/ /\ first = start
          /\ \/ Number[last] - Number[start] > LastN
             \/ \A i \in DOMAIN lastN :
                   ~ (Number[lastN[i]] < Number[start] /\ Number[last] <= Number[lastN[i]] + LastN)
       \/ \E j \in DOMAIN lastN :
             /\ first = lastN[j]
             /\ Number[lastN[j]] < Number[start] /\ Number[last] <= Number[lastN[j]] + LastN
             /\ \A k \in 1 .. j - 1 :
                   ~ (Number[lastN[k]] < Number[start] /\ Number[last] <= Number[lastN[k]] + LastN)
  BY <1>1, RequestStartCases DEF first
<1>12. \/ d >= LastN \/ d >= LastN + Number[last] - Number[tip]
       \/ s.prove # NoProve /\ first = s.prove.last
  BY <1>5, <1>9, <1>10, <1>11
<1> QED
  BY <1>3, <1>12 DEF RequestOK

\* The headers of an accepted answer: a whole window, or as much of one as the
\* peer is not behind the stored tip t of the request.
LEMMA NewHeadersWindow ==
    ASSUME Regular, NEW s, GoodState(s), s.request # NoRequest, ~ s.request.longFork,
           NEW t \in Blocks, WindowState(s, t)
    PROVE  /\ Len(NewLastHeaders(s)) <= LastN
           /\ \A n \in Int : n <= LastN /\ n <= LastN + Number[s.request.last] - Number[t] =>
                 EndsBelow(NewLastHeaders(s), s.request.last, n)
<1> DEFINE r == s.request
           b == r.last
           f == Number[r.start]
           d == Number[b] - f
           reorg == AnsweredReorg(r)
           new == AnsweredLastN(r)
           i == IF d > LastN THEN Number[b] - LastN ELSE f
           old == IF reorg = <<>> THEN s.prove.headers ELSE reorg
           fill == Suffix(old, LastN - Len(new))
           hs == NewLastHeaders(s)
<1>1. /\ r \in Requests /\ b \in Heads /\ b \in Blocks /\ r.start \in Blocks /\ f < Number[b]
      /\ \/ d >= LastN
         \/ d >= LastN + Number[b] - Number[t]
         \/ s.prove # NoProve /\ r.start = s.prove.last
  BY GoodFields, NoBlockLemma DEF WindowState, RequestOK
<1>2. /\ f \in Nat /\ Number[b] \in Nat /\ Number[t] \in Nat /\ LastN \in Nat /\ LastN > 0
      /\ Number[b] > LastN
  BY <1>1, ChainAssumption DEF Regular, TallHeads
<1>3. b \in Ancestors[b]
  BY <1>1, ChainAssumption
<1>4. new = Path(b, i, Number[b] - 1)
  BY DEF AnsweredLastN, IsSampled
<1>5. s.prove.headers \in Seq(Blocks)
  <2>1. s.prove \in ProveStates \cup {NoProve}
    BY GoodFields
  <2>2. \A v \in ProveStates : v.headers \in Seq(Blocks)
    BY DEF ProveStates
  <2>3. NoProve.headers \in Seq(Blocks)
    BY DEF NoProve
  <2> QED
    BY <2>1, <2>2, <2>3
<1>6. hs = IF Len(new) >= LastN THEN new ELSE fill \o new
  BY DEF NewLastHeaders
<1>7. reorg \in Seq(Blocks)
  BY <1>1, AnswerLemma
<1>8. r.start \notin Ancestors[b] => reorg = Path(b, MaxOf({1, f - LastN}), f - 1)
  BY DEF AnsweredReorg
<1>9. r.start \in Ancestors[b] => reorg = <<>>
  BY DEF AnsweredReorg
<1>10. s.prove # NoProve => EndsBelow(s.prove.headers, s.prove.last, LastN + Number[s.prove.last] - Number[t])
  BY DEF WindowState, WindowOK
<1> HIDE DEF r, b, f, new, reorg, hs
<1>11. i \in Nat /\ i <= Number[b] /\ (d > LastN => Number[b] - i = LastN) /\ (~ (d > LastN) => i = f)
  BY <1>1, <1>2
<1> HIDE DEF i
<1>12. new \in Seq(Blocks) /\ Len(new) = Number[b] - i /\ EndsBelow(new, b, Number[b] - i)
  BY <1>1, <1>3, <1>4, <1>11, PathEndsBelow
<1>13. CASE d >= LastN
  <2>1. Len(new) = LastN /\ EndsBelow(new, b, LastN)
    BY <1>2, <1>11, <1>12, <1>13
  <2>2. hs = new
    BY <1>2, <1>6, <2>1
  <2>3. \A n \in Int : n <= LastN => EndsBelow(new, b, n)
    BY <1>2, <2>1, EndsBelowLess
  <2> QED
    BY <1>2, <2>1, <2>2, <2>3 DEF hs, b, r
<1>14. CASE ~ (d >= LastN)
  <2>1. d \in Nat /\ d < LastN /\ LastN - d \in Nat
    BY <1>1, <1>2, <1>14
  <2>2. Len(new) = d /\ EndsBelow(new, b, d)
    BY <1>2, <1>11, <1>12, <2>1
  <2>3. hs = fill \o new /\ fill = Suffix(old, LastN - d)
    BY <1>2, <1>6, <2>1, <2>2
  <2>4. old \in Seq(Blocks)
    BY <1>5, <1>7
  <2> HIDE DEF old, fill
  <2>5. /\ fill \in Seq(Blocks) /\ Len(fill) <= LastN - d
        /\ \A a : \A n \in Int : n <= LastN - d /\ EndsBelow(old, a, n) => EndsBelow(fill, a, n)
    BY <2>1, <2>3, <2>4, SuffixEndsBelow
  <2>6. Len(hs) <= LastN
    <3>1. Len(fill \o new) = Len(fill) + Len(new)
      BY <1>12, <2>5, ConcatProperties
    <3>2. Len(fill) \in Nat
      BY <2>5
    <3> QED
      BY <1>2, <2>1, <2>2, <2>3, <2>5, <3>1, <3>2
  <2>7. ASSUME NEW n \in Int, n <= d PROVE EndsBelow(hs, b, n)
    <3>1. EndsBelow(new, b, n) /\ n <= Len(new)
      BY <2>1, <2>2, <2>7, EndsBelowLess
    <3> QED
      BY <1>12, <2>3, <2>5, <2>7, <3>1, ConcatEndsBelow
  <2>8. ASSUME NEW a \in Ancestors[b], Number[a] = f, NEW m \in Nat, m <= LastN - d, EndsBelow(old, a, m)
        PROVE  EndsBelow(hs, b, m + d)
    <3>1. EndsBelow(fill, a, m)
      BY <2>5, <2>8
    <3>2. Len(new) = Number[b] - Number[a]
      BY <2>2, <2>8
    <3>3. EndsBelow(fill \o new, b, m + Len(new))
      BY <1>1, <1>12, <2>2, <2>5, <2>8, <3>1, <3>2, JoinEndsBelow
    <3> QED
      BY <2>2, <2>3, <3>3
  <2>9. ASSUME r.start \notin Ancestors[b], NEW n \in Int, n <= LastN PROVE EndsBelow(hs, b, n)
    <3> DEFINE m == MaxOf({1, f - LastN})
    <3>1. f - LastN \in Int /\ f > 1
      BY <1>2, <2>1
    <3>2. m \in {1, f - LastN} /\ 1 <= m
      <4>1. 1 \in Int
        OBVIOUS
      <4> QED
        BY ONLY <3>1, <4>1, MaxOfPair, Zenon
    <3> HIDE DEF m
    <3>3. m \in Nat /\ m < f /\ LastN - d <= f - m
      BY <1>2, <2>1, <3>1, <3>2
    <3>4. PICK a \in Ancestors[b] : a \in Blocks /\ Number[a] = f
      <4>1. f \in 0 .. Number[b]
        BY <1>1, <1>2
      <4> QED
        BY <1>1, <4>1, AncestorAt
    <3>5. reorg = Path(b, m, Number[a] - 1)
      BY <1>8, <2>9, <3>4 DEF m
    <3>6. Len(reorg) = Number[a] - m /\ EndsBelow(reorg, a, Number[a] - m)
      <4>1. m <= Number[a]
        BY <1>2, <3>3, <3>4
      <4> QED
        BY <1>1, <3>3, <3>5, <4>1, PathEndsBelow
    <3>7. reorg # <<>>
      <4>1. Len(reorg) > 0
        BY <1>2, <3>3, <3>4, <3>6
      <4> QED
        BY <4>1
    <3>8. old = reorg
      BY <3>7 DEF old
    <3>9. EndsBelow(old, a, LastN - d)
      <4>1. LastN - d <= f - m /\ f - m \in Int /\ LastN - d \in Int
        BY <1>2, <2>1, <3>3
      <4>2. Len(old) \in Nat
        BY <2>4
      <4>3. EndsBelow(old, a, f - m)
        BY <3>4, <3>6, <3>8
      <4> QED
        BY <4>1, <4>2, <4>3, EndsBelowLess
    <3>10. EndsBelow(hs, b, (LastN - d) + d)
      BY <1>2, <2>1, <2>8, <3>4, <3>9
    <3>11. (LastN - d) + d = LastN
      BY <1>2, <2>1
    <3>12. hs \in Seq(Blocks)
      BY <1>12, <2>3, <2>5, ConcatProperties
    <3>13. EndsBelow(hs, b, LastN) /\ Len(hs) \in Nat
      BY <3>10, <3>11, <3>12
    <3> QED
      BY <1>2, <2>9, <3>13, EndsBelowLess
  <2>10. ASSUME r.start \in Ancestors[b], NEW n \in Int, n <= LastN, n <= LastN + Number[b] - Number[t]
         PROVE  EndsBelow(hs, b, n)
    <3>1. old = s.prove.headers
      BY <1>9, <2>10 DEF old
    <3>2. CASE n <= d
      BY <2>7, <3>2
    <3>3. CASE ~ (n <= d)
      <4>1. s.prove # NoProve /\ r.start = s.prove.last
        BY <1>1, <1>2, <1>14, <2>1, <2>10, <3>3
      <4>2. EndsBelow(old, r.start, LastN + f - Number[t])
        BY <1>10, <3>1, <4>1 DEF f
      <4>3. /\ n - d \in Nat /\ n - d <= LastN - d /\ n - d <= LastN + f - Number[t]
            /\ LastN + f - Number[t] \in Int /\ (n - d) + d = n
        BY <1>1, <1>2, <2>1, <2>10, <3>3
      <4>4. Len(old) \in Nat
        BY <2>4
      <4>5. EndsBelow(old, r.start, n - d)
        BY <4>2, <4>3, <4>4, EndsBelowLess
      <4>6. Number[r.start] = f
        BY DEF f
      <4>7. EndsBelow(hs, b, (n - d) + d)
        BY <2>8, <2>10, <4>3, <4>5, <4>6
      <4> QED
        BY <4>3, <4>7
    <3> QED
      BY <3>2, <3>3
  <2> QED
    BY <2>6, <2>9, <2>10 DEF hs, b, r
<1> QED
  BY <1>13, <1>14

\* ProveState::new_child drops the oldest header for the parent.
LEMMA NewChildWindow ==
    ASSUME NEW v \in ProveStates, NEW t \in Blocks, WindowOK(v, t), NEW b \in Blocks, IsParentOf(v.last, b)
    PROVE  /\ Len(NewChild(v, b).headers) <= LastN
           /\ \A n \in Int : n <= LastN /\ n <= LastN + Number[b] - Number[t] =>
                 EndsBelow(NewChild(v, b).headers, b, n)
<1> DEFINE old == v.headers
           a == v.last
           kept == IF Len(old) >= LastN THEN Tail(old) ELSE old
           hs == Append(kept, a)
<1>1. old \in Seq(Blocks) /\ a \in Blocks
  BY DEF ProveStates
<1>2. /\ Len(old) <= LastN /\ EndsBelow(old, a, LastN + Number[a] - Number[t])
      /\ a \in Ancestors[b] /\ Number[b] = Number[a] + 1
  BY DEF WindowOK, IsParentOf
<1>3. NewChild(v, b).headers = hs
  BY DEF NewChild
<1> HIDE DEF old, a
<1>4. /\ Len(old) \in Nat /\ LastN \in Nat /\ LastN > 0
      /\ Number[a] \in Nat /\ Number[t] \in Nat /\ Number[b] \in Nat
  BY <1>1, ChainAssumption
<1>5. /\ kept \in Seq(Blocks) /\ Len(kept) <= LastN - 1
      /\ \A n \in Int : n <= LastN - 1 /\ EndsBelow(old, a, n) => EndsBelow(kept, a, n)
  <2>1. CASE Len(old) >= LastN
    <3>1. kept = Tail(old) /\ old # <<>> /\ Len(old) = LastN
      BY <1>1, <1>2, <1>4, <2>1
    <3>2. /\ Tail(old) \in Seq(Blocks) /\ Len(Tail(old)) = Len(old) - 1
          /\ \A i \in 1 .. Len(Tail(old)) : Tail(old)[i] = old[i + 1]
      BY <1>1, <3>1, HeadTailProperties
    <3>3. ASSUME NEW n \in Int, n <= LastN - 1, EndsBelow(old, a, n) PROVE EndsBelow(Tail(old), a, n)
      <4>1. Len(Tail(old)) = LastN - 1
        BY <3>1, <3>2
      <4>2. ASSUME NEW k \in 1 .. n
            PROVE  Tail(old)[Len(Tail(old)) + 1 - k] = old[Len(old) + 1 - k]
        <5>1. Len(Tail(old)) + 1 - k \in 1 .. Len(Tail(old)) /\ (Len(Tail(old)) + 1 - k) + 1 = Len(old) + 1 - k
          BY <1>4, <3>1, <3>3, <4>1
        <5> QED
          BY <3>2, <5>1
      <4>3. Len(Tail(old)) >= n
        BY <1>4, <3>3, <4>1
      <4> QED
        BY <3>3, <4>2, <4>3 DEF EndsBelow
    <3> QED
      BY <1>4, <3>1, <3>2, <3>3
  <2>2. CASE ~ (Len(old) >= LastN)
    BY <1>1, <1>4, <2>2
  <2> QED
    BY <2>1, <2>2
<1> HIDE DEF kept
<1>6. /\ hs \in Seq(Blocks) /\ Len(hs) = Len(kept) + 1
      /\ \A i \in 1 .. Len(kept) : hs[i] = kept[i]
      /\ hs[Len(kept) + 1] = a
  BY <1>1, <1>5, AppendProperties
<1> HIDE DEF hs
<1>7. Len(hs) <= LastN /\ Len(kept) \in Nat
  BY <1>4, <1>5, <1>6
<1>8. ASSUME NEW n \in Int, n <= LastN, n <= LastN + Number[b] - Number[t] PROVE EndsBelow(hs, b, n)
  <2>1. n - 1 \in Int /\ n - 1 <= LastN - 1 /\ n - 1 <= LastN + Number[a] - Number[t]
        /\ LastN + Number[a] - Number[t] \in Int
    BY <1>2, <1>4, <1>8
  <2>2. EndsBelow(old, a, n - 1)
    BY <1>2, <1>4, <2>1, EndsBelowLess
  <2>3. EndsBelow(kept, a, n - 1)
    BY <1>5, <2>1, <2>2
  <2>4. Len(kept) >= n - 1 /\ \A k \in 1 .. n - 1 :
           kept[Len(kept) + 1 - k] \in Ancestors[a] /\ Number[kept[Len(kept) + 1 - k]] = Number[a] - k
    BY <2>3 DEF EndsBelow
  <2>5. Ancestors[a] \subseteq Ancestors[b]
    BY <1>2, AncestorsNest
  <2>6. ASSUME NEW k \in 1 .. n
        PROVE  hs[Len(hs) + 1 - k] \in Ancestors[b] /\ Number[hs[Len(hs) + 1 - k]] = Number[b] - k
    <3>1. CASE k = 1
      <4>1. Len(hs) + 1 - k = Len(kept) + 1
        BY <1>6, <1>7, <3>1
      <4> QED
        BY <1>2, <1>4, <1>6, <3>1, <4>1
    <3>2. CASE k # 1
      <4>1. k - 1 \in 1 .. n - 1 /\ Len(hs) + 1 - k = Len(kept) + 1 - (k - 1)
            /\ Len(kept) + 1 - (k - 1) \in 1 .. Len(kept)
        BY <1>6, <1>7, <2>4, <3>2
      <4>2. hs[Len(hs) + 1 - k] = kept[Len(kept) + 1 - (k - 1)]
        BY <1>6, <4>1
      <4>3. hs[Len(hs) + 1 - k] \in Ancestors[a] /\ Number[hs[Len(hs) + 1 - k]] = Number[a] - (k - 1)
        BY <2>4, <4>1, <4>2
      <4>4. Number[a] - (k - 1) = Number[b] - k
        BY <1>2, <1>4
      <4> QED
        BY <2>5, <4>3, <4>4
    <3> QED
      BY <3>1, <3>2
  <2>7. Len(hs) >= n
    BY <1>6, <1>7, <2>4
  <2> QED
    BY <2>6, <2>7 DEF EndsBelow
<1> QED
  BY <1>3, <1>7, <1>8

-----------------------------------------------------------------------------
(* The steps keep the window.                                                *)

\* The stored tip only moves up.
Above(t, u) == u \in Blocks /\ Number[t] <= Number[u] /\ TotalDifficulty[t] <= TotalDifficulty[u]

\* What is known of a peer stays true when the stored tip moves up.
LEMMA WindowKept ==
    ASSUME NEW s, GoodState(s), NEW t \in Blocks, NEW u, Above(t, u), WindowState(s, t)
    PROVE  WindowState(s, u)
<1>1. /\ u \in Blocks /\ Number[t] <= Number[u] /\ TotalDifficulty[t] <= TotalDifficulty[u]
      /\ Number[t] \in Nat /\ Number[u] \in Nat /\ LastN \in Nat
      /\ TotalDifficulty[t] \in Nat /\ TotalDifficulty[u] \in Nat
  BY ChainAssumption DEF Above
<1>2. ASSUME s.prove # NoProve PROVE WindowOK(s.prove, u)
  <2> DEFINE v == s.prove
  <2>1. v \in ProveStates /\ v.last \in Blocks
    BY <1>2, GoodFields, NoBlockLemma
  <2>2. WindowOK(v, t)
    BY <1>2 DEF WindowState
  <2> HIDE DEF v
  <2>3. Len(v.headers) \in Nat
    BY <2>1 DEF ProveStates
  <2>4. Number[v.last] \in Nat /\ TotalDifficulty[v.last] \in Nat
    BY <2>1, ChainAssumption
  <2>5. /\ LastN + Number[v.last] - Number[u] <= LastN + Number[v.last] - Number[t]
        /\ LastN + Number[v.last] - Number[u] \in Int /\ LastN + Number[v.last] - Number[t] \in Int
        /\ TotalDifficulty[v.last] <= TotalDifficulty[t] => TotalDifficulty[v.last] <= TotalDifficulty[u]
    BY <1>1, <2>4
  <2>6. EndsBelow(v.headers, v.last, LastN + Number[v.last] - Number[u])
    BY <2>2, <2>3, <2>5, EndsBelowLess DEF WindowOK
  <2> QED
    BY <2>2, <2>5, <2>6 DEF WindowOK, v
<1>3. ASSUME s.request # NoRequest PROVE RequestOK(s.prove, s.request, u)
  <2> DEFINE r == s.request
  <2>1. r \in Requests /\ r.last \in Blocks /\ r.start \in Blocks
    BY <1>3, GoodFields, NoBlockLemma
  <2>2. RequestOK(s.prove, r, t)
    BY <1>3 DEF WindowState
  <2> HIDE DEF r
  <2>3. Number[r.last] \in Nat /\ Number[r.start] \in Nat
    BY <2>1, ChainAssumption
  <2>4. Number[r.last] - Number[r.start] >= LastN + Number[r.last] - Number[t]
          => Number[r.last] - Number[r.start] >= LastN + Number[r.last] - Number[u]
    BY <1>1, <2>3
  <2> QED
    BY <2>2, <2>4 DEF RequestOK, r
<1> QED
  BY <1>2, <1>3 DEF WindowState

\* One peer moves, and perhaps the stored tip.
LEMMA OneMovesWindow ==
    ASSUME PeersOK, WindowInv, NEW p \in Peers, NEW t, WindowState(t, tip'),
           state' = [state EXCEPT ![p] = t], StoredOK(tip', lastN'), Above(tip, tip')
    PROVE  WindowInv'
<1>1. state \in [Peers -> PeerStates] /\ tip \in Blocks
  BY DEF PeersOK
<1>2. \A q \in Peers : state'[q] = IF q = p THEN t ELSE state[q]
  BY <1>1
<1>3. \A q \in Peers : GoodState(state[q]) /\ WindowState(state[q], tip)
  BY DEF PeersOK, WindowInv
<1>4. \A q \in Peers : WindowState(state[q], tip')
  BY <1>1, <1>3, WindowKept
<1>5. \A q \in Peers : WindowState(state'[q], tip')
  BY <1>2, <1>4
<1> QED
  BY <1>5 DEF WindowInv

LEMMA TipStays ==
    ASSUME PeersOK, WindowInv, tip' = tip, lastN' = lastN
    PROVE  StoredOK(tip', lastN') /\ Above(tip, tip')
<1>1. tip \in Blocks /\ Number[tip] \in Nat /\ TotalDifficulty[tip] \in Nat
  BY ChainAssumption DEF PeersOK
<1> QED
  BY <1>1 DEF WindowInv, Above

\* A new prove state v of a head b, with a window as far as b is not behind the
\* stored tip, which it replaces when it is heavier.
LEMMA ProvedWindow ==
    ASSUME Regular, PeersOK, WindowInv, NEW b \in Heads, NEW v \in ProveStates, v.last = b,
           Len(v.headers) <= LastN,
           \A n \in Int : n <= LastN /\ n <= LastN + Number[b] - Number[tip] =>
              EndsBelow(v.headers, b, n),
           IF TotalDifficulty[b] > TotalDifficulty[tip]
           THEN tip' = b /\ lastN' = v.headers
           ELSE tip' = tip /\ lastN' = lastN
    PROVE  StoredOK(tip', lastN') /\ Above(tip, tip') /\ WindowOK(v, tip')
<1>1. /\ tip \in Blocks /\ b \in Blocks /\ Number[tip] \in Nat /\ Number[b] \in Nat
      /\ TotalDifficulty[tip] \in Nat /\ TotalDifficulty[b] \in Nat /\ LastN \in Nat
      /\ b # Genesis
  BY ChainAssumption, PeerStateAssumption DEF PeersOK
<1>2. StoredOK(tip, lastN) /\ tip \in Heads \cup {Genesis}
  BY DEF WindowInv, StoredOK
<1>3. Len(v.headers) \in Nat
  BY DEF ProveStates
<1>4. CASE TotalDifficulty[b] > TotalDifficulty[tip]
  <2>1. tip' = b /\ lastN' = v.headers
    BY <1>4
  <2>2. TotalDifficulty[tip] <= TotalDifficulty[b]
    BY <1>1, <1>4
  <2>3. Number[tip] <= Number[b]
    BY <1>2, <2>2, TipLemma
  <2>4. LastN <= LastN + Number[b] - Number[tip] /\ LastN \in Int /\ LastN <= LastN
    BY <1>1, <2>3
  <2>5. EndsBelow(v.headers, b, LastN)
    BY <2>4
  <2>6. Len(v.headers) = LastN
    BY <1>1, <1>3, <2>5 DEF EndsBelow
  <2>7. LastN + Number[v.last] - Number[b] = LastN
    BY <1>1
  <2>8. WindowOK(v, b)
    BY <1>1, <2>5, <2>7 DEF WindowOK
  <2> QED
    BY <1>1, <2>1, <2>2, <2>3, <2>5, <2>6, <2>8 DEF StoredOK, Above
<1>5. CASE ~ (TotalDifficulty[b] > TotalDifficulty[tip])
  <2>1. tip' = tip /\ lastN' = lastN
    BY <1>5
  <2>2. TotalDifficulty[b] <= TotalDifficulty[tip]
    BY <1>1, <1>5
  <2>3. Number[b] <= Number[tip]
    BY <1>2, <2>2, TipLemma
  <2>4. /\ LastN + Number[b] - Number[tip] <= LastN /\ LastN + Number[b] - Number[tip] \in Int
        /\ LastN + Number[b] - Number[tip] <= LastN + Number[b] - Number[tip]
    BY <1>1, <2>3
  <2>5. EndsBelow(v.headers, b, LastN + Number[b] - Number[tip])
    BY <2>4
  <2>6. WindowOK(v, tip)
    BY <2>2, <2>5 DEF WindowOK
  <2> QED
    BY <2>1, <2>6, TipStays
<1> QED
  BY <1>4, <1>5

\* The parts of the state of a peer.
LEMMA WindowParts ==
    ASSUME NEW n, NEW b, NEW v, NEW r, NEW t,
           b # NoBlock => b \in Heads,
           v # NoProve => WindowOK(v, t),
           r # NoRequest => RequestOK(v, r, t)
    PROVE  WindowState(State(n, b, v, r), t)
<1> DEFINE s == State(n, b, v, r)
<1>1. s.last = b /\ s.prove = v /\ s.request = r
  BY StateFields
<1> HIDE DEF s
<1> QED
  BY <1>1 DEF WindowState, s

\* get_last_state_proof.
LEMMA GetProofWindow ==
    ASSUME Regular, PeersOK, WindowInv, NEW s, GoodState(s), s.name \in Provable, WindowState(s, tip),
           NEW t \in GetLastStateProof(s)
    PROVE  WindowState(t, tip)
<1>1. /\ s \in PeerStates /\ s.last \in Heads /\ s.last \in Blocks /\ s.last # NoBlock
  BY GoodFields, PeerStateAssumption DEF Provable, WindowState
<1>2. tip \in Blocks /\ lastN \in Seq(Blocks) /\ StoredOK(tip, lastN)
  BY DEF PeersOK, WindowInv
<1>3. ASSUME NEW q \in Peers, state[q].prove.last = s.last,
             t = ReceiveLastStateProof(s, state[q].prove)
      PROVE  WindowState(t, tip)
  <2>1. GoodState(state[q]) /\ WindowState(state[q], tip)
    BY DEF PeersOK, WindowInv
  <2>2. state[q].prove # NoProve
    BY <1>1, <1>3, NoBlockLemma
  <2>3. WindowOK(state[q].prove, tip)
    BY <2>1, <2>2 DEF WindowState
  <2>4. t = State("Ready", s.last, state[q].prove, NoRequest)
    BY <1>1, <1>3, ReceiveLastStateProofLemma
  <2> QED
    BY <1>1, <2>3, <2>4, WindowParts
<1>4. ASSUME NEW r \in BuildProveRequest(s, s.last, FALSE), t = RequestLastStateProof(s, r)
      PROVE  WindowState(t, tip)
  <2>1. RequestOK(s.prove, r, tip)
    BY <1>1, <1>2, <1>4, BuildWindow
  <2>2. PICK n : t = State(n, s.last, s.prove, r)
    BY <1>1, <1>4, RequestLastStateProofLemma
  <2>3. s.prove # NoProve => WindowOK(s.prove, tip)
    BY DEF WindowState
  <2> QED
    BY <1>1, <2>1, <2>2, <2>3, WindowParts
<1>5. \/ t = s
      \/ \E q \in Peers : state[q].prove.last = s.last /\ t = ReceiveLastStateProof(s, state[q].prove)
      \/ \E r \in BuildProveRequest(s, s.last, FALSE) : t = RequestLastStateProof(s, r)
  BY Zenon DEF GetLastStateProof
<1> QED
  BY <1>3, <1>4, <1>5

\* A last state.
LEMMA AnnouncedWindow ==
    ASSUME PeersOK, WindowInv, NEW p \in Peers, NEW b \in Heads, MayAnnounce(p, b)
    PROVE  WindowState(ReceiveLastState(state[p], b), tip)
<1> DEFINE s == state[p]
<1>1. GoodState(s) /\ s # Absent /\ WindowState(s, tip)
  BY DEF PeersOK, WindowInv, MayAnnounce
<1> HIDE DEF s
<1>2. s \in PeerStates /\ s.name # "Absent"
  BY <1>1, AbsentLemma, GoodFields
<1>3. PICK n : ReceiveLastState(s, b) = State(n, b, s.prove, s.request)
  BY <1>2, ReceiveLastStateLemma
<1>4. WindowState(State(n, b, s.prove, s.request), tip)
  BY <1>1, WindowParts DEF WindowState
<1> QED
  BY <1>3, <1>4 DEF s

\* A last state, and what follows from it.
LEMMA SendLastStateWindow ==
    ASSUME Regular, PeersOK, WindowInv, NEW p \in Peers, NEW b \in Heads, SendLastState(p, b)
    PROVE  WindowInv'
<1> DEFINE o == state[p]
           s == ReceiveLastState(o, b)
           v == NewChild(o.prove, b)
<1>1. MayAnnounce(p, b) /\ (SendFirstLastState(p, b) \/ SendNextLastState(p, b))
  BY DEF SendLastState
<1>2. WindowState(s, tip)
  BY <1>1, AnnouncedWindow
<1>3. GoodState(s) /\ s.name \in Provable /\ s.last = b
  BY <1>1, AnnouncedLemma
<1>4. CASE SendFirstLastState(p, b)
  <2>1. PICK t \in GetLastStateProof(s) : state' = [state EXCEPT ![p] = t]
    BY <1>4 DEF SendFirstLastState
  <2>2. tip' = tip /\ lastN' = lastN
    BY <1>4 DEF SendFirstLastState
  <2> HIDE DEF s
  <2>3. WindowState(t, tip')
    BY <1>2, <1>3, <2>2, GetProofWindow
  <2> QED
    BY <2>1, <2>2, <2>3, TipStays, OneMovesWindow
<1>5. CASE SendNextLastState(p, b)
  <2>1. CASE state' = [state EXCEPT ![p] = s] /\ UNCHANGED <<tip, lastN>>
    <3>1. WindowState(s, tip')
      BY <1>2, <2>1
    <3> HIDE DEF s
    <3> QED
      BY <2>1, <3>1, TipStays, OneMovesWindow
  <2>2. CASE /\ o.prove # NoProve /\ IsParentOf(o.prove.last, b)
             /\ state' = [state EXCEPT ![p] = ReceiveLastStateProof(s, v)]
             /\ IF TotalDifficulty[b] > TotalDifficulty[tip]
                THEN tip' = b /\ lastN' = v.headers
                ELSE UNCHANGED <<tip, lastN>>
    <3>1. GoodState(o) /\ WindowState(o, tip) /\ tip \in Blocks
      BY DEF PeersOK, WindowInv
    <3>2. b \in Blocks
      BY PeerStateAssumption
    <3> HIDE DEF o
    <3>3. o.prove \in ProveStates /\ WindowOK(o.prove, tip)
      BY <2>2, <3>1, GoodFields DEF WindowState
    <3>4. v \in ProveStates /\ v.last = b
      BY <3>2, <3>3, NewChildLemma
    <3>5. /\ Len(v.headers) <= LastN
          /\ \A n \in Int : n <= LastN /\ n <= LastN + Number[b] - Number[tip] =>
                EndsBelow(v.headers, b, n)
      BY <2>2, <3>1, <3>2, <3>3, NewChildWindow
    <3> HIDE DEF v, s
    <3>6. IF TotalDifficulty[b] > TotalDifficulty[tip]
          THEN tip' = b /\ lastN' = v.headers ELSE tip' = tip /\ lastN' = lastN
      BY <2>2
    <3>7. StoredOK(tip', lastN') /\ Above(tip, tip') /\ WindowOK(v, tip')
      BY <3>4, <3>5, <3>6, ProvedWindow
    <3>8. ReceiveLastStateProof(s, v) = State("Ready", b, v, NoRequest)
      BY <1>3, GoodFields, ReceiveLastStateProofLemma
    <3>9. WindowState(State("Ready", b, v, NoRequest), tip')
      BY <3>7, WindowParts
    <3> QED
      BY <2>2, <3>7, <3>8, <3>9, OneMovesWindow
  <2> QED
    BY <1>5, <2>1, <2>2, Zenon DEF SendNextLastState
<1> QED
  BY <1>1, <1>4, <1>5

LEMMA ProofWithNewStateWindow ==
    ASSUME Regular, PeersOK, WindowInv, NEW p \in Peers, NEW b \in Heads, ProofWithNewState(p, b)
    PROVE  WindowInv'
<1> DEFINE s == ReceiveLastState(state[p], b)
<1>1. MayAnnounce(p, b) /\ tip' = tip /\ lastN' = lastN
  BY DEF ProofWithNewState
<1>2. WindowState(s, tip) /\ GoodState(s) /\ s.name \in Provable
  BY <1>1, AnnouncedWindow, AnnouncedLemma
<1>3. (\E t \in GetLastStateProof(s) : state' = [state EXCEPT ![p] = t]) \/ state' = [state EXCEPT ![p] = s]
  BY Zenon DEF ProofWithNewState
<1> HIDE DEF s
<1>4. PICK t : WindowState(t, tip) /\ state' = [state EXCEPT ![p] = t]
  BY <1>2, <1>3, GetProofWindow
<1>5. WindowState(t, tip')
  BY <1>1, <1>4
<1> QED
  BY <1>1, <1>4, <1>5, TipStays, OneMovesWindow

\* The answer to a request.
LEMMA SendLastStateProofWindow ==
    ASSUME Regular, PeersOK, WindowInv, NEW p \in Peers, SendLastStateProof(p)
    PROVE  WindowInv'
<1> DEFINE s == state[p]
           q == s.request
<1>1. /\ s.request.open /\ ~ s.request.longFork
      /\ CommitProveState(p) \/ AskFromGenesis(p) \/ AskAgainWithoutTau(p)
  BY DEF SendLastStateProof
<1>2. GoodState(s) /\ WindowState(s, tip) /\ tip \in Blocks /\ lastN \in Seq(Blocks) /\ StoredOK(tip, lastN)
  BY DEF PeersOK, WindowInv
<1>3. CASE CommitProveState(p)
  <2> DEFINE v == [last |-> s.request.last, reorg |-> AnsweredReorg(s.request),
                   headers |-> NewLastHeaders(s)]
  <2>1. /\ state' = [state EXCEPT ![p] = ReceiveLastStateProof(s, v)]
        /\ IF TotalDifficulty[q.last] > TotalDifficulty[tip]
           THEN tip' = q.last /\ lastN' = v.headers
           ELSE tip' = tip /\ lastN' = lastN
    BY <1>3 DEF CommitProveState
  <2> HIDE DEF s
  <2>2. s.name \in Provable /\ s.request # NoRequest /\ s \in PeerStates
    BY <1>1, <1>2, OpenRequest, GoodFields
  <2>3. q.last \in Heads /\ (s.last # NoBlock => s.last \in Heads)
    BY <1>2, <2>2 DEF WindowState, RequestOK
  <2>4. v \in ProveStates /\ v.last = q.last /\ v.headers = NewLastHeaders(s)
    BY <1>2, <2>2, NewHeadersLemma
  <2>5. /\ Len(v.headers) <= LastN
        /\ \A n \in Int : n <= LastN /\ n <= LastN + Number[q.last] - Number[tip] =>
              EndsBelow(v.headers, q.last, n)
    BY <1>1, <1>2, <2>2, <2>4, NewHeadersWindow
  <2> HIDE DEF v
  <2>6. StoredOK(tip', lastN') /\ Above(tip, tip') /\ WindowOK(v, tip')
    BY <2>1, <2>3, <2>4, <2>5, ProvedWindow
  <2>7. ReceiveLastStateProof(s, v) = State("Ready", s.last, v, NoRequest)
    BY <2>2, ReceiveLastStateProofLemma
  <2>8. WindowState(State("Ready", s.last, v, NoRequest), tip')
    BY <2>3, <2>6, WindowParts
  <2> QED
    BY <2>1, <2>6, <2>7, <2>8, OneMovesWindow
<1>4. ASSUME NEW r, RequestOK(s.prove, r, tip), tip' = tip, lastN' = lastN,
             state' = [state EXCEPT ![p] = RequestLastStateProof(s, r)]
      PROVE  WindowInv'
  <2> HIDE DEF s
  <2>1. s.name \in Provable /\ s \in PeerStates
    BY <1>1, <1>2, OpenRequest, GoodFields
  <2>2. PICK n : RequestLastStateProof(s, r) = State(n, s.last, s.prove, r)
    BY <2>1, RequestLastStateProofLemma
  <2>3. WindowState(State(n, s.last, s.prove, r), tip')
    BY <1>2, <1>4, WindowParts DEF WindowState
  <2> QED
    BY <1>4, <2>2, <2>3, TipStays, OneMovesWindow
<1>5. q # NoRequest /\ q \in Requests /\ RequestOK(s.prove, q, tip)
  BY <1>1, <1>2, OpenRequest DEF WindowState
<1>6. CASE AskFromGenesis(p)
  <2> DEFINE r == ProveRequest(q.last, Genesis, FALSE, TRUE)
  <2>1. /\ state' = [state EXCEPT ![p] = RequestLastStateProof(s, r)]
        /\ tip' = tip /\ lastN' = lastN
    BY <1>6 DEF AskFromGenesis
  <2>2. r.last = q.last /\ r.longFork
    BY DEF ProveRequest
  <2> HIDE DEF r, q
  <2>3. RequestOK(s.prove, r, tip)
    BY <1>5, <2>2 DEF RequestOK
  <2> QED
    BY <1>4, <2>1, <2>3
<1>7. CASE AskAgainWithoutTau(p)
  <2> DEFINE again == BuildProveRequest(s, q.last, TRUE)
             closed == [q EXCEPT !.open = FALSE]
  <2>1. tip' = tip /\ lastN' = lastN
    BY <1>7 DEF AskAgainWithoutTau
  <2>2. PICK r \in IF again = {} THEN {closed} ELSE again :
               state' = [state EXCEPT ![p] = RequestLastStateProof(s, r)]
    BY <1>7 DEF AskAgainWithoutTau
  <2>3. r = closed \/ r \in again
    BY <2>2
  <2>4. RequestOK(s.prove, r, tip)
    <3>1. CASE r \in again
      <4>1. q.last \in Heads
        BY <1>5 DEF RequestOK
      <4> QED
        BY <1>2, <3>1, <4>1, BuildWindow
    <3>2. CASE r = closed
      <4> HIDE DEF q
      <4>1. closed.last = q.last /\ closed.start = q.start /\ closed.longFork = q.longFork
        BY <1>5 DEF Requests
      <4> QED
        BY <1>5, <3>2, <4>1 DEF RequestOK
    <3> QED
      BY <2>3, <3>1, <3>2
  <2> QED
    BY <1>4, <2>1, <2>2, <2>4
<1> QED
  BY <1>1, <1>3, <1>6, <1>7

\* Peers come and go.
LEMMA ComeAndGoWindow ==
    ASSUME PeersOK, WindowInv, \/ \E p \in Peers : Connected(p) \/ Disconnected(p)
                               \/ Restart
    PROVE  WindowInv'
<1>1. Absent = State("Absent", NoBlock, NoProve, NoRequest)
  BY DEF Absent, State
<1>2. RequestLastState(Initialized) = State("RequestFirstLastState", NoBlock, NoProve, NoRequest)
  BY DEF RequestLastState, Transition, Initialized, Absent, State
<1>3. WindowState(Absent, tip) /\ WindowState(RequestLastState(Initialized), tip)
  BY <1>1, <1>2, WindowParts
<1>4. ASSUME NEW p \in Peers, Connected(p) PROVE WindowInv'
  <2>1. /\ tip' = tip /\ lastN' = lastN
        /\ state' = [state EXCEPT ![p] = RequestLastState(Initialized)]
    BY <1>4 DEF Connected
  <2>2. WindowState(RequestLastState(Initialized), tip')
    BY <1>3, <2>1
  <2> QED
    BY <2>1, <2>2, TipStays, OneMovesWindow
<1>5. ASSUME NEW p \in Peers, Disconnected(p) PROVE WindowInv'
  <2>1. tip' = tip /\ lastN' = lastN /\ state' = [state EXCEPT ![p] = Absent]
    BY <1>5 DEF Disconnected
  <2>2. WindowState(Absent, tip')
    BY <1>3, <2>1
  <2> QED
    BY <2>1, <2>2, TipStays, OneMovesWindow
<1>6. CASE Restart
  <2>1. state' = [p \in Peers |-> Absent] /\ tip' = tip /\ lastN' = lastN
    BY <1>6 DEF Restart
  <2> QED
    BY <1>3, <2>1 DEF WindowInv
<1> QED
  BY <1>4, <1>5, <1>6

\* The refresh timer asks for last states and proofs.
LEMMA RefreshWindow ==
    ASSUME Regular, Inv, WindowInv, RefreshAllPeers \/ \E p \in Peers : RefreshProof(p)
    PROVE  WindowInv'
<1>1. PeersOK
  BY DEF Inv
<1>2. CASE RefreshAllPeers
  <2>1. PICK old : /\ state' = [p \in Peers |-> IF RequireNewLastState(state[p], p \in old)
                                                THEN RequestLastState(state[p]) ELSE state[p]]
                   /\ tip' = tip /\ lastN' = lastN
    <3>1. PICK old \in IF Jitter THEN SUBSET Peers ELSE {aged} :
            LET asked == {p \in Peers : RequireNewLastState(state[p], p \in old)}
            IN  /\ state' = [p \in Peers |->
                      IF p \in asked THEN RequestLastState(state[p]) ELSE state[p]]
                /\ todo' = {p \in Peers : RequireNewLastStateProof(state'[p])}
                /\ aged' = {p \in Peers : state[p].last # NoBlock}
                /\ UNCHANGED <<tip, lastN, losses>>
      BY <1>2, Zenon DEF RefreshAllPeers
    <3> QED
      BY <3>1
  <2>2. ASSUME NEW p \in Peers PROVE WindowState(state'[p], tip)
    <3> DEFINE s == state[p]
    <3>1. GoodState(s) /\ WindowState(s, tip)
      BY <1>1 DEF PeersOK, WindowInv
    <3>2. state'[p] = IF RequireNewLastState(s, p \in old) THEN RequestLastState(s) ELSE s
      BY <2>1
    <3> HIDE DEF s
    <3>3. CASE ~ RequireNewLastState(s, p \in old)
      BY <3>1, <3>2, <3>3
    <3>4. CASE RequireNewLastState(s, p \in old)
      <4>1. s.name \in {"OnlyHasLastState", "Ready"} /\ s \in PeerStates
        BY <3>1, <3>4, GoodFields DEF RequireNewLastState, Names
      <4>2. PICK n : RequestLastState(s) = State(n, s.last, s.prove, s.request)
        BY <4>1, RequestLastStateLemma
      <4>3. WindowState(State(n, s.last, s.prove, s.request), tip)
        BY <3>1, WindowParts DEF WindowState
      <4> QED
        BY <3>2, <3>4, <4>2, <4>3
    <3> QED
      BY <3>3, <3>4
  <2> QED
    BY <2>1, <2>2 DEF WindowInv
<1>3. ASSUME NEW p \in Peers, RefreshProof(p) PROVE WindowInv'
  <2>1. p \in todo /\ tip' = tip /\ lastN' = lastN
    BY <1>3 DEF RefreshProof
  <2>2. PICK t \in GetLastStateProof(state[p]) : state' = [state EXCEPT ![p] = t]
    BY <1>3 DEF RefreshProof
  <2>3. GoodState(state[p]) /\ WindowState(state[p], tip) /\ state[p].name \in Provable
    BY <1>1, <2>1 DEF PeersOK, WindowInv, Inv, TodoInv, Provable
  <2>4. WindowState(t, tip')
    BY <1>1, <2>1, <2>3, GetProofWindow
  <2> QED
    BY <1>1, <2>1, <2>2, <2>4, TipStays, OneMovesWindow
<1> QED
  BY <1>2, <1>3

LEMMA WindowInit == Init => WindowInv
<1> SUFFICES ASSUME Init PROVE WindowInv
  OBVIOUS
<1>1. Absent = State("Absent", NoBlock, NoProve, NoRequest)
  BY DEF Absent, State
<1>2. WindowState(Absent, tip)
  BY <1>1, WindowParts
<1>3. state = [p \in Peers |-> Absent] /\ tip = Genesis /\ lastN = <<>>
  BY DEF Init
<1> QED
  BY <1>2, <1>3 DEF WindowInv, StoredOK

LEMMA WindowStep ==
    ASSUME Regular, Inv, WindowInv, [Next]_vars
    PROVE  WindowInv'
<1>1. PeersOK
  BY DEF Inv
<1>2. CASE UNCHANGED vars
  BY <1>2 DEF vars, WindowInv
<1>3. ASSUME NEW p \in Peers, NEW b \in Heads, SendLastState(p, b) \/ ProofWithNewState(p, b)
      PROVE  WindowInv'
  BY <1>1, <1>3, SendLastStateWindow, ProofWithNewStateWindow
<1>4. ASSUME NEW p \in Peers, SendLastStateProof(p) PROVE WindowInv'
  BY <1>1, <1>4, SendLastStateProofWindow
<1> QED
  BY <1>1, <1>2, <1>3, <1>4, ComeAndGoWindow, RefreshWindow DEF Next

LEMMA WindowGives ==
    ASSUME Regular, Inv, WindowInv
    PROVE  HeadersAreContinuous
<1>1. tip \in Blocks /\ Number[tip] \in Nat /\ LastN \in Nat /\ StoredOK(tip, lastN)
  BY ChainAssumption DEF Inv, PeersOK, WindowInv
<1>2. Len(lastN) <= LastN
  <2>1. tip = Genesis => Len(lastN) = 0
    BY <1>1 DEF StoredOK
  <2> QED
    BY <1>1, <2>1 DEF StoredOK
<1>3. ASSUME NEW p \in Peers, state[p].prove # NoProve
      PROVE  LET v == state[p].prove
             IN  /\ Len(v.headers) <= LastN
                 /\ EndsBelow(v.headers, v.last, LastN - Behind(v.last))
  <2> DEFINE v == state[p].prove
  <2>1. WindowOK(v, tip) /\ GoodState(state[p])
    BY <1>3 DEF WindowInv, WindowState, Inv, PeersOK
  <2>2. v.last \in Blocks
    BY <1>3, <2>1, GoodFields, NoBlockLemma
  <2> HIDE DEF v
  <2>3. Number[v.last] <= Number[tip]
    BY <1>1, <2>1, TipLemma DEF WindowOK, WindowInv, StoredOK
  <2>4. LastN + Number[v.last] - Number[tip] = LastN - Behind(v.last)
    BY <1>1, <2>2, <2>3, ChainAssumption DEF Behind
  <2> QED
    BY <2>1, <2>4 DEF WindowOK, v
<1> QED
  BY <1>1, <1>2, <1>3 DEF HeadersAreContinuous, StoredOK

\* LAST_N_HEADERS is the window of the last headers below the stored tip, and the
\* list of a peer is one as far as it is not behind the tip: for every window, any
\* peers and every tree whose heads are above the window and not lower when they
\* are heavier, over reorgs, copies, lost peers and restarts.  FilterSync relies
\* on this when it takes the stored headers for LastHeaders(tip).
THEOREM WindowCorrect ==
    ASSUME TallHeads, HeavierIsHigher
    PROVE  Spec => []HeadersAreContinuous
<1>1. Regular
  BY DEF Regular
<1>2. Inv /\ WindowInv /\ [Next]_vars => WindowInv'
  BY <1>1, WindowStep
<1>3. Inv /\ WindowInv => HeadersAreContinuous
  BY <1>1, WindowGives
<1> QED
  BY <1>2, <1>3, WindowInit, InvariantHolds, PTL DEF Spec
=============================================================================
