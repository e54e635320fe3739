---------------------------- MODULE CheckPoints ----------------------------
(***************************************************************************)
(* Check points of block filter hashes: every CHECK_POINT_INTERVAL blocks   *)
(* the peers report one, the filter task appends it to the peer's list, and *)
(* the refresh timer of the light client task stores the ones that enough   *)
(* peers agree on.  Block numbers are counted in intervals: a check point   *)
(* is known by its index, and a proved number by the interval it is in.     *)
(***************************************************************************)
EXTENDS Integers, FiniteSets, Sequences

CONSTANTS
    Peers,        \* peer indexes
    Faulty,       \* the peers that do not report the check points of the chain
    Wrong,        \* a check point hash that is not of the chain
    Required,     \* required_peers_count
    MaxIndex,     \* bound: the interval that the chain reaches
    MaxAnswer,    \* bound: check points in one answer
    MaxRequests,  \* bound: requests to one peer without an answer
    MaxLosses     \* bound: restarts, crashes and disconnections

ASSUME CheckPointsAssumption ==
    /\ Faulty \subseteq Peers /\ IsFiniteSet(Peers)
    /\ Wrong \notin 0 .. MaxIndex
    /\ Required \in Nat \ {0} /\ MaxIndex \in Nat
    /\ MaxAnswer \in Nat /\ MaxRequests \in Nat /\ MaxLosses \in Nat

VARIABLES
    maxIndex,   \* MAX_CHECK_POINT_INDEX
    stored,     \* CheckPointIndex keys: index -> hash
    startPoint, \* Peers.start_check_point: [index, hash], read at process start
    connected,  \* the peers with an entry in Peers.inner
    proved,     \* peer -> interval of its proved number, 0 without a prove state
    first,      \* peer -> index_of_first_check_point
    points,     \* peer -> its check points, from `first` on
    asked,      \* peer -> start indexes of its unanswered requests, oldest first
    blamed,     \* peers that got a 4xx status
    losses      \* losses left

storedVars == <<maxIndex, stored>>
peerVars == <<connected, proved, first, points, asked, blamed>>
vars == <<storedVars, startPoint, peerVars, losses>>

\* The hash of the chain at an index is written as the index.
Values == 0 .. MaxIndex \cup {Wrong}

-----------------------------------------------------------------------------
(* Peers::CheckPoints *)

\* number_of_next_check_point: the last one is asked for again.
NextIndex(p) == first[p] + Len(points[p]) - 1

\* if_require_next_check_point.
IfRequireNext(p) == NextIndex(p) + 2 <= proved[p]

\* get_last_check_point.
LastCheckPoint == [index |-> maxIndex, hash |-> stored[maxIndex]]

\* add_peer.
Connected(p) ==
    /\ p \notin connected
    /\ connected' = connected \cup {p}
    /\ first' = [first EXCEPT ![p] = startPoint.index]
    /\ points' = [points EXCEPT ![p] = <<startPoint.hash>>]
    /\ UNCHANGED <<storedVars, startPoint, proved, asked, blamed, losses>>

\* remove_peer, for the peers of a set.
RemovePeers(S) ==
    /\ connected' = connected \ S
    /\ proved' = [p \in Peers |-> IF p \in S THEN 0 ELSE proved[p]]
    /\ asked' = [p \in Peers |-> IF p \in S THEN <<>> ELSE asked[p]]

\* A new prove state of p (see PeerState).
Prove(p) ==
    /\ p \in connected
    /\ \E n \in proved[p] + 1 .. MaxIndex : proved' = [proved EXCEPT ![p] = n]
    /\ UNCHANGED <<storedVars, startPoint, connected, first, points, asked, blamed, losses>>

\* The timer of GET_BLOCK_FILTER_CHECK_POINTS: it asks every peer that needs
\* more, whether or not an earlier request is still unanswered.
GetCheckPoints ==
    LET need == {p \in connected : proved[p] > 0 /\ IfRequireNext(p)
                                     /\ Len(asked[p]) < MaxRequests}
    IN  /\ need # {}
        /\ asked' = [p \in Peers |->
              IF p \in need THEN Append(asked[p], NextIndex(p)) ELSE asked[p]]
        /\ UNCHANGED <<storedVars, startPoint, connected, proved, first, points, blamed, losses>>

\* The checks of add_check_points, for an answer of hashes from `start` on.
IsExpected(p, start, hashes) ==
    /\ start = NextIndex(p)
    /\ hashes # <<>> /\ hashes[1] = points[p][Len(points[p])]
    /\ Len(hashes) >= 2

\* add_check_points: all of the new ones when the next one after them is proved,
\* else all but the last.
AddCheckPoints(p, start, hashes) ==
    LET n == IF start + Len(hashes) <= proved[p] THEN Len(hashes) ELSE Len(hashes) - 1
    IN  points[p] \o SubSeq(hashes, 2, n)

\* BlockFilterCheckPointsProcess on the answer to the oldest request; a further
\* request follows when more are needed.
BlockFilterCheckPoints(p, hashes) ==
    LET start == Head(asked[p])
        more  == AddCheckPoints(p, start, hashes)
        next  == first[p] + Len(more) - 1
    IN  /\ p \in connected /\ asked[p] # <<>>
        /\ IF proved[p] > 0 /\ IsExpected(p, start, hashes)
           THEN /\ points' = [points EXCEPT ![p] = more]
                /\ asked' = [asked EXCEPT ![p] =
                      IF next + 2 <= proved[p] THEN Append(Tail(@), next) ELSE Tail(@)]
                /\ UNCHANGED blamed
           ELSE /\ asked' = [asked EXCEPT ![p] = Tail(@)]
                /\ blamed' = IF proved[p] > 0 THEN blamed \cup {p} ELSE blamed
                /\ UNCHANGED points
        /\ UNCHANGED <<storedVars, startPoint, connected, proved, first, losses>>

\* What a full node answers: the check points of its chain, which has reached
\* at least the proved interval.  A faulty one answers anything.
Answers(p) ==
    LET at(i) == Head(asked[p]) + i - 1
    IN  IF p \in Faulty
        THEN UNION {{[i \in 1 .. n |-> IF i \in bad THEN Wrong ELSE at(i)] : bad \in SUBSET (1 .. n)} :
                       n \in {m \in 0 .. MaxAnswer : at(m) <= MaxIndex}}
        ELSE {[i \in 1 .. n |-> at(i)] :
                 n \in {m \in 1 .. MaxAnswer :
                           at(m) <= MaxIndex /\ (m = MaxAnswer \/ at(m) >= proved[p])}}

-----------------------------------------------------------------------------
(* LightClientProtocol::finalize_check_points *)

ProvedPeers == {p \in connected : proved[p] > 0}

\* The position of the last finalized check point in p's list.
Position(p) == maxIndex - first[p] + 1
IsTooLate(p) == first[p] > maxIndex
IsTooShort(p) == Position(p) > Len(points[p])
IsWrong(p) ==
    ~ IsTooLate(p) /\ ~ IsTooShort(p) /\ points[p][Position(p)] # stored[maxIndex]

BannedPeers == {p \in ProvedPeers : IsTooLate(p) \/ IsWrong(p)}
CleanPeers == {p \in ProvedPeers : ~ IsTooLate(p) /\ ~ IsTooShort(p) /\ ~ IsWrong(p)}

\* How many check points p has after the last finalized one, that one included.
Size(p) == Len(points[p]) - Position(p) + 1

\* Mutant: the smallest size.
LengthMaxSmallest ==
    CHOOSE n \in {Size(p) : p \in CleanPeers} : \A p \in CleanPeers : n <= Size(p)

\* length_max: the required_peers_count-th smallest size.
LengthMax ==
    CHOOSE n \in {Size(p) : p \in CleanPeers} :
        /\ Cardinality({p \in CleanPeers : Size(p) < n}) < Required
        /\ Cardinality({p \in CleanPeers : Size(p) <= n}) >= Required

\* The peers that report the new check points vs[1], ..., vs[i].
Voters(vs, i) ==
    {p \in CleanPeers : i < Size(p) /\ \A j \in 1 .. i : points[p][Position(p) + j] = vs[j]}
VotesFor(vs, i, v) ==
    Cardinality({p \in Voters(vs, i - 1) : i < Size(p) /\ points[p][Position(p) + i] = v})

\* Mutant: one vote is enough.
OneIsEnough(n) == n >= 1

IsEnough(n) == n >= Required

\* The loop over the new indexes: at each of them a value with the most votes of
\* the peers kept so far, as long as it has enough of them.
IsAgreed(vs) ==
    /\ \A i \in 1 .. Len(vs) :
          /\ IsEnough(VotesFor(vs, i, vs[i]))
          /\ \A v \in Values : VotesFor(vs, i, v) <= VotesFor(vs, i, vs[i])
    /\ Len(vs) < LengthMax
    /\ Len(vs) + 1 < LengthMax =>
          \A v \in Values : ~ IsEnough(VotesFor(vs, Len(vs) + 1, v))

\* check_points[1..=index] of a peer, for every index.
NewCheckPoints ==
    {SubSeq(points[q[1]], Position(q[1]) + 1, Position(q[1]) + q[2]) :
        q \in {r \in CleanPeers \X (0 .. MaxIndex) : r[2] < Size(r[1])}}

\* Mutant: the first new value is stored at the last finalized index.
StoreCheckPointsEarly(vs) ==
    stored' = [i \in DOMAIN stored \cup (maxIndex .. maxIndex + Len(vs) - 1) |->
                  IF i \in maxIndex .. maxIndex + Len(vs) - 1
                  THEN vs[i - maxIndex + 1] ELSE stored[i]]

\* update_check_points.
StoreCheckPoints(vs) ==
    stored' = [i \in DOMAIN stored \cup (maxIndex + 1 .. maxIndex + Len(vs)) |->
                  IF i \in maxIndex + 1 .. maxIndex + Len(vs)
                  THEN vs[i - maxIndex] ELSE stored[i]]

\* Mutants: one check point too many is removed, or counted as removed.
TrimmedShort(p) == SubSeq(points[p], Position(p) + 1, Len(points[p]))
FirstAfterTrimPlusOne(p) == maxIndex + 1

\* remove_first_n_check_points(p, last_cpindex - start_cpindex).
Trimmed(p) == SubSeq(points[p], Position(p), Len(points[p]))
FirstAfterTrim(p) == first[p] + (maxIndex - first[p])

FinalizeCheckPoints ==
    /\ Cardinality(ProvedPeers) >= Required
    /\ RemovePeers(BannedPeers)
    /\ first' = [p \in Peers |-> IF p \in CleanPeers THEN FirstAfterTrim(p) ELSE first[p]]
    /\ points' = [p \in Peers |-> IF p \in CleanPeers THEN Trimmed(p) ELSE points[p]]
    /\ IF Cardinality(CleanPeers) < Required
       THEN UNCHANGED storedVars
       ELSE \E vs \in NewCheckPoints :
               /\ IsAgreed(vs)
               /\ StoreCheckPoints(vs)
               /\ maxIndex' = maxIndex + Len(vs)
    /\ UNCHANGED <<startPoint, blamed, losses>>

-----------------------------------------------------------------------------
(* Losses *)

Disconnected(p) ==
    /\ losses > 0 /\ p \in connected
    /\ losses' = losses - 1
    /\ RemovePeers({p})
    /\ UNCHANGED <<storedVars, startPoint, first, points, blamed>>

\* The process starts again; a crash in finalize_check_points may have come
\* between update_check_points and update_max_check_point_index.
Restart ==
    /\ losses > 0
    /\ losses' = losses - 1
    /\ RemovePeers(Peers)
    /\ \/ UNCHANGED stored
       \/ /\ Cardinality(CleanPeers) >= Required
          /\ \E vs \in NewCheckPoints : IsAgreed(vs) /\ StoreCheckPoints(vs)
    /\ startPoint' = LastCheckPoint
    /\ UNCHANGED <<maxIndex, first, points, blamed>>

-----------------------------------------------------------------------------
(* The specification *)

\* After init_genesis_block: the filter hash of the genesis block.
Init ==
    /\ maxIndex = 0 /\ stored = [i \in {0} |-> 0]
    /\ startPoint = LastCheckPoint
    /\ connected = {} /\ blamed = {}
    /\ proved = [p \in Peers |-> 0]
    /\ first = [p \in Peers |-> 0]
    /\ points = [p \in Peers |-> <<0>>]
    /\ asked = [p \in Peers |-> <<>>]
    /\ losses = MaxLosses

Answer(p) == \E hashes \in Answers(p) : BlockFilterCheckPoints(p, hashes)

Next ==
    \/ \E p \in Peers : Connected(p) \/ Prove(p) \/ Disconnected(p)
    \/ \E p \in Peers : asked[p] # <<>> /\ Answer(p)
    \/ GetCheckPoints \/ FinalizeCheckPoints \/ Restart

Spec == Init /\ [][Next]_vars

\* The timers fire, and the full nodes connect, are proved and answer.
Fairness ==
    /\ WF_vars(GetCheckPoints) /\ WF_vars(FinalizeCheckPoints)
    /\ \A p \in Peers \ Faulty :
          WF_vars(Connected(p)) /\ WF_vars(Prove(p)) /\ WF_vars(asked[p] # <<>> /\ Answer(p))

FairSpec == Spec /\ Fairness

-----------------------------------------------------------------------------
(* Properties *)

\* The types; there is a value at every finalized index, and a peer's list is
\* never empty ("Do NOT leak any API that could make this vector be empty") and
\* never beyond the chain.
TypeOK ==
    /\ maxIndex \in 0 .. MaxIndex
    /\ 0 .. maxIndex \subseteq DOMAIN stored /\ DOMAIN stored \subseteq 0 .. MaxIndex
    /\ stored \in [DOMAIN stored -> Values]
    /\ startPoint \in [index : 0 .. MaxIndex, hash : Values]
    /\ connected \cup blamed \subseteq Peers
    /\ proved \in [Peers -> 0 .. MaxIndex]
    /\ first \in [Peers -> 0 .. MaxIndex]
    /\ points \in [Peers -> Seq(Values)]
    /\ \A p \in Peers : points[p] # <<>> /\ NextIndex(p) <= MaxIndex
    /\ asked \in [Peers -> Seq(0 .. MaxIndex)]
    /\ losses \in 0 .. MaxLosses

\* "Impossible, in fact" (finalize_check_points): no peer's list starts after the
\* last finalized check point, whatever peers connect, get trimmed or are banned
\* while check points are finalized and the process restarts.
StartsAreFinalized == \A p \in connected : first[p] <= maxIndex

\* With fewer faulty peers than required, every finalized check point is the one
\* of the chain, also where a crash had left values above the finalized index.
FinalizedIsRight ==
    Cardinality(Faulty) < Required =>
        \A i \in 0 .. maxIndex : i \in DOMAIN stored /\ stored[i] = i

\* With fewer faulty peers than required, finalize_check_points never bans a peer
\* that reports the check points of the chain.
OnlyFaultyBanned ==
    [][(Cardinality(Faulty) < Required /\ FinalizeCheckPoints)
          => (connected \ connected') \subseteq Faulty]_vars

\* A finalized check point is final: the index never goes back and the values up
\* to it never change, over restarts and crashes.
FinalizedIsStable ==
    [][/\ maxIndex <= maxIndex'
       /\ \A i \in 0 .. maxIndex : stored'[i] = stored[i]]_vars

\* With enough peers that are not faulty, and fewer faulty ones than required,
\* all check points but the last two intervals are finalized in the end.
EventuallyFinalized ==
    (/\ Cardinality(Faulty) < Required
     /\ Cardinality(Peers \ Faulty) >= Required) => <>(maxIndex + 1 >= MaxIndex)

\* "4xx: Remote errors - The error seems to have been caused by the remote (the
\* server)" (status.rs): a peer that answers each request with the check points
\* of its chain gets no 4xx status.
OnlyFaultyBlamed == blamed \subseteq Faulty
=============================================================================
