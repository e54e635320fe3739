------------------------- MODULE CheckPointsProofs -------------------------
(***************************************************************************)
(* Theorems about CheckPoints, for any peers, any faulty ones among them    *)
(* and any required_peers_count: the types, that a finalized check point is *)
(* final, and that with fewer faulty peers than required it is the one of   *)
(* the chain and nobody else is banned.                                     *)
(***************************************************************************)
EXTENDS CheckPoints, FiniteSetTheorems, SequenceTheorems, TLAPS

Indexes == 0 .. MaxIndex

\* A list s of check points from the index f on: not empty and within the chain.
ListOK(f, s) == s \in Seq(Values) /\ s # <<>> /\ f + Len(s) - 1 <= MaxIndex

\* The check points of the chain from the index f on.
IsOfChain(f, s) == \A k \in 1 .. Len(s) : s[k] = f + k - 1

-----------------------------------------------------------------------------
(* The lists of the peers.                                                   *)

LEMMA ListLemma ==
    ASSUME TypeOK, NEW p \in Peers
    PROVE  /\ first[p] \in Indexes /\ ListOK(first[p], points[p])
           /\ Len(points[p]) \in Nat \ {0}
           /\ DOMAIN points[p] = 1 .. Len(points[p])
           /\ \A k \in 1 .. Len(points[p]) : points[p][k] \in Values
           /\ NextIndex(p) \in Indexes
<1>1. first[p] \in Indexes /\ ListOK(first[p], points[p])
  BY DEF TypeOK, ListOK, NextIndex, Indexes
<1>2. points[p] \in Seq(Values) /\ points[p] # <<>>
  BY <1>1 DEF ListOK
<1>3. /\ Len(points[p]) \in Nat /\ points[p] \in [1 .. Len(points[p]) -> Values]
      /\ DOMAIN points[p] = 1 .. Len(points[p])
  BY <1>2, LenProperties
<1>4. Len(points[p]) # 0
  BY <1>2, EmptySeq
<1>5. NextIndex(p) \in Indexes
  BY <1>1, <1>3, <1>4, CheckPointsAssumption DEF NextIndex, ListOK, Indexes
<1> QED
  BY <1>1, <1>3, <1>4, <1>5

\* Some of the entries of a list.
LEMMA SliceLemma ==
    ASSUME NEW S, NEW s \in Seq(S), NEW a \in Nat, NEW b \in Nat, a <= b, b <= Len(s)
    PROVE  /\ SubSeq(s, a + 1, b) \in Seq(S)
           /\ Len(SubSeq(s, a + 1, b)) = b - a
           /\ \A k \in 1 .. b - a : SubSeq(s, a + 1, b)[k] = s[a + k]
<1>1. Len(s) \in Nat /\ s \in [1 .. Len(s) -> S]
  BY LenProperties
<1>2. \A i \in a + 1 .. b : i \in 1 .. Len(s)
  BY <1>1
<1>3. \A i \in a + 1 .. b : s[i] \in S
  BY <1>1, <1>2
<1> DEFINE m == a + 1
<1>4. m \in Int /\ b \in Int /\ \A i \in m .. b : s[i] \in S
  BY <1>3
<1>5. /\ SubSeq(s, m, b) \in Seq(S)
      /\ Len(SubSeq(s, m, b)) = IF m <= b THEN b - m + 1 ELSE 0
      /\ \A i \in 1 .. b - m + 1 : SubSeq(s, m, b)[i] = s[m + i - 1]
  <2> HIDE DEF m
  <2> QED
    BY ONLY <1>4, SubSeqProperties
<1>6. Len(SubSeq(s, m, b)) = b - a
  BY <1>5
<1>7. ASSUME NEW k \in 1 .. b - a
      PROVE  SubSeq(s, m, b)[k] = s[a + k]
  <2>1. k \in 1 .. b - m + 1 /\ m + k - 1 = a + k
    OBVIOUS
  <2> QED
    BY <1>5, <2>1
<1> QED
  BY <1>5, <1>6, <1>7

\* A list without its first entries.
LEMMA SuffixLemma ==
    ASSUME NEW S, NEW s \in Seq(S), NEW n \in 1 .. Len(s)
    PROVE  /\ SubSeq(s, n, Len(s)) \in Seq(S)
           /\ Len(SubSeq(s, n, Len(s))) = Len(s) - n + 1
           /\ \A k \in 1 .. Len(s) - n + 1 : SubSeq(s, n, Len(s))[k] = s[n + k - 1]
<1>1. Len(s) \in Nat /\ s \in [1 .. Len(s) -> S]
  BY LenProperties
<1>2. \A i \in n .. Len(s) : s[i] \in S
  BY <1>1
<1> QED
  BY <1>1, <1>2, SubSeqProperties

\* The last finalized check point is in the list of a clean peer.
LEMMA CleanLemma ==
    ASSUME TypeOK, NEW p \in CleanPeers
    PROVE  /\ p \in Peers /\ p \in connected /\ first[p] <= maxIndex
           /\ Position(p) \in 1 .. Len(points[p])
           /\ first[p] + Position(p) - 1 = maxIndex
           /\ points[p][Position(p)] = stored[maxIndex]
           /\ Size(p) \in 1 .. Len(points[p])
           /\ maxIndex + Size(p) - 1 <= MaxIndex
<1>1. p \in Peers /\ p \in connected /\ ~IsTooLate(p) /\ ~IsTooShort(p) /\ ~IsWrong(p)
  BY DEF CleanPeers, ProvedPeers, TypeOK
<1>2. first[p] \in Indexes /\ Len(points[p]) \in Nat \ {0} /\ maxIndex \in Indexes
        /\ first[p] + Len(points[p]) - 1 <= MaxIndex /\ MaxIndex \in Nat
  BY <1>1, ListLemma, CheckPointsAssumption DEF ListOK, TypeOK, Indexes
<1>3. first[p] <= maxIndex /\ Position(p) <= Len(points[p])
  BY <1>1, <1>2 DEF IsTooLate, IsTooShort, Position, Indexes
<1>4. Position(p) \in 1 .. Len(points[p]) /\ first[p] + Position(p) - 1 = maxIndex
  BY <1>2, <1>3 DEF Position, Indexes
<1>5. Size(p) \in 1 .. Len(points[p]) /\ maxIndex + Size(p) - 1 <= MaxIndex
  <2>1. Size(p) = Len(points[p]) - Position(p) + 1
    BY DEF Size
  <2>2. /\ Len(points[p]) \in Nat /\ Position(p) \in Nat /\ 1 <= Position(p)
        /\ Position(p) <= Len(points[p])
    BY <1>2, <1>4
  <2>3. Size(p) \in 1 .. Len(points[p])
    BY <2>1, <2>2
  <2>4. maxIndex + Size(p) - 1 = first[p] + Len(points[p]) - 1
    BY <1>2, <1>4, <2>1, <2>2 DEF Indexes
  <2> QED
    BY <1>2, <2>3, <2>4
<1> QED
  BY <1>1, <1>3, <1>4, <1>5 DEF IsWrong

\* The list of a clean peer starts at the last finalized check point after it is
\* trimmed, and no check point changes its index.
LEMMA TrimLemma ==
    ASSUME TypeOK, NEW p \in CleanPeers
    PROVE  /\ FirstAfterTrim(p) = maxIndex /\ ListOK(maxIndex, Trimmed(p))
           /\ Len(Trimmed(p)) = Size(p)
           /\ \A k \in 1 .. Size(p) : Trimmed(p)[k] = points[p][Position(p) + k - 1]
<1>1. /\ p \in Peers /\ Position(p) \in 1 .. Len(points[p]) /\ Size(p) \in 1 .. Len(points[p])
      /\ maxIndex + Size(p) - 1 <= MaxIndex
  BY CleanLemma
<1>2. points[p] \in Seq(Values) /\ Len(points[p]) \in Nat
  BY <1>1, ListLemma DEF ListOK
<1>3. /\ Trimmed(p) \in Seq(Values)
      /\ Len(Trimmed(p)) = Len(points[p]) - Position(p) + 1
      /\ \A k \in 1 .. Len(points[p]) - Position(p) + 1 :
            Trimmed(p)[k] = points[p][Position(p) + k - 1]
  BY <1>1, <1>2, SuffixLemma DEF Trimmed
<1>4. Len(Trimmed(p)) = Size(p)
  BY <1>3 DEF Size
<1>5. Trimmed(p) # <<>>
  BY <1>1, <1>2, <1>4, EmptySeq
<1>6. FirstAfterTrim(p) = maxIndex
  BY <1>1, ListLemma DEF FirstAfterTrim, Indexes, TypeOK
<1> QED
  BY <1>1, <1>3, <1>4, <1>5, <1>6 DEF ListOK, Size

\* New check points are within the chain.
LEMMA NewLemma ==
    ASSUME TypeOK, NEW vs \in NewCheckPoints
    PROVE  vs \in Seq(Values) /\ Len(vs) \in Nat /\ maxIndex + Len(vs) <= MaxIndex
<1>1. PICK q \in CleanPeers \X (0 .. MaxIndex) :
         /\ q[2] < Size(q[1])
         /\ vs = SubSeq(points[q[1]], Position(q[1]) + 1, Position(q[1]) + q[2])
  BY DEF NewCheckPoints
<1> DEFINE p == q[1]
           n == q[2]
<1>2. p \in CleanPeers /\ n \in Nat /\ n < Size(p)
        /\ vs = SubSeq(points[p], Position(p) + 1, Position(p) + n)
  BY <1>1
<1> HIDE DEF p, n
<1>3. /\ p \in Peers /\ Position(p) \in 1 .. Len(points[p]) /\ Size(p) \in 1 .. Len(points[p])
      /\ maxIndex + Size(p) - 1 <= MaxIndex
  BY <1>2, CleanLemma
<1>4. Len(points[p]) \in Nat /\ \A k \in 1 .. Len(points[p]) : points[p][k] \in Values
  BY <1>3, ListLemma
<1>5. Position(p) + n <= Len(points[p])
  BY <1>2, <1>3, <1>4 DEF Size
<1>7. vs \in Seq(Values) /\ Len(vs) = n
  <2>1. /\ points[p] \in Seq(Values) /\ Position(p) \in Nat /\ Position(p) + n \in Nat
        /\ Position(p) <= Position(p) + n
    BY <1>2, <1>3, <1>4, ListLemma DEF ListOK
  <2>2. vs \in Seq(Values) /\ Len(vs) = (Position(p) + n) - Position(p)
    BY <1>2, <1>5, <2>1, SliceLemma
  <2>3. (Position(p) + n) - Position(p) = n
    <3>1. Position(p) \in Nat /\ n \in Nat
      BY <1>2, <2>1
    <3> QED
      BY ONLY <3>1
  <2> QED
    BY <2>2, <2>3
<1>8. maxIndex + n <= MaxIndex
  <2>1. maxIndex \in Nat /\ MaxIndex \in Nat /\ Size(p) \in Nat
    BY <1>3, <1>4, CheckPointsAssumption DEF TypeOK
  <2> QED
    BY <1>2, <1>3, <2>1
<1> QED
  BY <1>2, <1>7, <1>8

\* update_check_points fills the indexes after the last finalized one and leaves
\* the finalized ones alone.
LEMMA StoreLemma ==
    ASSUME TypeOK, NEW vs \in NewCheckPoints, StoreCheckPoints(vs)
    PROVE  /\ 0 .. maxIndex + Len(vs) \subseteq DOMAIN stored'
           /\ DOMAIN stored' \subseteq 0 .. MaxIndex
           /\ stored' \in [DOMAIN stored' -> Values]
           /\ \A i \in 0 .. maxIndex : stored'[i] = stored[i]
           /\ \A i \in 1 .. Len(vs) : stored'[maxIndex + i] = vs[i]
<1> DEFINE D == maxIndex + 1 .. maxIndex + Len(vs)
<1>1. /\ vs \in Seq(Values) /\ Len(vs) \in Nat /\ maxIndex + Len(vs) <= MaxIndex
      /\ vs \in [1 .. Len(vs) -> Values] /\ maxIndex \in Nat /\ MaxIndex \in Nat
  BY NewLemma, LenProperties, CheckPointsAssumption DEF TypeOK
<1>2. /\ 0 .. maxIndex \subseteq DOMAIN stored /\ DOMAIN stored \subseteq 0 .. MaxIndex
      /\ \A i \in DOMAIN stored : stored[i] \in Values
  BY DEF TypeOK
<1>3. stored' = [i \in DOMAIN stored \cup D |-> IF i \in D THEN vs[i - maxIndex] ELSE stored[i]]
  BY DEF StoreCheckPoints
<1>4. /\ \A i \in D : i \in 0 .. MaxIndex /\ i - maxIndex \in 1 .. Len(vs)
      /\ \A i \in 0 .. maxIndex + Len(vs) : i \in 0 .. maxIndex \/ i \in D
      /\ \A i \in 0 .. maxIndex : i \notin D
      /\ \A i \in 1 .. Len(vs) : maxIndex + i \in D /\ (maxIndex + i) - maxIndex = i
  BY <1>1
<1> HIDE DEF D
<1>5. \A i \in D : vs[i - maxIndex] \in Values
  BY <1>1, <1>4
<1>6. DOMAIN stored' = DOMAIN stored \cup D
  BY <1>3
<1>7. stored' \in [DOMAIN stored' -> Values]
  BY <1>2, <1>3, <1>5
<1>8. ASSUME NEW i \in 1 .. Len(vs) PROVE stored'[maxIndex + i] = vs[i]
  BY <1>3, <1>4
<1>9. ASSUME NEW i \in 0 .. maxIndex PROVE stored'[i] = stored[i]
  BY <1>2, <1>3, <1>4
<1> QED
  BY <1>2, <1>4, <1>6, <1>7, <1>8, <1>9

\* An answer stays within the chain, and a full node answers with its chain.
LEMMA AnswersLemma ==
    ASSUME TypeOK, NEW p \in Peers, asked[p] # <<>>, NEW hashes \in Answers(p)
    PROVE  /\ Head(asked[p]) \in Indexes /\ hashes \in Seq(Values)
           /\ Head(asked[p]) + Len(hashes) - 1 <= MaxIndex
           /\ p \notin Faulty => IsOfChain(Head(asked[p]), hashes)
<1> DEFINE start == Head(asked[p])
           at(i) == start + i - 1
<1>1. start \in Indexes
  BY HeadTailProperties DEF TypeOK, Indexes
<1> HIDE DEF start
<1>2. MaxIndex \in Nat /\ MaxAnswer \in Nat
  BY CheckPointsAssumption
<1>3. ASSUME NEW n \in 0 .. MaxAnswer, at(n) <= MaxIndex, NEW i \in 1 .. n
      PROVE  at(i) \in Values
  <2>1. at(i) \in 0 .. MaxIndex
    BY <1>1, <1>2, <1>3 DEF Indexes
  <2> QED
    BY <2>1 DEF Values
<1>4. ASSUME NEW n \in 0 .. MaxAnswer, at(n) <= MaxIndex, hashes \in [1 .. n -> Values]
      PROVE  /\ hashes \in Seq(Values) /\ Len(hashes) = n
             /\ start + Len(hashes) - 1 <= MaxIndex
  <2>1. n \in Nat
    BY <1>2
  <2>2. hashes \in Seq(Values) /\ Len(hashes) = n
    BY ONLY <1>4, <2>1
  <2> QED
    BY <1>4, <2>2
<1>5. CASE p \in Faulty
  <2>1. PICK n \in {m \in 0 .. MaxAnswer : at(m) <= MaxIndex}, bad \in SUBSET (1 .. MaxAnswer) :
           hashes = [i \in 1 .. n |-> IF i \in bad THEN Wrong ELSE at(i)]
    <3>1. PICK n \in {m \in 0 .. MaxAnswer : at(m) <= MaxIndex} :
             hashes \in {[i \in 1 .. n |-> IF i \in bad THEN Wrong ELSE at(i)] : bad \in SUBSET (1 .. n)}
      BY <1>5 DEF Answers, start
    <3>2. PICK bad \in SUBSET (1 .. n) : hashes = [i \in 1 .. n |-> IF i \in bad THEN Wrong ELSE at(i)]
      BY <3>1
    <3>3. bad \in SUBSET (1 .. MaxAnswer)
      BY <1>2
    <3> QED
      BY <3>2, <3>3
  <2>2. Wrong \in Values
    BY DEF Values
  <2>3. \A i \in 1 .. n : at(i) \in Values
    BY <1>3
  <2>4. hashes \in [1 .. n -> Values]
    BY <2>1, <2>2, <2>3
  <2> QED
    BY <1>1, <1>4, <1>5, <2>4 DEF start
<1>6. CASE p \notin Faulty
  <2>1. PICK n \in {m \in 1 .. MaxAnswer : at(m) <= MaxIndex} : hashes = [i \in 1 .. n |-> at(i)]
    BY <1>6 DEF Answers, start
  <2>2. n \in 0 .. MaxAnswer /\ at(n) <= MaxIndex
    BY <1>2
  <2>3. \A i \in 1 .. n : at(i) \in Values
    BY <1>3, <2>2
  <2>4. hashes \in [1 .. n -> Values]
    BY <2>1, <2>3
  <2>5. Len(hashes) = n
    BY <1>4, <2>2, <2>4
  <2>6. IsOfChain(start, hashes)
    BY <2>1, <2>5 DEF IsOfChain
  <2> QED
    BY <1>1, <1>4, <2>2, <2>4, <2>6 DEF start
<1> QED
  BY <1>5, <1>6

\* The list of a check points from f on is continued by the n of h that were
\* asked for and do not end after m; the first of these is the last of the list.
LEMMA EndBound ==
    ASSUME NEW f \in Nat, NEW a \in Nat, NEW n \in Nat, NEW h \in Nat, NEW m \in Nat,
           NEW start \in Nat, a # 0, 1 <= n, n <= h, start = f + a - 1, start + h - 1 <= m
    PROVE  f + (a + (n - 1)) - 1 \in 0 .. m
OBVIOUS

\* An expected answer continues the list, which stays within the chain, and of
\* the chain if both were.
LEMMA AddLemma ==
    ASSUME TypeOK, NEW p \in Peers, NEW start \in Indexes, NEW hashes \in Seq(Values),
           start + Len(hashes) - 1 <= MaxIndex, IsExpected(p, start, hashes)
    PROVE  /\ ListOK(first[p], AddCheckPoints(p, start, hashes))
           /\ first[p] + Len(AddCheckPoints(p, start, hashes)) - 1 \in Indexes
           /\ IsOfChain(first[p], points[p]) /\ IsOfChain(start, hashes)
                 => IsOfChain(first[p], AddCheckPoints(p, start, hashes))
<1> DEFINE old == points[p]
           n   == IF start + Len(hashes) <= proved[p] THEN Len(hashes) ELSE Len(hashes) - 1
           new == SubSeq(hashes, 2, n)
<1>1. /\ first[p] \in Nat /\ old \in Seq(Values) /\ Len(old) \in Nat \ {0}
      /\ Len(hashes) \in Nat /\ Len(hashes) >= 2
      /\ start = first[p] + Len(old) - 1 /\ MaxIndex \in Nat
  BY ListLemma, LenProperties, CheckPointsAssumption DEF ListOK, Indexes, IsExpected, NextIndex
<1>2. n \in Nat /\ 1 <= n /\ n <= Len(hashes)
  BY <1>1
<1> HIDE DEF n
<1>3. /\ new \in Seq(Values) /\ Len(new) = n - 1
      /\ \A k \in 1 .. n - 1 : new[k] = hashes[1 + k]
  <2>1. /\ SubSeq(hashes, 1 + 1, n) \in Seq(Values)
        /\ Len(SubSeq(hashes, 1 + 1, n)) = n - 1
        /\ \A k \in 1 .. n - 1 : SubSeq(hashes, 1 + 1, n)[k] = hashes[1 + k]
    BY <1>2, SliceLemma
  <2>2. 1 + 1 = 2
    OBVIOUS
  <2> QED
    BY <2>1, <2>2
<1>4. AddCheckPoints(p, start, hashes) = old \o new
  BY DEF AddCheckPoints, n
<1> HIDE DEF old, new
<1>5. /\ old \o new \in Seq(Values) /\ Len(old \o new) = Len(old) + Len(new)
      /\ \A i \in 1 .. Len(old) + Len(new) :
            (old \o new)[i] = IF i <= Len(old) THEN old[i] ELSE new[i - Len(old)]
  <2>1. old \in Seq(Values) /\ new \in Seq(Values)
    BY <1>1, <1>3
  <2> QED
    BY ONLY <2>1, ConcatProperties
<1>6. Len(old \o new) = Len(old) + (n - 1) /\ Len(old \o new) \in Nat /\ Len(old \o new) # 0
  <2>1. /\ Len(old) \in Nat /\ Len(old) # 0 /\ n \in Nat /\ 1 <= n
        /\ Len(new) = n - 1 /\ Len(old \o new) = Len(old) + Len(new)
    BY <1>1, <1>2, <1>3, <1>5
  <2> QED
    BY ONLY <2>1
<1>7. first[p] + Len(old \o new) - 1 \in 0 .. MaxIndex
  <2>1. /\ Len(old) \in Nat /\ n \in Nat /\ first[p] \in Nat /\ start \in Nat
        /\ start = first[p] + Len(old) - 1 /\ Len(old \o new) = Len(old) + (n - 1)
        /\ Len(hashes) \in Nat /\ n <= Len(hashes) /\ 1 <= n /\ Len(old) # 0
        /\ start + Len(hashes) - 1 <= MaxIndex /\ MaxIndex \in Nat
    BY <1>1, <1>2, <1>6 DEF Indexes
  <2> QED
    BY <2>1, EndBound
<1>8. old \o new # <<>>
  BY <1>5, <1>6, EmptySeq
<1>9. ASSUME IsOfChain(first[p], old), IsOfChain(start, hashes)
      PROVE  IsOfChain(first[p], old \o new)
  <2> SUFFICES ASSUME NEW k \in 1 .. Len(old \o new)
               PROVE  (old \o new)[k] = first[p] + k - 1
    BY DEF IsOfChain
  <2>1. (old \o new)[k] = IF k <= Len(old) THEN old[k] ELSE new[k - Len(old)]
    BY <1>5
  <2>2. CASE k <= Len(old)
    <3>1. k \in 1 .. Len(old)
      BY <1>1, <1>6, <2>2
    <3> QED
      BY <1>9, <2>1, <2>2, <3>1 DEF IsOfChain
  <2>3. CASE ~(k <= Len(old))
    <3>1. /\ k - Len(old) \in 1 .. n - 1 /\ 1 + (k - Len(old)) \in 1 .. Len(hashes)
          /\ start + (1 + (k - Len(old))) - 1 = first[p] + k - 1
      <4>1. /\ k \in Nat /\ k <= Len(old) + (n - 1) /\ ~(k <= Len(old))
            /\ first[p] \in Nat /\ Len(old) \in Nat /\ start = first[p] + Len(old) - 1
            /\ n \in Nat /\ Len(hashes) \in Nat /\ n <= Len(hashes)
        <5>1. k \in Nat /\ k <= Len(old) + (n - 1)
          BY ONLY <1>6, k \in 1 .. Len(old \o new)
        <5> QED
          BY <1>1, <1>2, <2>3, <5>1, Zenon
      <4> DEFINE a == Len(old)
                 h == Len(hashes)
                 f == first[p]
      <4>2. /\ k \in Nat /\ k <= a + (n - 1) /\ ~(k <= a) /\ f \in Nat /\ a \in Nat
            /\ start = f + a - 1 /\ n \in Nat /\ h \in Nat /\ n <= h
        BY <4>1, Zenon
      <4> HIDE DEF a, h, f
      <4>3. /\ k - a \in 1 .. n - 1 /\ 1 + (k - a) \in 1 .. h
            /\ start + (1 + (k - a)) - 1 = f + k - 1
        BY ONLY <4>2
      <4> QED
        BY <4>3 DEF a, h, f
    <3>2. (old \o new)[k] = hashes[1 + (k - Len(old))]
      BY <1>3, <2>1, <2>3, <3>1
    <3> QED
      BY <1>9, <3>1, <3>2 DEF IsOfChain
  <2> QED
    BY <2>2, <2>3
<1>10. first[p] + Len(old \o new) - 1 <= MaxIndex
  BY <1>1, <1>7
<1> QED
  BY <1>4, <1>5, <1>7, <1>8, <1>9, <1>10 DEF ListOK, Indexes, old

-----------------------------------------------------------------------------
(* Types.                                                                    *)

LEMMA RemovePeersType ==
    ASSUME TypeOK, NEW S, RemovePeers(S)
    PROVE  /\ connected' \subseteq Peers /\ proved' \in [Peers -> Indexes]
           /\ asked' \in [Peers -> Seq(Indexes)]
<1>1. <<>> \in Seq(Indexes)
  OBVIOUS
<1>2. /\ connected \subseteq Peers /\ proved \in [Peers -> Indexes]
      /\ asked \in [Peers -> Seq(Indexes)] /\ 0 \in Indexes
  BY CheckPointsAssumption DEF TypeOK, Indexes
<1> QED
  BY <1>1, <1>2 DEF RemovePeers

\* The type invariant in parts: what is stored, and the peers.
StoredOK ==
    /\ maxIndex \in Indexes
    /\ 0 .. maxIndex \subseteq DOMAIN stored /\ DOMAIN stored \subseteq Indexes
    /\ stored \in [DOMAIN stored -> Values]
    /\ startPoint \in [index : Indexes, hash : Values]
    /\ losses \in 0 .. MaxLosses

PeersOK ==
    /\ connected \subseteq Peers /\ blamed \subseteq Peers
    /\ proved \in [Peers -> Indexes] /\ asked \in [Peers -> Seq(Indexes)]

ListsOK ==
    /\ first \in [Peers -> Indexes] /\ points \in [Peers -> Seq(Values)]
    /\ \A p \in Peers : ListOK(first[p], points[p])

LEMMA TypeParts == TypeOK <=> StoredOK /\ PeersOK /\ ListsOK
BY DEF TypeOK, StoredOK, PeersOK, ListsOK, ListOK, NextIndex, Indexes

LEMMA TypePartsNext == StoredOK' /\ PeersOK' /\ ListsOK' => TypeOK'
BY DEF TypeOK, StoredOK, PeersOK, ListsOK, ListOK, NextIndex, Indexes

\* What does not change keeps its type.
LEMMA PartsUnchanged ==
    /\ StoredOK /\ UNCHANGED <<maxIndex, stored, startPoint, losses>> => StoredOK'
    /\ PeersOK /\ UNCHANGED <<connected, blamed, proved, asked>> => PeersOK'
    /\ ListsOK /\ UNCHANGED <<first, points>> => ListsOK'
BY DEF StoredOK, PeersOK, ListsOK

LEMMA ConnectedType ==
    ASSUME TypeOK, NEW p \in Peers, Connected(p)
    PROVE  TypeOK'
<1>1. StoredOK /\ PeersOK /\ ListsOK
  BY TypeParts
<1>2. startPoint.index \in Indexes /\ startPoint.hash \in Values
  BY <1>1 DEF StoredOK
<1>3. <<startPoint.hash>> \in Seq(Values) /\ Len(<<startPoint.hash>>) = 1 /\ <<startPoint.hash>> # <<>>
  BY <1>2
<1>4. ListOK(startPoint.index, <<startPoint.hash>>)
  BY <1>2, <1>3, CheckPointsAssumption DEF ListOK, Indexes
<1>5. ListsOK'
  <2>1. first' = [first EXCEPT ![p] = startPoint.index] /\ points' = [points EXCEPT ![p] = <<startPoint.hash>>]
    BY DEF Connected
  <2> QED
    BY <1>1, <1>2, <1>3, <1>4, <2>1 DEF ListsOK
<1>6. StoredOK' /\ PeersOK'
  BY <1>1 DEF Connected, StoredOK, PeersOK, storedVars
<1> QED
  BY <1>5, <1>6, TypePartsNext

LEMMA ProveType ==
    ASSUME TypeOK, NEW p \in Peers, Prove(p)
    PROVE  TypeOK'
<1>1. StoredOK /\ PeersOK /\ ListsOK
  BY TypeParts
<1>2. PICK n \in proved[p] + 1 .. MaxIndex : proved' = [proved EXCEPT ![p] = n]
  BY DEF Prove
<1>3. n \in Indexes
  BY <1>1, CheckPointsAssumption DEF PeersOK, Indexes
<1>4. PeersOK'
  BY <1>1, <1>2, <1>3 DEF Prove, PeersOK
<1> QED
  BY <1>1, <1>4, PartsUnchanged, TypePartsNext DEF Prove, storedVars

LEMMA GetCheckPointsType ==
    ASSUME TypeOK, GetCheckPoints
    PROVE  TypeOK'
<1>1. StoredOK /\ PeersOK /\ ListsOK
  BY TypeParts
<1>2. \A p \in Peers : asked[p] \in Seq(Indexes) /\ NextIndex(p) \in Indexes
  BY <1>1, ListLemma DEF PeersOK
<1>3. \A p \in Peers : Append(asked[p], NextIndex(p)) \in Seq(Indexes)
  BY <1>2, AppendProperties
<1>4. asked' \in [Peers -> Seq(Indexes)]
  BY <1>2, <1>3 DEF GetCheckPoints
<1>5. PeersOK'
  BY <1>1, <1>4 DEF GetCheckPoints, PeersOK
<1> QED
  BY <1>1, <1>5, PartsUnchanged, TypePartsNext DEF GetCheckPoints, storedVars

LEMMA AnswerType ==
    ASSUME TypeOK, NEW p \in Peers, asked[p] # <<>>, NEW hashes \in Answers(p),
           BlockFilterCheckPoints(p, hashes)
    PROVE  TypeOK'
<1> DEFINE start == Head(asked[p])
           more  == AddCheckPoints(p, start, hashes)
           next  == first[p] + Len(more) - 1
<1>1. StoredOK /\ PeersOK /\ ListsOK
  BY TypeParts
<1>2. start \in Indexes /\ hashes \in Seq(Values) /\ start + Len(hashes) - 1 <= MaxIndex
  BY AnswersLemma
<1>3. Tail(asked[p]) \in Seq(Indexes)
  BY <1>1, HeadTailProperties DEF PeersOK
<1>4. UNCHANGED <<storedVars, startPoint, connected, proved, first, losses>>
  BY DEF BlockFilterCheckPoints
<1>5. CASE /\ IsExpected(p, start, hashes) /\ points' = [points EXCEPT ![p] = more]
           /\ asked' = [asked EXCEPT ![p] =
                 IF next + 2 <= proved[p] THEN Append(Tail(@), next) ELSE Tail(@)]
           /\ UNCHANGED blamed
  <2>1. ListOK(first[p], more) /\ next \in Indexes
    BY <1>2, <1>5, AddLemma
  <2> HIDE DEF start, more, next
  <2>2. more \in Seq(Values)
    BY <2>1 DEF ListOK
  <2>3. ListsOK'
    BY <1>1, <1>4, <1>5, <2>1, <2>2 DEF ListsOK
  <2>4. Append(Tail(asked[p]), next) \in Seq(Indexes)
    BY <1>3, <2>1, AppendProperties
  <2>5. asked' \in [Peers -> Seq(Indexes)]
    BY <1>1, <1>3, <1>5, <2>4 DEF PeersOK
  <2>6. PeersOK'
    BY <1>1, <1>4, <1>5, <2>5 DEF PeersOK
  <2> QED
    BY <1>1, <1>4, <2>3, <2>6, PartsUnchanged, TypePartsNext DEF storedVars
<1>6. CASE /\ asked' = [asked EXCEPT ![p] = Tail(@)]
           /\ blamed' = IF proved[p] > 0 THEN blamed \cup {p} ELSE blamed
           /\ UNCHANGED points
  <2>1. PeersOK'
    BY <1>1, <1>3, <1>4, <1>6 DEF PeersOK
  <2> QED
    BY <1>1, <1>4, <1>6, <2>1, PartsUnchanged, TypePartsNext DEF storedVars
<1> QED
  BY <1>5, <1>6 DEF BlockFilterCheckPoints

\* What finalize_check_points does to what is stored, also when it crashes
\* between update_check_points and update_max_check_point_index.
LEMMA FinalizeStored ==
    ASSUME TypeOK, FinalizeCheckPoints
    PROVE  \/ UNCHANGED storedVars
           \/ \E vs \in NewCheckPoints :
                 IsAgreed(vs) /\ StoreCheckPoints(vs) /\ maxIndex' = maxIndex + Len(vs)
BY DEF FinalizeCheckPoints

LEMMA FinalizeType ==
    ASSUME TypeOK, FinalizeCheckPoints
    PROVE  TypeOK'
<1>1. StoredOK /\ PeersOK /\ ListsOK
  BY TypeParts
<1>2. UNCHANGED <<startPoint, blamed, losses>> /\ RemovePeers(BannedPeers)
  BY DEF FinalizeCheckPoints
<1>3. PeersOK'
  BY <1>1, <1>2, RemovePeersType DEF PeersOK
<1>4. StoredOK'
  <2>1. CASE UNCHANGED storedVars
    BY <1>1, <1>2, <2>1, PartsUnchanged DEF storedVars
  <2>2. ASSUME NEW vs \in NewCheckPoints, StoreCheckPoints(vs), maxIndex' = maxIndex + Len(vs)
        PROVE  StoredOK'
    <3>1. maxIndex' \in Indexes
      BY <1>1, <2>2, NewLemma, CheckPointsAssumption DEF StoredOK, Indexes
    <3>2. /\ 0 .. maxIndex' \subseteq DOMAIN stored' /\ DOMAIN stored' \subseteq Indexes
          /\ stored' \in [DOMAIN stored' -> Values]
      BY <2>2, StoreLemma DEF Indexes
    <3> QED
      BY <1>1, <1>2, <3>1, <3>2 DEF StoredOK
  <2> QED
    BY <2>1, <2>2, FinalizeStored
<1>5. ListsOK'
  <2>1. /\ first' = [p \in Peers |-> IF p \in CleanPeers THEN FirstAfterTrim(p) ELSE first[p]]
        /\ points' = [p \in Peers |-> IF p \in CleanPeers THEN Trimmed(p) ELSE points[p]]
    BY DEF FinalizeCheckPoints
  <2>2. \A p \in CleanPeers : FirstAfterTrim(p) \in Indexes /\ ListOK(FirstAfterTrim(p), Trimmed(p))
    BY <1>1, TrimLemma DEF StoredOK
  <2>3. \A p \in Peers : first'[p] \in Indexes /\ ListOK(first'[p], points'[p])
    BY <1>1, <2>1, <2>2 DEF ListsOK
  <2>4. \A p \in Peers : points'[p] \in Seq(Values)
    BY <2>3 DEF ListOK
  <2>5. first' \in [Peers -> Indexes] /\ points' \in [Peers -> Seq(Values)]
    BY <2>1, <2>3, <2>4
  <2> QED
    BY <2>3, <2>5 DEF ListsOK
<1> QED
  BY <1>3, <1>4, <1>5, TypePartsNext

LEMMA LossType ==
    ASSUME TypeOK, Restart \/ \E p \in Peers : Disconnected(p)
    PROVE  TypeOK'
<1>1. StoredOK /\ PeersOK /\ ListsOK
  BY TypeParts
<1>2. losses' \in 0 .. MaxLosses
  <2>1. losses > 0 /\ losses' = losses - 1
    BY DEF Restart, Disconnected
  <2> QED
    BY <1>1, <2>1, CheckPointsAssumption DEF StoredOK
<1>3. PeersOK'
  <2>1. (\E S : RemovePeers(S)) /\ UNCHANGED blamed
    BY DEF Restart, Disconnected
  <2> QED
    BY <1>1, <2>1, RemovePeersType DEF PeersOK
<1>4. ListsOK'
  BY <1>1, PartsUnchanged DEF Restart, Disconnected
<1>5. StoredOK'
  <2>1. CASE \E p \in Peers : Disconnected(p)
    BY <1>1, <1>2, <2>1 DEF StoredOK, Disconnected, storedVars
  <2>2. CASE Restart
    <3>1. /\ 0 .. maxIndex \subseteq DOMAIN stored' /\ DOMAIN stored' \subseteq Indexes
          /\ stored' \in [DOMAIN stored' -> Values]
      <4>1. CASE UNCHANGED stored
        BY <1>1, <4>1 DEF StoredOK
      <4>2. ASSUME NEW vs \in NewCheckPoints, StoreCheckPoints(vs)
            PROVE  /\ 0 .. maxIndex \subseteq DOMAIN stored' /\ DOMAIN stored' \subseteq Indexes
                   /\ stored' \in [DOMAIN stored' -> Values]
        <5>1. /\ 0 .. maxIndex + Len(vs) \subseteq DOMAIN stored' /\ DOMAIN stored' \subseteq Indexes
              /\ stored' \in [DOMAIN stored' -> Values]
          BY <4>2, StoreLemma DEF Indexes
        <5>2. Len(vs) \in Nat /\ maxIndex \in Nat
          BY <1>1, NewLemma DEF StoredOK, Indexes
        <5>3. 0 .. maxIndex \subseteq 0 .. maxIndex + Len(vs)
          BY <5>2
        <5> QED
          BY <5>1, <5>3
      <4> QED
        BY <2>2, <4>1, <4>2 DEF Restart
    <3>2. startPoint' = [index |-> maxIndex, hash |-> stored[maxIndex]] /\ maxIndex' = maxIndex
      BY <2>2 DEF Restart, LastCheckPoint
    <3>3. maxIndex \in Indexes /\ stored[maxIndex] \in Values
      BY <1>1 DEF StoredOK, Indexes
    <3>4. startPoint' \in [index : Indexes, hash : Values]
      BY <3>2, <3>3
    <3> QED
      BY <1>2, <3>1, <3>2, <3>3, <3>4 DEF StoredOK
  <2> QED
    BY <2>1, <2>2
<1> QED
  BY <1>3, <1>4, <1>5, TypePartsNext

\* The types hold: a list of check points is never empty and there is a value at
\* every finalized index, over trims, bans, restarts and crashes.
THEOREM CheckPointsTypeCorrect == Spec => []TypeOK
<1>1. Init => TypeOK
  <2> SUFFICES ASSUME Init PROVE TypeOK
    OBVIOUS
  <2>1. 0 \in Indexes /\ 0 \in Values
    BY CheckPointsAssumption DEF Indexes, Values
  <2>2. StoredOK
    <3>1. maxIndex = 0 /\ stored = [i \in {0} |-> 0] /\ losses = MaxLosses
      BY DEF Init
    <3>2. startPoint = [index |-> 0, hash |-> 0]
      BY <3>1 DEF Init, LastCheckPoint
    <3>3. 0 .. maxIndex = {0}
      BY <3>1
    <3> QED
      BY <2>1, <3>1, <3>2, <3>3, CheckPointsAssumption DEF StoredOK
  <2>3. PeersOK
    BY <2>1 DEF Init, PeersOK
  <2>4. ListOK(0, <<0>>) /\ <<0>> \in Seq(Values)
    BY <2>1, CheckPointsAssumption DEF ListOK
  <2>5. ListsOK
    BY <2>1, <2>4 DEF Init, ListsOK
  <2> QED
    BY <2>2, <2>3, <2>5, TypeParts
<1>2. TypeOK /\ [Next]_vars => TypeOK'
  <2> SUFFICES ASSUME TypeOK, [Next]_vars PROVE TypeOK'
    OBVIOUS
  <2>1. CASE UNCHANGED vars
    BY <2>1, TypeParts, PartsUnchanged, TypePartsNext DEF vars, storedVars, peerVars
  <2> QED
    BY <2>1, ConnectedType, ProveType, GetCheckPointsType, AnswerType, FinalizeType, LossType
    DEF Next, Answer
<1> QED
  BY <1>1, <1>2, PTL DEF Spec

-----------------------------------------------------------------------------
(* Finalized check points are final.                                         *)

LEMMA StableStep ==
    ASSUME TypeOK, [Next]_vars
    PROVE  maxIndex <= maxIndex' /\ \A i \in 0 .. maxIndex : stored'[i] = stored[i]
<1> DEFINE Stable == maxIndex <= maxIndex' /\ \A i \in 0 .. maxIndex : stored'[i] = stored[i]
<1> SUFFICES Stable
  OBVIOUS
<1>1. maxIndex \in Nat
  BY DEF TypeOK
<1>2. ASSUME UNCHANGED storedVars PROVE Stable
  BY <1>1, <1>2 DEF storedVars
<1>3. ASSUME NEW vs \in NewCheckPoints, StoreCheckPoints(vs),
             maxIndex' = maxIndex + Len(vs) \/ maxIndex' = maxIndex
      PROVE  Stable
  <2>1. Len(vs) \in Nat
    BY NewLemma
  <2>2. maxIndex <= maxIndex'
    BY <1>1, <1>3, <2>1
  <2>3. \A i \in 0 .. maxIndex : stored'[i] = stored[i]
    BY <1>3, StoreLemma
  <2> QED
    BY <2>2, <2>3
<1>4. CASE FinalizeCheckPoints
  BY <1>2, <1>3, <1>4, FinalizeStored
<1>5. CASE Restart
  BY <1>2, <1>3, <1>5 DEF Restart, storedVars
<1>6. ASSUME NEW p \in Peers, Connected(p) \/ Prove(p) \/ Disconnected(p)
      PROVE  Stable
  BY <1>2, <1>6 DEF Connected, Prove, Disconnected
<1>7. ASSUME NEW p \in Peers, Answer(p)
      PROVE  Stable
  BY <1>2, <1>7 DEF Answer, BlockFilterCheckPoints
<1>8. CASE GetCheckPoints \/ UNCHANGED vars
  BY <1>2, <1>8 DEF GetCheckPoints, vars
<1> HIDE DEF Stable
<1> QED
  BY <1>4, <1>5, <1>6, <1>7, <1>8 DEF Next

\* No step takes a finalized check point back or gives it another value, be it a
\* restart or a crash between the two writes of finalize_check_points.
THEOREM FinalizedStays == Spec => FinalizedIsStable
<1>1. TypeOK /\ [Next]_vars => [maxIndex <= maxIndex' /\ \A i \in 0 .. maxIndex : stored'[i] = stored[i]]_vars
  BY StableStep
<1> QED
  BY <1>1, CheckPointsTypeCorrect, PTL DEF Spec, FinalizedIsStable

-----------------------------------------------------------------------------
(* No list starts after the last finalized check point.                      *)

\* The start point, from which the lists of new peers start, was finalized.
StartInv == startPoint.index <= maxIndex /\ StartsAreFinalized

LEMMA StartStep ==
    ASSUME TypeOK, TypeOK', StartInv, [Next]_vars
    PROVE  StartInv'
<1>1. /\ maxIndex \in Nat /\ maxIndex' \in Nat /\ maxIndex <= maxIndex'
      /\ startPoint.index \in Nat /\ \A p \in Peers : first[p] \in Nat
      /\ connected \subseteq Peers
  <2>1. maxIndex <= maxIndex'
    BY StableStep
  <2> QED
    BY <2>1 DEF TypeOK
<1>2. ASSUME startPoint' = startPoint, connected' \subseteq Peers,
             \A p \in connected' : \/ p \in connected /\ first'[p] = first[p]
                                   \/ first'[p] = startPoint.index \/ first'[p] = maxIndex
      PROVE  StartInv'
  <2>1. startPoint'.index <= maxIndex'
    BY <1>1, <1>2 DEF StartInv
  <2>2. ASSUME NEW p \in connected' PROVE first'[p] <= maxIndex'
    BY <1>1, <1>2, <2>2 DEF StartInv, StartsAreFinalized
  <2> QED
    BY <2>1, <2>2 DEF StartInv, StartsAreFinalized
<1>3. ASSUME NEW p \in Peers, Connected(p)
      PROVE  StartInv'
  <2>1. DOMAIN first = Peers
    BY DEF TypeOK
  <2> QED
    BY <1>1, <1>2, <1>3, <2>1 DEF Connected
<1>4. ASSUME UNCHANGED <<startPoint, connected, first>>
      PROVE  StartInv'
  BY <1>1, <1>2, <1>4
<1>5. ASSUME NEW p \in Peers, Prove(p) \/ Answer(p)
      PROVE  StartInv'
  BY <1>4, <1>5 DEF Prove, Answer, BlockFilterCheckPoints
<1>6. ASSUME NEW p \in Peers, Disconnected(p)
      PROVE  StartInv'
  BY <1>1, <1>2, <1>6 DEF Disconnected, RemovePeers
<1>7. CASE FinalizeCheckPoints
  <2>1. /\ startPoint' = startPoint /\ connected' \subseteq connected
        /\ \A p \in Peers : first'[p] = IF p \in CleanPeers THEN FirstAfterTrim(p) ELSE first[p]
    BY <1>7 DEF FinalizeCheckPoints, RemovePeers
  <2>2. \A p \in CleanPeers : FirstAfterTrim(p) = maxIndex
    BY TrimLemma
  <2> QED
    BY <1>1, <1>2, <2>1, <2>2
<1>8. CASE Restart
  <2>1. startPoint'.index = maxIndex /\ connected' = {} /\ maxIndex' = maxIndex
    BY <1>1, <1>8 DEF Restart, RemovePeers, LastCheckPoint
  <2> QED
    BY <1>1, <2>1 DEF StartInv, StartsAreFinalized
<1>9. CASE GetCheckPoints \/ UNCHANGED vars
  BY <1>4, <1>9 DEF GetCheckPoints, vars, peerVars
<1> QED
  BY <1>3, <1>5, <1>6, <1>7, <1>8, <1>9 DEF Next

LEMMA StartInvariant == Spec => []StartInv
<1>1. Init => StartInv
  BY DEF Init, StartInv, StartsAreFinalized, LastCheckPoint
<1>2. TypeOK /\ TypeOK' /\ StartInv /\ [Next]_vars => StartInv'
  BY StartStep
<1> QED
  BY <1>1, <1>2, CheckPointsTypeCorrect, PTL DEF Spec

\* The branch of finalize_check_points that is "Impossible, in fact" is: no list
\* starts after the last finalized check point.
THEOREM StartsStayFinalized == Spec => []StartsAreFinalized
<1>1. StartInv => StartsAreFinalized
  BY DEF StartInv
<1> QED
  BY <1>1, StartInvariant, PTL

-----------------------------------------------------------------------------
(* Finalized check points are right.                                         *)

FewFaulty == Cardinality(Faulty) < Required

\* What is finalized is of the chain, and so are the lists of the peers that are
\* not faulty.  A crash may leave anything above the last finalized index.
ChainInv ==
    /\ \A i \in 0 .. maxIndex : stored[i] = i
    /\ startPoint.hash = startPoint.index
    /\ \A p \in Peers \ Faulty : IsOfChain(first[p], points[p])

\* Among the peers that vote for a new check point is one that is not faulty.
LEMMA QuorumLemma ==
    ASSUME TypeOK, FewFaulty, ChainInv,
           NEW vs \in NewCheckPoints, IsAgreed(vs), NEW i \in 1 .. Len(vs)
    PROVE  vs[i] = maxIndex + i
<1> DEFINE S == {p \in Voters(vs, i - 1) : i < Size(p) /\ points[p][Position(p) + i] = vs[i]}
<1>1. Cardinality(S) >= Required
  BY DEF IsAgreed, IsEnough, VotesFor
<1>2. S \subseteq CleanPeers /\ CleanPeers \subseteq Peers
  BY CleanLemma DEF Voters
<1>3. /\ IsFiniteSet(Faulty) /\ Cardinality(Faulty) \in Nat /\ Required \in Nat
      /\ \A T \in SUBSET Faulty : Cardinality(T) <= Cardinality(Faulty) /\ Cardinality(T) \in Nat
  BY CheckPointsAssumption, FS_Subset, FS_CardinalityType
<1>4. PICK p \in S : p \notin Faulty
  <2> SUFFICES ASSUME S \subseteq Faulty PROVE FALSE
    OBVIOUS
  <2> HIDE DEF S
  <2>1. Cardinality(S) <= Cardinality(Faulty) /\ Cardinality(S) \in Nat
    BY <1>3
  <2> QED
    BY <1>1, <1>3, <2>1 DEF FewFaulty
<1>5. /\ p \in Peers /\ Position(p) \in 1 .. Len(points[p]) /\ Size(p) \in 1 .. Len(points[p])
      /\ first[p] + Position(p) - 1 = maxIndex
  BY <1>2, CleanLemma
<1>6. /\ i < Size(p) /\ points[p][Position(p) + i] = vs[i]
      /\ Len(vs) \in Nat /\ Len(points[p]) \in Nat /\ first[p] \in Nat
  BY <1>5, NewLemma, ListLemma DEF Indexes
<1>7. Position(p) + i \in 1 .. Len(points[p])
  BY <1>5, <1>6, SMTT(30) DEF Size
<1>8. points[p][Position(p) + i] = first[p] + (Position(p) + i) - 1
  BY <1>4, <1>5, <1>7 DEF ChainInv, IsOfChain
<1> QED
  BY <1>5, <1>6, <1>8

\* A list of the chain is one after it is trimmed.
LEMMA TrimmedIsOfChain ==
    ASSUME TypeOK, NEW p \in CleanPeers, IsOfChain(first[p], points[p])
    PROVE  IsOfChain(FirstAfterTrim(p), Trimmed(p))
<1>1. /\ FirstAfterTrim(p) = maxIndex /\ Len(Trimmed(p)) = Size(p)
      /\ \A k \in 1 .. Size(p) : Trimmed(p)[k] = points[p][Position(p) + k - 1]
  BY TrimLemma
<1>2. /\ p \in Peers /\ Position(p) \in 1 .. Len(points[p]) /\ Size(p) \in 1 .. Len(points[p])
      /\ first[p] + Position(p) - 1 = maxIndex
  BY CleanLemma
<1>3. Len(points[p]) \in Nat /\ first[p] \in Nat
  BY <1>2, ListLemma DEF Indexes
<1>4. ASSUME NEW k \in 1 .. Size(p)
      PROVE  Trimmed(p)[k] = maxIndex + k - 1
  <2>1. Position(p) + k - 1 \in 1 .. Len(points[p])
    BY <1>2, <1>3 DEF Size
  <2>2. Trimmed(p)[k] = first[p] + (Position(p) + k - 1) - 1
    BY <1>1, <2>1 DEF IsOfChain
  <2> QED
    BY <1>2, <1>3, <2>2
<1> QED
  BY <1>1, <1>4 DEF IsOfChain

LEMMA ChainStep ==
    ASSUME TypeOK, FewFaulty, StartInv, ChainInv, [Next]_vars
    PROVE  ChainInv'
<1>1. maxIndex \in Nat
  BY DEF TypeOK
<1>2. CASE UNCHANGED <<storedVars, startPoint, first, points>>
  BY <1>2 DEF ChainInv, storedVars, IsOfChain
<1>3. ASSUME NEW p \in Peers, Connected(p)
      PROVE  ChainInv'
  <2>1. /\ first' = [first EXCEPT ![p] = startPoint.index]
        /\ points' = [points EXCEPT ![p] = <<startPoint.hash>>]
        /\ UNCHANGED <<maxIndex, stored, startPoint>>
    BY <1>3 DEF Connected, storedVars
  <2>2. IsOfChain(startPoint.index, <<startPoint.hash>>)
    <3>1. startPoint.index \in Nat /\ startPoint.hash = startPoint.index
      BY DEF TypeOK, ChainInv
    <3> QED
      BY <3>1 DEF IsOfChain
  <2>3. DOMAIN first = Peers /\ DOMAIN points = Peers
    BY DEF TypeOK
  <2>4. \A q \in Peers \ Faulty : IsOfChain(first'[q], points'[q])
    BY <2>1, <2>2, <2>3 DEF ChainInv
  <2> QED
    BY <2>1, <2>4 DEF ChainInv
<1>4. ASSUME NEW p \in Peers, asked[p] # <<>>, NEW hashes \in Answers(p),
             BlockFilterCheckPoints(p, hashes)
      PROVE  ChainInv'
  <2> DEFINE start == Head(asked[p])
             more  == AddCheckPoints(p, start, hashes)
  <2>1. UNCHANGED <<maxIndex, stored, startPoint, first>>
    BY <1>4 DEF BlockFilterCheckPoints, storedVars
  <2>2. /\ start \in Indexes /\ hashes \in Seq(Values)
        /\ start + Len(hashes) - 1 <= MaxIndex
        /\ p \notin Faulty => IsOfChain(start, hashes)
    BY <1>4, AnswersLemma
  <2>3. CASE IsExpected(p, start, hashes) /\ points' = [points EXCEPT ![p] = more]
    <3>1. p \notin Faulty => IsOfChain(first[p], more)
      BY <2>2, <2>3, AddLemma DEF ChainInv
    <3> HIDE DEF start, more
    <3>2. DOMAIN points = Peers
      BY DEF TypeOK
    <3>3. \A q \in Peers \ Faulty : IsOfChain(first'[q], points'[q])
      BY <2>1, <2>3, <3>1, <3>2 DEF ChainInv
    <3> QED
      BY <2>1, <3>3 DEF ChainInv
  <2>4. CASE UNCHANGED points
    BY <1>2, <2>1, <2>4 DEF storedVars
  <2> QED
    BY <1>4, <2>3, <2>4 DEF BlockFilterCheckPoints
<1>5. CASE FinalizeCheckPoints
  <2>1. /\ \A p \in Peers : /\ first'[p] = IF p \in CleanPeers THEN FirstAfterTrim(p) ELSE first[p]
                            /\ points'[p] = IF p \in CleanPeers THEN Trimmed(p) ELSE points[p]
        /\ startPoint' = startPoint
    BY <1>5 DEF FinalizeCheckPoints
  <2>2. \A p \in Peers \ Faulty : IsOfChain(first'[p], points'[p])
    BY <2>1, TrimmedIsOfChain DEF ChainInv
  <2>3. \A i \in 0 .. maxIndex' : stored'[i] = i
    <3>1. CASE UNCHANGED storedVars
      BY <3>1 DEF storedVars, ChainInv
    <3>2. ASSUME NEW vs \in NewCheckPoints, IsAgreed(vs), StoreCheckPoints(vs),
                 maxIndex' = maxIndex + Len(vs), NEW i \in 0 .. maxIndex'
          PROVE  stored'[i] = i
      <4>1. Len(vs) \in Nat
        BY NewLemma
      <4>2. CASE i \in 0 .. maxIndex
        BY <3>2, <4>2, StoreLemma DEF ChainInv
      <4>3. CASE i > maxIndex
        <5>1. i - maxIndex \in 1 .. Len(vs) /\ maxIndex + (i - maxIndex) = i
          BY <1>1, <3>2, <4>1, <4>3
        <5>2. stored'[maxIndex + (i - maxIndex)] = vs[i - maxIndex]
          BY <3>2, <5>1, StoreLemma
        <5>3. vs[i - maxIndex] = maxIndex + (i - maxIndex)
          BY <3>2, <5>1, QuorumLemma
        <5> QED
          BY <5>1, <5>2, <5>3
      <4> QED
        BY <1>1, <3>2, <4>1, <4>2, <4>3
    <3> QED
      BY <3>1, <3>2, FinalizeStored, <1>5
  <2> QED
    BY <2>1, <2>2, <2>3 DEF ChainInv
<1>6. CASE Restart
  <2>1. /\ UNCHANGED <<maxIndex, first, points>>
        /\ startPoint' = [index |-> maxIndex, hash |-> stored[maxIndex]]
    BY <1>6 DEF Restart, LastCheckPoint
  <2>2. \A i \in 0 .. maxIndex : stored'[i] = stored[i]
    BY <1>6, StableStep DEF Next
  <2>3. stored[maxIndex] = maxIndex
    BY <1>1 DEF ChainInv
  <2> QED
    BY <2>1, <2>2, <2>3 DEF ChainInv, IsOfChain
<1>7. ASSUME NEW p \in Peers, Prove(p) \/ Disconnected(p)
      PROVE  ChainInv'
  BY <1>2, <1>7 DEF Prove, Disconnected
<1>8. CASE GetCheckPoints \/ UNCHANGED vars
  BY <1>2, <1>8 DEF GetCheckPoints, vars, peerVars
<1> QED
  BY <1>3, <1>4, <1>5, <1>6, <1>7, <1>8 DEF Next, Answer

LEMMA ChainInvariant == Spec => [](FewFaulty => ChainInv)
<1>1. Init => (FewFaulty => ChainInv)
  <2> SUFFICES ASSUME Init PROVE ChainInv
    OBVIOUS
  <2>1. maxIndex = 0 /\ stored = [i \in {0} |-> 0] /\ startPoint = [index |-> maxIndex, hash |-> stored[maxIndex]]
    BY DEF Init, LastCheckPoint
  <2>2. \A i \in 0 .. maxIndex : i = 0
    BY <2>1
  <2>3. \A p \in Peers : first[p] = 0 /\ points[p] = <<0>>
    BY DEF Init
  <2>4. IsOfChain(0, <<0>>)
    BY DEF IsOfChain
  <2> QED
    BY <2>1, <2>2, <2>3, <2>4 DEF ChainInv
<1>2. TypeOK /\ StartInv /\ (FewFaulty => ChainInv) /\ [Next]_vars => (FewFaulty => ChainInv)'
  <2>1. FewFaulty' <=> FewFaulty
    BY DEF FewFaulty
  <2> QED
    BY <2>1, ChainStep
<1> QED
  BY <1>1, <1>2, CheckPointsTypeCorrect, StartInvariant, PTL DEF Spec

\* As long as fewer peers are faulty than finalize_check_points requires to agree,
\* every finalized check point is the one of the chain, whatever the faulty ones
\* report and wherever the process crashes.
THEOREM FinalizedStaysRight == Spec => []FinalizedIsRight
<1>1. TypeOK /\ (FewFaulty => ChainInv) => FinalizedIsRight
  BY DEF TypeOK, FewFaulty, ChainInv, FinalizedIsRight
<1> QED
  BY <1>1, CheckPointsTypeCorrect, ChainInvariant, PTL

\* finalize_check_points bans only faulty peers, as long as these are fewer than
\* required: a peer that reports the chain is neither too late nor wrong.
THEOREM OnlyFaultyAreBanned == Spec => OnlyFaultyBanned
<1>1. ASSUME TypeOK, StartInv, FewFaulty => ChainInv
      PROVE  (Cardinality(Faulty) < Required /\ FinalizeCheckPoints)
                => (connected \ connected') \subseteq Faulty
  <2> SUFFICES ASSUME FewFaulty, FinalizeCheckPoints, NEW p \in BannedPeers, p \notin Faulty, p \in connected
               PROVE  FALSE
    BY DEF FewFaulty, FinalizeCheckPoints, RemovePeers
  <2>1. p \in Peers /\ ChainInv /\ maxIndex \in Nat
    BY <1>1 DEF TypeOK
  <2>2. first[p] \in Nat /\ first[p] <= maxIndex /\ Len(points[p]) \in Nat
    BY <1>1, <2>1, ListLemma DEF StartInv, StartsAreFinalized, Indexes
  <2>3. ~IsTooLate(p)
    BY <2>1, <2>2 DEF IsTooLate
  <2>4. ~IsTooShort(p) /\ points[p][Position(p)] # stored[maxIndex]
    BY <2>3 DEF BannedPeers, IsWrong
  <2>5. Position(p) \in 1 .. Len(points[p]) /\ first[p] + Position(p) - 1 = maxIndex
    BY <2>1, <2>2, <2>4 DEF IsTooShort, Position
  <2>6. points[p][Position(p)] = maxIndex /\ stored[maxIndex] = maxIndex
    BY <2>1, <2>5 DEF ChainInv, IsOfChain
  <2> QED
    BY <2>4, <2>6
<1>2. TypeOK /\ StartInv /\ (FewFaulty => ChainInv) =>
        [(Cardinality(Faulty) < Required /\ FinalizeCheckPoints)
            => (connected \ connected') \subseteq Faulty]_vars
  BY <1>1
<1> QED
  BY <1>2, CheckPointsTypeCorrect, StartInvariant, ChainInvariant, PTL DEF Spec, OnlyFaultyBanned
=============================================================================
