---------------------------- MODULE RelayProofs ----------------------------
(***************************************************************************)
(* Theorems about Relay, for any peers, transactions, Limit and Window:     *)
(* the types, that the queue keeps the most recent submissions, and that    *)
(* a peer is told of a submission once.                                     *)
(***************************************************************************)
EXTENDS Relay, SequenceTheorems, TLAPS

-----------------------------------------------------------------------------
(* Lists.                                                                    *)

\* What is left of a list without its k-th entry.
LEMMA RemoveAtLemma ==
    ASSUME NEW S, NEW s \in Seq(S), NEW k \in DOMAIN s
    PROVE  /\ RemoveAt(s, k) \in Seq(S)
           /\ Len(RemoveAt(s, k)) = Len(s) - 1
           /\ \A i \in 1 .. Len(s) - 1 :
                 RemoveAt(s, k)[i] = IF i < k THEN s[i] ELSE s[i + 1]
<1> DEFINE a == SubSeq(s, 1, k - 1)
           b == SubSeq(s, k + 1, Len(s))
<1>1. Len(s) \in Nat /\ k \in 1 .. Len(s)
  BY LenProperties
<1>2. /\ a \in Seq(S) /\ Len(a) = k - 1
      /\ \A i \in 1 .. k - 1 : a[i] = s[i]
  BY <1>1, SubSeqProperties
<1>3. /\ b \in Seq(S) /\ Len(b) = Len(s) - k
      /\ \A i \in 1 .. Len(s) - k : b[i] = s[k + i]
  BY <1>1, SubSeqProperties
<1>4. RemoveAt(s, k) = a \o b
  BY DEF RemoveAt
<1> HIDE DEF a, b
<1>5. /\ a \o b \in Seq(S) /\ Len(a \o b) = Len(a) + Len(b)
      /\ \A i \in 1 .. Len(a) + Len(b) : (a \o b)[i] = IF i <= Len(a) THEN a[i] ELSE b[i - Len(a)]
  <2>1. a \in Seq(S) /\ b \in Seq(S)
    BY <1>2, <1>3
  <2> QED
    BY ONLY <2>1, ConcatProperties
<1>6. ASSUME NEW i \in 1 .. Len(s) - 1
      PROVE  (a \o b)[i] = IF i < k THEN s[i] ELSE s[i + 1]
  <2>1. i \in 1 .. Len(a) + Len(b)
    BY <1>1, <1>2, <1>3
  <2>2. (a \o b)[i] = IF i <= Len(a) THEN a[i] ELSE b[i - Len(a)]
    BY <1>5, <2>1
  <2>3. CASE i < k
    BY <1>1, <1>2, <2>2, <2>3
  <2>4. CASE ~(i < k)
    <3>1. i - (k - 1) \in 1 .. Len(s) - k /\ k + (i - (k - 1)) = i + 1 /\ ~(i <= k - 1)
      BY <1>1, <2>4
    <3> QED
      BY <1>1, <1>2, <1>3, <2>2, <2>4, <3>1
  <2> QED
    BY <2>3, <2>4
<1>7. a \o b \in Seq(S) /\ Len(a \o b) = Len(s) - 1
  BY <1>1, <1>2, <1>3, <1>5
<1> QED
  BY <1>4, <1>6, <1>7

\* Insert where nothing is dropped.
LEMMA AppendLemma ==
    ASSUME NEW S, NEW s \in Seq(S), NEW e \in S
    PROVE  /\ Append(s, e) \in Seq(S)
           /\ Len(Append(s, e)) = Len(s) + 1
           /\ \A i \in 1 .. Len(s) : Append(s, e)[i] = s[i]
           /\ Append(s, e)[Len(s) + 1] = e
BY AppendProperties

\* The list r is s without its k-th entry, and with e at the end.
IsMoved(r, s, k, e) ==
    /\ Len(r) = Len(s) /\ r[Len(s)] = e
    /\ \A i \in 1 .. Len(s) - 1 : r[i] = IF i < k THEN s[i] ELSE s[i + 1]

\* A list whose entry at one of the positions is dropped and appended again.
LEMMA DropAppendLemma ==
    ASSUME NEW S, NEW s \in Seq(S), NEW at \in SUBSET DOMAIN s, NEW e \in S, at # {}
    PROVE  /\ Append(Drop(s, at), e) \in Seq(S)
           /\ \E k \in at : IsMoved(Append(Drop(s, at), e), s, k, e)
<1> DEFINE k == CHOOSE j \in at : TRUE
           r == RemoveAt(s, k)
<1>1. k \in at /\ k \in DOMAIN s
  OBVIOUS
<1>2. Drop(s, at) = r
  BY DEF Drop
<1> HIDE DEF k
<1>3. /\ r \in Seq(S) /\ Len(r) = Len(s) - 1 /\ Len(s) \in Nat
      /\ \A i \in 1 .. Len(s) - 1 : r[i] = IF i < k THEN s[i] ELSE s[i + 1]
  BY <1>1, RemoveAtLemma, LenProperties
<1> HIDE DEF r
<1>4. /\ Append(r, e) \in Seq(S)
      /\ Len(Append(r, e)) = Len(r) + 1
      /\ \A i \in 1 .. Len(r) : Append(r, e)[i] = r[i]
      /\ Append(r, e)[Len(r) + 1] = e
  BY <1>3, AppendLemma
<1>5. IsMoved(Append(r, e), s, k, e)
  BY <1>3, <1>4 DEF IsMoved
<1> QED
  BY <1>1, <1>2, <1>4, <1>5

-----------------------------------------------------------------------------
(* The queue keeps the most recent submissions.                              *)

\* No transaction is twice in the order of submissions.
Distinct(h) == \A i, j \in 1 .. Len(h) : h[i] = h[j] => i = j

\* The queue q is the end of the order h, as long as Limit allows.
IsEndOf(q, h) ==
    /\ Len(q) = IF Len(h) < Limit THEN Len(h) ELSE Limit
    /\ \A k \in 1 .. Len(q) : q[k].tx = h[Len(h) - Len(q) + k]

\* The order after one more submission of t.
Resubmit(h, t) == Append(Drop(h, {k \in DOMAIN h : h[k] = t}), t)

\* A submission leaves the other transactions in their order and goes to the end.
LEMMA ResubmitLemma ==
    ASSUME NEW h \in Seq(Txs), NEW t \in Txs, Distinct(h)
    PROVE  /\ Resubmit(h, t) \in Seq(Txs) /\ Distinct(Resubmit(h, t))
           /\ \/ /\ \A i \in 1 .. Len(h) : h[i] # t
                 /\ Len(Resubmit(h, t)) = Len(h) + 1
                 /\ Resubmit(h, t)[Len(h) + 1] = t
                 /\ \A i \in 1 .. Len(h) : Resubmit(h, t)[i] = h[i]
              \/ \E k \in 1 .. Len(h) :
                    /\ \A i \in 1 .. Len(h) : h[i] = t <=> i = k
                    /\ IsMoved(Resubmit(h, t), h, k, t)
<1> DEFINE at == {k \in DOMAIN h : h[k] = t}
           r == Resubmit(h, t)
<1>1. Len(h) \in Nat /\ DOMAIN h = 1 .. Len(h)
  BY LenProperties
<1>2. CASE at = {}
  <2>1. r = Append(h, t)
    BY <1>2 DEF Resubmit, Drop
  <2>2. \A i \in 1 .. Len(h) : h[i] # t
    BY <1>1, <1>2
  <2> HIDE DEF r, at
  <2>3. /\ r \in Seq(Txs) /\ Len(r) = Len(h) + 1 /\ r[Len(h) + 1] = t
        /\ \A i \in 1 .. Len(h) : r[i] = h[i]
    BY <2>1, AppendLemma
  <2>4. Distinct(r)
    BY <1>1, <2>2, <2>3 DEF Distinct
  <2> QED
    BY <2>2, <2>3, <2>4 DEF r
<1>3. CASE at # {}
  <2>1. r = Append(Drop(h, at), t) /\ at \in SUBSET DOMAIN h
    BY DEF Resubmit
  <2>2. \A k \in at : k \in 1 .. Len(h) /\ h[k] = t
    BY <1>1
  <2> HIDE DEF r, at
  <2>3. /\ r \in Seq(Txs)
        /\ \E k \in at : IsMoved(r, h, k, t)
    BY <1>3, <2>1, DropAppendLemma
  <2>4. PICK k \in at :
              /\ Len(r) = Len(h) /\ r[Len(h)] = t
              /\ \A i \in 1 .. Len(h) - 1 : r[i] = IF i < k THEN h[i] ELSE h[i + 1]
    BY <2>3 DEF IsMoved
  <2>5. k \in 1 .. Len(h) /\ \A i \in 1 .. Len(h) : h[i] = t <=> i = k
    BY <2>2 DEF Distinct
  <2>6. ASSUME NEW i \in 1 .. Len(h), NEW j \in 1 .. Len(h), i < j
        PROVE  r[i] # r[j]
    <3>1. i \in 1 .. Len(h) - 1 /\ r[i] = IF i < k THEN h[i] ELSE h[i + 1]
      BY <1>1, <2>4, <2>6
    <3>2. CASE j = Len(h)
      <4>1. r[j] = t
        BY <2>4, <3>2
      <4>2. PICK a \in 1 .. Len(h) : r[i] = h[a] /\ a = IF i < k THEN i ELSE i + 1
        BY <1>1, <2>5, <2>6, <3>1
      <4>3. r[i] # t
        BY <2>5, <4>2
      <4> QED
        BY <4>1, <4>3
    <3>3. CASE j < Len(h)
      <4>1. j \in 1 .. Len(h) - 1
        BY <1>1, <3>3
      <4>5. r[j] = IF j < k THEN h[j] ELSE h[j + 1]
        BY <2>4, <4>1
      <4>2. PICK a \in 1 .. Len(h) : r[i] = h[a] /\ a = IF i < k THEN i ELSE i + 1
        BY <1>1, <2>5, <2>6, <3>1
      <4>3. PICK b \in 1 .. Len(h) : r[j] = h[b] /\ b = IF j < k THEN j ELSE j + 1
        <5>1. CASE j < k
          BY <4>5, <5>1
        <5>2. CASE ~(j < k)
          <6>1. j + 1 \in 1 .. Len(h)
            BY <1>1, <4>1
          <6> QED
            BY <4>5, <5>2, <6>1
        <5> QED
          BY <5>1, <5>2
      <4>4. a # b
        BY <2>5, <2>6, <4>2, <4>3
      <4> QED
        BY <4>2, <4>3, <4>4 DEF Distinct
    <3>4. j = Len(h) \/ j < Len(h)
      <4>1. Len(h) \in Nat /\ j \in 1 .. Len(h)
        BY <1>1
      <4> QED
        BY ONLY <4>1
    <3> QED
      BY <3>2, <3>3, <3>4
  <2>7. Distinct(r)
    BY <1>1, <2>4, <2>6 DEF Distinct
  <2>8. IsMoved(r, h, k, t)
    BY <2>4 DEF IsMoved
  <2> QED
    BY <2>3, <2>5, <2>7, <2>8 DEF r
<1> QED
  BY <1>2, <1>3

\* Insert of a transaction that is not there, and of one that is.
LEMMA InsertLemma ==
    ASSUME NEW q \in Seq(Entries), NEW t \in Txs
    PROVE  /\ Insert(q, t) \in Seq(Entries)
           /\ \/ /\ \A i \in 1 .. Len(q) : q[i].tx # t
                 /\ Len(Insert(q, t)) = Len(q) + 1
                 /\ Insert(q, t)[Len(q) + 1] = [tx |-> t, told |-> {}]
                 /\ \A i \in 1 .. Len(q) : Insert(q, t)[i] = q[i]
              \/ \E k \in 1 .. Len(q) :
                    q[k].tx = t /\ IsMoved(Insert(q, t), q, k, [tx |-> t, told |-> {}])
<1> DEFINE at == {k \in DOMAIN q : q[k].tx = t}
           entry == [tx |-> t, told |-> {}]
           r == Insert(q, t)
<1>1. Len(q) \in Nat /\ DOMAIN q = 1 .. Len(q)
  BY LenProperties
<1>2. entry \in Entries
  BY DEF Entries
<1>3. CASE at = {}
  <2>1. r = Append(q, entry)
    BY <1>3 DEF Insert, Drop
  <2>2. \A i \in 1 .. Len(q) : q[i].tx # t
    BY <1>1, <1>3
  <2> HIDE DEF r, at, entry
  <2>3. /\ r \in Seq(Entries) /\ Len(r) = Len(q) + 1 /\ r[Len(q) + 1] = entry
        /\ \A i \in 1 .. Len(q) : r[i] = q[i]
    BY <1>2, <2>1, AppendLemma
  <2> QED
    BY <2>2, <2>3 DEF r, entry
<1>4. CASE at # {}
  <2>1. r = Append(Drop(q, at), entry) /\ at \in SUBSET DOMAIN q
    BY DEF Insert
  <2>2. \A k \in at : k \in 1 .. Len(q) /\ q[k].tx = t
    BY <1>1
  <2> HIDE DEF r, at, entry
  <2>3. r \in Seq(Entries) /\ \E k \in at : IsMoved(r, q, k, entry)
    BY <1>2, <1>4, <2>1, DropAppendLemma
  <2> QED
    BY <2>2, <2>3 DEF r, entry
<1> QED
  BY <1>3, <1>4

\* What push does: the entry of t is the last one and nobody was told of it; every
\* other entry is one of before.
LEMMA PushLemma ==
    ASSUME NEW q \in Seq(Entries), NEW t \in Txs, Len(q) <= Limit
    PROVE  /\ Push(q, t) \in Seq(Entries) /\ Len(Push(q, t)) <= Limit
           /\ \A i \in 1 .. Len(Push(q, t)) :
                 \/ Push(q, t)[i] = [tx |-> t, told |-> {}]
                 \/ \E k \in 1 .. Len(q) : Push(q, t)[i] = q[k]
<1> DEFINE r == Insert(q, t)
           e == [tx |-> t, told |-> {}]
<1> HIDE DEF r, e
<1>1. Len(q) \in Nat /\ Limit \in Nat \ {0}
  BY LenProperties, RelayAssumption
<1>2. r \in Seq(Entries) /\ Len(r) \in Nat
  BY InsertLemma, LenProperties DEF r
<1>3. /\ Len(r) <= Len(q) + 1
      /\ \A i \in 1 .. Len(r) : r[i] = e \/ \E k \in 1 .. Len(q) : r[i] = q[k]
  <2>1. CASE /\ Len(r) = Len(q) + 1 /\ r[Len(q) + 1] = e
             /\ \A i \in 1 .. Len(q) : r[i] = q[i]
    <3>1. ASSUME NEW i \in 1 .. Len(r) PROVE i = Len(q) + 1 \/ i \in 1 .. Len(q)
      BY <1>1, <2>1
    <3> QED
      BY <1>1, <2>1, <3>1
  <2>2. CASE \E k \in 1 .. Len(q) : IsMoved(r, q, k, e)
    <3> PICK k \in 1 .. Len(q) : IsMoved(r, q, k, e)
      BY <2>2
    <3>1. ASSUME NEW i \in 1 .. Len(r)
          PROVE  \/ i = Len(q)
                 \/ i \in 1 .. Len(q) - 1 /\ i \in 1 .. Len(q) /\ i + 1 \in 1 .. Len(q)
      BY <1>1 DEF IsMoved
    <3> QED
      BY <1>1, <3>1 DEF IsMoved
  <2> QED
    BY <2>1, <2>2, InsertLemma DEF r, e
<1>4. CASE Len(r) > Limit
  <2>1. Push(q, t) = Tail(r)
    BY <1>4 DEF Push, r
  <2>2. r # <<>>
    BY <1>1, <1>2, <1>4, EmptySeq
  <2>3. /\ Tail(r) \in Seq(Entries) /\ Len(Tail(r)) = Len(r) - 1
        /\ \A i \in 1 .. Len(Tail(r)) : Tail(r)[i] = r[i + 1]
    BY <1>2, <2>2, HeadTailProperties
  <2>4. Len(Tail(r)) <= Limit /\ \A i \in 1 .. Len(Tail(r)) : i + 1 \in 1 .. Len(r)
    BY <1>1, <1>2, <1>3, <2>3
  <2>5. ASSUME NEW i \in 1 .. Len(Tail(r))
        PROVE  Tail(r)[i] = e \/ \E k \in 1 .. Len(q) : Tail(r)[i] = q[k]
    <3>1. Tail(r)[i] = r[i + 1] /\ i + 1 \in 1 .. Len(r)
      BY <2>3, <2>4
    <3> QED
      BY <1>3, <3>1
  <2> QED
    BY <2>1, <2>3, <2>4, <2>5 DEF e
<1>5. CASE ~(Len(r) > Limit)
  <2>1. Push(q, t) = r
    BY <1>5 DEF Push, r
  <2>2. Len(r) <= Limit
    BY <1>1, <1>2, <1>5
  <2> QED
    BY <1>2, <1>3, <2>1, <2>2 DEF e
<1> QED
  BY <1>4, <1>5

\* The queue is still the end of the order after a submission.
LEMMA PushKeepsEnd ==
    ASSUME NEW q \in Seq(Entries), NEW h \in Seq(Txs), NEW t \in Txs,
           Distinct(h), IsEndOf(q, h)
    PROVE  IsEndOf(Push(q, t), Resubmit(h, t))
<1> DEFINE r == Insert(q, t)
           g == Resubmit(h, t)
           e == [tx |-> t, told |-> {}]
           d == Len(h) - Len(q)
<1> HIDE DEF r, g, e
<1>1. Len(q) \in Nat /\ Len(h) \in Nat /\ Limit \in Nat \ {0} /\ e.tx = t
  BY LenProperties, RelayAssumption DEF e
<1>2. r \in Seq(Entries) /\ g \in Seq(Txs) /\ Len(r) \in Nat /\ Len(g) \in Nat
  BY InsertLemma, ResubmitLemma, LenProperties DEF r, g
<1>3. /\ d \in Nat /\ Len(q) <= Limit /\ (d > 0 => Len(q) = Limit)
      /\ (Len(q) < Limit => Len(h) < Limit /\ d = 0)
      /\ \A i \in 1 .. Len(q) : d + i \in 1 .. Len(h) /\ q[i].tx = h[d + i]
  <2>1. /\ Len(q) = IF Len(h) < Limit THEN Len(h) ELSE Limit
        /\ \A i \in 1 .. Len(q) : q[i].tx = h[d + i]
    BY DEF IsEndOf
  <2>2. /\ d \in Nat /\ Len(q) <= Limit /\ (d > 0 => Len(q) = Limit)
        /\ (Len(q) < Limit => Len(h) < Limit /\ d = 0)
    BY <1>1, <2>1
  <2>3. \A i \in 1 .. Len(q) : d + i \in 1 .. Len(h)
    BY <1>1, <2>2
  <2> QED
    BY <2>1, <2>2, <2>3
<1>4. /\ Len(r) <= Limit => Push(q, t) = r
      /\ Len(r) > Limit => /\ Push(q, t) = Tail(r)
                           /\ Len(Tail(r)) = Len(r) - 1
                           /\ \A i \in 1 .. Len(Tail(r)) : Tail(r)[i] = r[i + 1]
  <2>1. Len(r) <= Limit => Push(q, t) = r
    BY <1>1, <1>2 DEF Push, r
  <2>2. Len(r) > Limit => Push(q, t) = Tail(r) /\ r # <<>>
    BY <1>1, <1>2, EmptySeq DEF Push, r
  <2> QED
    BY <1>2, <2>1, <2>2, HeadTailProperties
<1>5. CASE /\ \A i \in 1 .. Len(h) : h[i] # t
           /\ Len(g) = Len(h) + 1 /\ g[Len(h) + 1] = t
           /\ \A i \in 1 .. Len(h) : g[i] = h[i]
  <2>1. \A i \in 1 .. Len(q) : q[i].tx # t
    BY <1>3, <1>5
  <2>2. /\ Len(r) = Len(q) + 1 /\ r[Len(q) + 1] = e
        /\ \A i \in 1 .. Len(q) : r[i] = q[i]
    BY <2>1, InsertLemma DEF r, e
  <2>3. \A i \in 1 .. Len(q) + 1 : r[i].tx = g[d + i]
    <3> TAKE i \in 1 .. Len(q) + 1
    <3>1. CASE i \in 1 .. Len(q)
      BY <1>3, <1>5, <2>2, <3>1
    <3>2. CASE i = Len(q) + 1
      <4>1. d + i = Len(h) + 1
        BY <1>1, <3>2
      <4> QED
        BY <1>1, <1>5, <2>2, <3>2, <4>1
    <3> QED
      BY <1>1, <3>1, <3>2
  <2>4. CASE Len(q) < Limit
    <3>1. Push(q, t) = r /\ Len(g) = Len(r) /\ Len(r) <= Limit
      BY <1>1, <1>3, <1>4, <1>5, <2>2, <2>4
    <3>2. \A i \in 1 .. Len(r) : r[i].tx = g[Len(g) - Len(r) + i]
      BY <1>1, <1>3, <1>5, <2>2, <2>3, <2>4
    <3>3. Len(r) = IF Len(g) < Limit THEN Len(g) ELSE Limit
      BY <1>1, <1>2, <3>1
    <3> QED
      BY <3>1, <3>2, <3>3 DEF IsEndOf, g
  <2>5. CASE Len(q) = Limit
    <3>1. /\ Push(q, t) = Tail(r) /\ Len(Tail(r)) = Limit /\ Len(g) >= Limit
          /\ \A i \in 1 .. Limit : Tail(r)[i] = r[i + 1] /\ i + 1 \in 1 .. Len(q) + 1
      BY <1>1, <1>3, <1>4, <1>5, <2>2, <2>5
    <3>2. \A i \in 1 .. Limit : Tail(r)[i].tx = g[Len(g) - Limit + i]
      <4> TAKE i \in 1 .. Limit
      <4>1. Tail(r)[i].tx = g[d + (i + 1)]
        BY <2>3, <3>1
      <4>2. d + (i + 1) = Len(g) - Limit + i
        BY <1>1, <1>5, <2>5
      <4> QED
        BY <4>1, <4>2
    <3>3. Len(Tail(r)) = IF Len(g) < Limit THEN Len(g) ELSE Limit
      BY <1>1, <1>2, <3>1
    <3>4. \A i \in 1 .. Len(Tail(r)) : Tail(r)[i].tx = g[Len(g) - Len(Tail(r)) + i]
      BY <3>1, <3>2
    <3>5. IsEndOf(Tail(r), g)
      BY ONLY <3>3, <3>4 DEF IsEndOf
    <3> QED
      BY <3>1, <3>5 DEF g
  <2> QED
    BY <1>1, <1>3, <2>4, <2>5
<1>6. CASE \E k \in 1 .. Len(h) :
              (\A i \in 1 .. Len(h) : h[i] = t <=> i = k) /\ IsMoved(g, h, k, t)
  <2> PICK k \in 1 .. Len(h) :
              (\A i \in 1 .. Len(h) : h[i] = t <=> i = k) /\ IsMoved(g, h, k, t)
    BY <1>6
  <2>1. /\ Len(g) = Len(h) /\ g[Len(h)] = t
        /\ \A i \in 1 .. Len(h) - 1 : g[i] = IF i < k THEN h[i] ELSE h[i + 1]
    BY DEF IsMoved
  <2>2. CASE k <= d
    <3>1. \A i \in 1 .. Len(q) : q[i].tx # t
      BY <1>1, <1>3, <2>2
    <3>2. /\ Len(r) = Len(q) + 1 /\ r[Len(q) + 1] = e
          /\ \A i \in 1 .. Len(q) : r[i] = q[i]
      BY <3>1, InsertLemma DEF r, e
    <3>3. Len(q) = Limit
      BY <1>1, <1>3, <2>2
    <3>4. /\ Push(q, t) = Tail(r) /\ Len(Tail(r)) = Limit /\ Len(g) >= Limit
          /\ \A i \in 1 .. Limit : Tail(r)[i] = r[i + 1]
      BY <1>1, <1>3, <1>4, <2>1, <3>2, <3>3
    <3>5. \A i \in 1 .. Limit : Tail(r)[i].tx = g[Len(g) - Limit + i]
      <4> TAKE i \in 1 .. Limit
      <4>1. CASE i = Limit
        <5>1. Tail(r)[i] = r[Len(q) + 1]
          BY <1>1, <3>3, <3>4, <4>1
        <5>2. Tail(r)[i].tx = t
          BY <1>1, <3>2, <5>1
        <5>3. Len(g) - Limit + i = Len(h)
          BY ONLY <1>1, <2>1, <4>1
        <5> QED
          BY <2>1, <5>2, <5>3
      <4>2. CASE i < Limit
        <5>1. i + 1 \in 1 .. Len(q) /\ d + i \in 1 .. Len(h) - 1 /\ ~(d + i < k)
          BY <1>1, <1>3, <2>2, <3>3, <4>2
        <5>2. Tail(r)[i].tx = h[d + (i + 1)]
          BY <1>3, <3>2, <3>4, <5>1
        <5>3. g[d + i] = h[(d + i) + 1]
          BY <2>1, <5>1
        <5>4. d + (i + 1) = (d + i) + 1 /\ Len(g) - Limit + i = d + i
          BY <1>1, <1>3, <2>1, <3>3
        <5> QED
          BY <5>2, <5>3, <5>4
      <4>3. i = Limit \/ i < Limit
        BY <1>1
      <4> QED
        BY <4>1, <4>2, <4>3
    <3>6. Len(Tail(r)) = IF Len(g) < Limit THEN Len(g) ELSE Limit
      BY <1>1, <1>2, <3>4
    <3>7. \A i \in 1 .. Len(Tail(r)) : Tail(r)[i].tx = g[Len(g) - Len(Tail(r)) + i]
      BY <3>4, <3>5
    <3>8. IsEndOf(Tail(r), g)
      BY ONLY <3>6, <3>7 DEF IsEndOf
    <3> QED
      BY <3>4, <3>8 DEF g
  <2>3. CASE k > d
    <3>1. k - d \in 1 .. Len(q) /\ d + (k - d) = k
      BY <1>1, <1>3, <2>3
    <3>2. q[k - d].tx = t
      BY <1>3, <3>1
    <3>7. ASSUME NEW i \in 1 .. Len(q), q[i].tx = t PROVE i = k - d
      <4>1. d + i = k
        BY <1>3, <3>7
      <4> QED
        BY <1>1, <4>1
    <3>3. IsMoved(r, q, k - d, e)
      BY <3>1, <3>2, <3>7, InsertLemma DEF r, e
    <3>4. /\ Len(r) = Len(q) /\ r[Len(q)] = e
          /\ \A i \in 1 .. Len(q) - 1 : r[i] = IF i < k - d THEN q[i] ELSE q[i + 1]
      BY <3>3 DEF IsMoved
    <3>5. \A i \in 1 .. Len(q) : r[i].tx = g[d + i]
      <4> TAKE i \in 1 .. Len(q)
      <4>1. CASE i = Len(q)
        BY <1>1, <2>1, <3>4, <4>1
      <4>2. CASE i < Len(q)
        <5>1. /\ i \in 1 .. Len(q) - 1 /\ i + 1 \in 1 .. Len(q) /\ d + i \in 1 .. Len(h) - 1
              /\ (i < k - d <=> d + i < k) /\ d + (i + 1) = (d + i) + 1
          <6>1. /\ i \in Nat /\ i >= 1 /\ i < Len(q) /\ Len(q) \in Nat /\ Len(h) \in Nat
                /\ d \in Nat /\ k \in Nat
            BY <1>1, <1>3, <4>2
          <6> QED
            BY ONLY <6>1
        <5>2. r[i].tx = IF i < k - d THEN h[d + i] ELSE h[d + (i + 1)]
          BY <1>3, <3>4, <5>1
        <5>3. g[d + i] = IF d + i < k THEN h[d + i] ELSE h[(d + i) + 1]
          BY <2>1, <5>1
        <5> QED
          BY <5>1, <5>2, <5>3
      <4> QED
        BY <1>1, <4>1, <4>2
    <3>6. Push(q, t) = r
      BY <1>3, <1>4, <3>4
    <3> QED
      BY <2>1, <3>4, <3>5, <3>6 DEF IsEndOf, g
  <2> QED
    BY <1>1, <2>2, <2>3
<1> QED
  BY <1>5, <1>6, ResubmitLemma DEF g

-----------------------------------------------------------------------------
(* Types.                                                                    *)

\* The peers that a handler has noted.
NotedOK(f) == DOMAIN f \subseteq Peers /\ f \in [DOMAIN f -> Times]
OpenedOK(o) == DOMAIN o = Versions /\ \A v \in Versions : NotedOK(o[v])

Calls == {"connected", "disconnected"}
EventsOK(e) == e \in [Versions -> [Peers -> Seq(Calls)]]
InboxOK(i) == i \in [Versions -> [Peers -> SUBSET Txs]]

\* The type invariant, in these parts.
LEMMA TypeParts ==
    TypeOK <=> /\ pending \in Seq(Entries) /\ Len(pending) <= Limit
               /\ updated \in 0 .. Window + 1
               /\ submits \in 0 .. MaxSubmits /\ troubles \in 0 .. MaxTroubles
               /\ OpenedOK(opened)
               /\ connected \subseteq Peers /\ modern \subseteq Peers
               /\ session \in [Versions -> SUBSET connected]
               /\ EventsOK(events) /\ InboxOK(inbox)
               /\ panicked \cup due \subseteq Versions
               /\ history \in Seq(Txs) /\ announced \subseteq Peers \X Txs /\ relayed \subseteq Txs
               /\ twice \in BOOLEAN
BY DEF TypeOK, OpenedOK, NotedOK, EventsOK, InboxOK, Calls

\* Telling peers changes nothing but who was told.
LEMMA TellLemma ==
    ASSUME NEW q \in Seq(Entries), NEW ps \in SUBSET Peers
    PROVE  /\ Tell(q, ps) \in Seq(Entries) /\ Len(Tell(q, ps)) = Len(q)
           /\ \A k \in 1 .. Len(q) : /\ Tell(q, ps)[k].tx = q[k].tx
                                    /\ Tell(q, ps)[k].told = q[k].told \cup ps
<1>1. Len(q) \in Nat /\ DOMAIN q = 1 .. Len(q) /\ q \in [1 .. Len(q) -> Entries]
  BY LenProperties
<1>2. \A k \in 1 .. Len(q) : [q[k] EXCEPT !.told = @ \cup ps] \in Entries
  <2>1. ASSUME NEW e \in Entries PROVE [e EXCEPT !.told = @ \cup ps] \in Entries
    BY DEF Entries
  <2> QED
    BY <1>1, <2>1
<1>3. Tell(q, ps) \in [1 .. Len(q) -> Entries]
  BY <1>1, <1>2 DEF Tell
<1>4. Tell(q, ps) \in Seq(Entries) /\ Len(Tell(q, ps)) = Len(q)
  BY <1>1, <1>3
<1>5. ASSUME NEW k \in 1 .. Len(q)
      PROVE  /\ Tell(q, ps)[k].tx = q[k].tx
             /\ Tell(q, ps)[k].told = q[k].told \cup ps
  <2>1. q[k] \in Entries /\ Tell(q, ps)[k] = [q[k] EXCEPT !.told = @ \cup ps]
    BY <1>1 DEF Tell
  <2> QED
    BY <2>1 DEF Entries
<1> QED
  BY <1>4, <1>5

\* What a peer has not been told of is in the queue.
LEMMA UntoldLemma ==
    ASSUME NEW q \in Seq(Entries), NEW p \in Peers
    PROVE  /\ Untold(q, p) \subseteq Txs
           /\ \A t \in Untold(q, p) : \E k \in 1 .. Len(q) : q[k].tx = t /\ p \notin q[k].told
<1>1. DOMAIN q = 1 .. Len(q) /\ q \in [1 .. Len(q) -> Entries]
  BY LenProperties
<1>2. \A k \in 1 .. Len(q) : q[k].tx \in Txs
  BY <1>1 DEF Entries
<1> QED
  BY <1>1, <1>2 DEF Untold

\* What a handler notes of its peers has its type.
LEMMA OpenedLemma ==
    ASSUME NEW o, OpenedOK(o), NEW v \in Versions, NEW f, NotedOK(f)
    PROVE  OpenedOK([o EXCEPT ![v] = f])
BY DEF OpenedOK

LEMMA EventsLemma ==
    ASSUME EventsOK(events), NEW v \in Versions, NEW f \in [Peers -> Seq(Calls)]
    PROVE  EventsOK([events EXCEPT ![v] = f])
BY DEF EventsOK

\* An announcement of hashes to some of the peers.
LEMMA AnnounceLemma ==
    ASSUME InboxOK(inbox), announced \subseteq Peers \X Txs, relayed \subseteq Txs,
           NEW v \in Versions, NEW ps \in SUBSET Peers, NEW news, \A p \in ps : news[p] \subseteq Txs,
           Announce(v, ps, news)
    PROVE  InboxOK(inbox') /\ announced' \subseteq Peers \X Txs /\ relayed' \subseteq Txs
             /\ twice' \in BOOLEAN
<1> DEFINE f == [p \in Peers |-> IF p \in ps \cap session[v] THEN inbox[v][p] \cup news[p]
                                 ELSE inbox[v][p]]
           sent == UNION {{<<p, t>> : t \in news[p]} : p \in ps}
<1>1. inbox' = [inbox EXCEPT ![v] = f] /\ announced' = announced \cup sent
        /\ twice' = (twice \/ announced \cap sent # {}) /\ relayed' = relayed
  BY DEF Announce
<1>2. f \in [Peers -> SUBSET Txs]
  BY DEF InboxOK
<1>3. sent \subseteq Peers \X Txs
  OBVIOUS
<1> HIDE DEF f, sent
<1>4. InboxOK(inbox')
  BY <1>1, <1>2 DEF InboxOK
<1> QED
  BY <1>1, <1>3, <1>4

\* A call to a handler.
LEMMA CallLemma ==
    ASSUME EventsOK(events), NEW v \in Versions, NEW p \in Peers, NEW kind, Call(v, p, kind)
    PROVE  EventsOK(events')
<1>1. events[v][p] \in Seq(Calls) /\ events[v][p] # <<>>
  BY DEF Call, EventsOK
<1>2. Tail(events[v][p]) \in Seq(Calls)
  BY <1>1, HeadTailProperties
<1> QED
  BY <1>2 DEF Call, EventsOK

LEMMA SendTransactionType ==
    ASSUME TypeOK, NEW t \in Txs, SendTransaction(t)
    PROVE  TypeOK'
<1>1. pending' \in Seq(Entries) /\ Len(pending') <= Limit
  BY PushLemma DEF TypeOK, SendTransaction
<1>2. history' \in Seq(Txs)
  <2> DEFINE at == {k \in DOMAIN history : history[k] = t}
  <2>1. history \in Seq(Txs) /\ history' = Append(Drop(history, at), t) /\ at \in SUBSET DOMAIN history
    BY DEF TypeOK, SendTransaction
  <2> HIDE DEF at
  <2>2. CASE at = {}
    BY <2>1, <2>2, AppendLemma DEF Drop
  <2>3. CASE at # {}
    BY <2>1, <2>3, DropAppendLemma
  <2> QED
    BY <2>2, <2>3
<1>3. submits' \in 0 .. MaxSubmits /\ updated' \in 0 .. Window + 1
  BY RelayAssumption DEF TypeOK, SendTransaction
<1>4. announced' \subseteq Peers \X Txs /\ relayed' \subseteq Txs
  BY DEF TypeOK, SendTransaction
<1>5. UNCHANGED <<netVars, inbox, twice, opened, panicked, due>>
  BY DEF SendTransaction
<1> QED
  BY <1>1, <1>2, <1>3, <1>4, <1>5 DEF TypeOK, netVars

LEMMA ConnectedType ==
    ASSUME TypeOK, NEW v \in Versions, NEW p \in Peers, Connected(v, p)
    PROVE  TypeOK'
<1> DEFINE news == [q \in {p} |-> Untold(pending, p)]
<1>1. EventsOK(events')
  BY TypeParts, CallLemma DEF Connected
<1>2. UNCHANGED <<updated, submits, history, session, connected, modern, troubles, due>>
  BY DEF Connected
<1>3. ASSUME NEW n \in Times
      PROVE  OpenedOK([opened EXCEPT ![v] =
                [q \in DOMAIN opened[v] \cup {p} |-> IF q = p THEN n ELSE opened[v][q]]])
  <2>1. NotedOK([q \in DOMAIN opened[v] \cup {p} |-> IF q = p THEN n ELSE opened[v][q]])
    BY TypeParts DEF OpenedOK, NotedOK
  <2> QED
    BY <2>1, TypeParts, OpenedLemma
<1>4. Never \in Times /\ 0 \in Times
  BY RelayAssumption DEF Times
<1>5. CASE UNCHANGED <<opened, pending, panicked, relayVars>>
  BY <1>1, <1>2, <1>5, TypeParts DEF TypeOK, EventsOK, Calls, relayVars
<1>6. CASE /\ pending' = Tell(pending, {p})
           /\ opened' = [opened EXCEPT ![v] =
                 [q \in DOMAIN opened[v] \cup {p} |-> IF q # p THEN opened[v][q]
                                                       ELSE IF news[p] = {} THEN Never ELSE 0]]
           /\ Announce(v, {p}, news) /\ UNCHANGED panicked
  <2>1. pending' \in Seq(Entries) /\ Len(pending') <= Limit
    BY <1>6, TellLemma DEF TypeOK
  <2>2. OpenedOK(opened')
    <3>1. PICK n \in Times : n = IF news[p] = {} THEN Never ELSE 0
      BY <1>4
    <3>2. [q \in DOMAIN opened[v] \cup {p} |-> IF q # p THEN opened[v][q]
                                                 ELSE IF news[p] = {} THEN Never ELSE 0]
            = [q \in DOMAIN opened[v] \cup {p} |-> IF q = p THEN n ELSE opened[v][q]]
      BY <3>1
    <3> QED
      BY <1>3, <1>6, <3>2
  <2>3. /\ InboxOK(inbox') /\ announced' \subseteq Peers \X Txs /\ relayed' \subseteq Txs
        /\ twice' \in BOOLEAN
    <3>1. \A q \in {p} : news[q] \subseteq Txs
      BY UntoldLemma DEF TypeOK
    <3> HIDE DEF news
    <3> QED
      BY <1>6, <3>1, TypeParts, AnnounceLemma
  <2> QED
    BY <1>1, <1>2, <1>6, <2>1, <2>2, <2>3
    DEF TypeOK, OpenedOK, NotedOK, EventsOK, InboxOK, Calls
<1>7. CASE /\ opened' = [opened EXCEPT ![v] =
                 [q \in DOMAIN opened[v] \cup {p} |-> IF q = p THEN Never ELSE opened[v][q]]]
           /\ UNCHANGED <<pending, panicked, relayVars>>
  <2>1. OpenedOK(opened')
    BY <1>3, <1>4, <1>7
  <2> QED
    BY <1>1, <1>2, <1>7, <2>1 DEF TypeOK, OpenedOK, NotedOK, EventsOK, Calls, relayVars
<1>8. CASE panicked' = panicked \cup {v} /\ UNCHANGED <<opened, pending, relayVars>>
  BY <1>1, <1>2, <1>8 DEF TypeOK, EventsOK, Calls, relayVars
<1> QED
  BY <1>5, <1>6, <1>7, <1>8 DEF Connected

LEMMA DisconnectedType ==
    ASSUME TypeOK, NEW v \in Versions, NEW p \in Peers, Disconnected(v, p)
    PROVE  TypeOK'
<1>1. EventsOK(events')
  BY TypeParts, CallLemma DEF Disconnected
<1>2. OpenedOK(opened')
  <2>1. NotedOK([q \in DOMAIN opened[v] \ {p} |-> opened[v][q]])
    BY TypeParts DEF OpenedOK, NotedOK
  <2> QED
    BY <2>1, TypeParts, OpenedLemma DEF Disconnected
<1> QED
  BY <1>1, <1>2 DEF Disconnected, TypeOK, OpenedOK, NotedOK, EventsOK, Calls, queueVars, relayVars

LEMMA ReceivedType ==
    ASSUME TypeOK, NEW v \in Versions, NEW p \in Peers, Received(v, p)
    PROVE  TypeOK'
<1>1. InboxOK(inbox')
  BY TypeParts DEF InboxOK, Received
<1>2. relayed' \subseteq Txs
  BY TypeParts DEF InboxOK, Received
<1>3. UNCHANGED <<queueVars, netVars, announced, twice, opened, panicked, due>>
  BY DEF Received
<1> QED
  BY <1>1, <1>2, <1>3 DEF TypeOK, InboxOK, queueVars, netVars

LEMMA NotifyOpenType ==
    ASSUME TypeOK, NEW v \in Versions, NotifyOpen(v)
    PROVE  TypeOK'
<1>1. session' \in [Versions -> SUBSET connected]
  BY DEF TypeOK, NotifyOpen
<1>2. EventsOK(events')
  <2> DEFINE f == [p \in Peers |-> IF p \in connected \ session[v]
                                   THEN Append(events[v][p], "connected") ELSE events[v][p]]
  <2>1. \A p \in Peers : events[v][p] \in Seq(Calls) /\ "connected" \in Calls
    BY TypeParts DEF EventsOK, Calls
  <2>2. \A p \in Peers : Append(events[v][p], "connected") \in Seq(Calls)
    BY <2>1, AppendLemma
  <2>3. f \in [Peers -> Seq(Calls)]
    BY <2>1, <2>2
  <2>4. events' = [events EXCEPT ![v] = f]
    BY DEF NotifyOpen
  <2> HIDE DEF f
  <2> QED
    BY <2>3, <2>4, TypeParts, EventsLemma
<1>3. due' = due \ {v}
        /\ UNCHANGED <<queueVars, connected, modern, troubles, relayVars, opened, panicked>>
  BY DEF NotifyOpen
<1> QED
  BY <1>1, <1>2, <1>3 DEF TypeOK, EventsOK, Calls, queueVars, relayVars

LEMMA NotifyTellType ==
    ASSUME TypeOK, NEW v \in Versions, NotifyTell(v)
    PROVE  TypeOK'
<1> DEFINE ps    == DOMAIN opened[v] \cap connected
           news  == [p \in ps |-> Untold(pending, p)]
           quiet == {p \in ps : news[p] = {} /\ Inactive(v, p)} \cap session[v]
           f == [p \in DOMAIN opened[v] |-> IF p \in ps /\ news[p] # {} THEN 0 ELSE opened[v][p]]
           g == [p \in Peers |-> IF p \in quiet THEN Append(events[v][p], "disconnected")
                                 ELSE events[v][p]]
<1>1. /\ pending' = Tell(pending, ps) /\ Announce(v, ps, news)
      /\ opened' = [opened EXCEPT ![v] = f] /\ events' = [events EXCEPT ![v] = g]
      /\ session' = [session EXCEPT ![v] = @ \ quiet] /\ due' = due \ {v}
      /\ UNCHANGED <<updated, submits, history, connected, modern, troubles, panicked>>
  BY DEF NotifyTell
<1>2. ps \in SUBSET Peers
  BY DEF TypeOK
<1>3. pending' \in Seq(Entries) /\ Len(pending') <= Limit
  BY <1>1, <1>2, TellLemma DEF TypeOK
<1>4. OpenedOK(opened')
  <2>1. 0 \in Times
    BY RelayAssumption DEF Times
  <2>2. NotedOK(f)
    BY <2>1, TypeParts DEF OpenedOK, NotedOK
  <2> HIDE DEF f
  <2> QED
    BY <1>1, <2>2, TypeParts, OpenedLemma
<1>5. EventsOK(events')
  <2>1. \A p \in Peers : events[v][p] \in Seq(Calls) /\ "disconnected" \in Calls
    BY TypeParts DEF EventsOK, Calls
  <2>2. \A p \in Peers : Append(events[v][p], "disconnected") \in Seq(Calls)
    BY <2>1, AppendLemma
  <2> HIDE DEF quiet
  <2>3. g \in [Peers -> Seq(Calls)]
    BY <2>1, <2>2
  <2> HIDE DEF g
  <2> QED
    BY <1>1, <2>3, TypeParts, EventsLemma
<1>6. session' \in [Versions -> SUBSET connected]
  <2> HIDE DEF quiet
  <2> QED
    BY <1>1 DEF TypeOK
<1>7. /\ InboxOK(inbox') /\ announced' \subseteq Peers \X Txs /\ relayed' \subseteq Txs
      /\ twice' \in BOOLEAN
  <2>1. \A p \in ps : news[p] \subseteq Txs
    BY <1>2, UntoldLemma DEF TypeOK
  <2> HIDE DEF news, ps
  <2> QED
    BY <1>1, <1>2, <2>1, TypeParts, AnnounceLemma
<1> HIDE DEF ps, news, quiet, f, g
<1> QED
  BY <1>1, <1>3, <1>4, <1>5, <1>6, <1>7
  DEF TypeOK, OpenedOK, NotedOK, EventsOK, InboxOK, Calls

LEMMA TickType ==
    ASSUME TypeOK, Tick
    PROVE  TypeOK'
<1>1. \A n \in Times : Later(n) \in Times
  BY RelayAssumption DEF Times, Later, Never
<1>2. updated' \in 0 .. Window + 1
  BY RelayAssumption DEF TypeOK, Tick, Later, Never
<1>3. troubles' \in 0 .. MaxTroubles
  <2>1. troubles' = IF Settled THEN troubles ELSE troubles + 1
    BY DEF Tick
  <2>2. troubles' \in {troubles, troubles + 1} /\ troubles' <= MaxTroubles
    BY <2>1 DEF Tick
  <2> QED
    BY <2>2, RelayAssumption DEF TypeOK
<1>4. OpenedOK(opened')
  <2>1. \A v \in Versions : NotedOK([p \in DOMAIN opened[v] |-> Later(opened[v][p])])
    BY <1>1, TypeParts DEF OpenedOK, NotedOK
  <2>2. opened' = [v \in Versions |-> [p \in DOMAIN opened[v] |-> Later(opened[v][p])]]
    BY DEF Tick
  <2> QED
    BY <2>1, <2>2 DEF OpenedOK
<1>5. due' = Versions \ panicked
       /\ UNCHANGED <<pending, submits, history, session, events, connected, modern, relayVars, panicked>>
  BY DEF Tick
<1> QED
  BY <1>2, <1>3, <1>4, <1>5 DEF TypeOK, OpenedOK, NotedOK, relayVars

LEMMA LoseType ==
    ASSUME TypeOK, NEW p \in Peers, Lose(p)
    PROVE  TypeOK'
<1>1. troubles' \in 0 .. MaxTroubles
  BY RelayAssumption DEF TypeOK, Lose
<1>2. connected' \subseteq Peers /\ session' \in [Versions -> SUBSET connected']
  BY DEF TypeOK, Lose
<1>3. EventsOK(events')
  <2>1. \A v \in Versions : /\ events[v] \in [Peers -> Seq(Calls)]
                           /\ events[v][p] \in Seq(Calls) /\ "disconnected" \in Calls
    BY TypeParts DEF EventsOK, Calls
  <2>2. \A v \in Versions : Append(events[v][p], "disconnected") \in Seq(Calls)
    BY <2>1, AppendLemma
  <2>3. \A v \in Versions :
           [events[v] EXCEPT ![p] = IF p \in session[v] THEN Append(@, "disconnected") ELSE @]
              \in [Peers -> Seq(Calls)]
    BY <2>1, <2>2
  <2>4. events' = [v \in Versions |-> [events[v] EXCEPT ![p] =
                      IF p \in session[v] THEN Append(@, "disconnected") ELSE @]]
    BY DEF Lose
  <2> QED
    BY <2>3, <2>4 DEF EventsOK
<1>4. InboxOK(inbox')
  BY TypeParts DEF InboxOK, Lose
<1>5. UNCHANGED <<queueVars, modern, announced, relayed, twice, opened, panicked, due>>
  BY DEF Lose
<1> QED
  BY <1>1, <1>2, <1>3, <1>4, <1>5 DEF TypeOK, EventsOK, InboxOK, Calls, queueVars

LEMMA ReturnType ==
    ASSUME TypeOK, NEW p \in Peers, Return(p) \/ Upgrade(p)
    PROVE  TypeOK'
<1>1. troubles' \in 0 .. MaxTroubles /\ modern' \subseteq Peers /\ connected' \subseteq Peers
  BY RelayAssumption DEF TypeOK, Return, Upgrade
<1>2. session' \in [Versions -> SUBSET connected']
  BY DEF TypeOK, Return, Upgrade
<1>3. UNCHANGED <<queueVars, events, relayVars, opened, panicked, due>>
  BY DEF Return, Upgrade
<1> QED
  BY <1>1, <1>2, <1>3 DEF TypeOK, queueVars, relayVars

\* The types hold: in particular the queue never grows beyond PendingTxs::limit,
\* a handler notes only peers, and a session of the protocol is with a connected
\* peer, whatever peers are lost, return or cross the hard fork.
THEOREM RelayTypeCorrect == Spec => []TypeOK
<1>1. Init => TypeOK
  <2> SUFFICES ASSUME Init PROVE TypeOK
    OBVIOUS
  <2>1. OpenedOK(opened)
    BY DEF Init, OpenedOK, NotedOK, NoPeers
  <2>2. /\ pending \in Seq(Entries) /\ Len(pending) = 0 /\ history \in Seq(Txs)
        /\ <<>> \in Seq(Calls)
    BY DEF Init
  <2>3. EventsOK(events) /\ InboxOK(inbox)
    BY <2>2 DEF Init, EventsOK, InboxOK
  <2>4. /\ Len(pending) <= Limit /\ updated \in 0 .. Window + 1
        /\ submits \in 0 .. MaxSubmits /\ troubles \in 0 .. MaxTroubles
    BY <2>2, RelayAssumption DEF Init
  <2>5. /\ connected \subseteq Peers /\ modern \subseteq Peers
        /\ session \in [Versions -> SUBSET connected] /\ panicked \cup due \subseteq Versions
        /\ announced \subseteq Peers \X Txs /\ relayed \subseteq Txs /\ twice \in BOOLEAN
    BY RelayAssumption DEF Init
  <2> QED
    BY <2>1, <2>2, <2>3, <2>4, <2>5, TypeParts
<1>2. TypeOK /\ [Next]_vars => TypeOK'
  <2> SUFFICES ASSUME TypeOK, [Next]_vars PROVE TypeOK'
    OBVIOUS
  <2>1. CASE UNCHANGED vars
    BY <2>1 DEF TypeOK, vars, queueVars, netVars, relayVars
  <2> QED
    BY <2>1, SendTransactionType, ConnectedType, DisconnectedType, ReceivedType, NotifyOpenType,
       NotifyTellType, TickType, LoseType, ReturnType DEF Next
<1> QED
  BY <1>1, <1>2, PTL DEF Spec

-----------------------------------------------------------------------------
(* The queue and the order of submissions.                                   *)

\* The queue is the end of the order of submissions, in which nothing is twice.
RecentInv == IsEndOf(pending, history) /\ Distinct(history)

\* Only a submission changes the order; telling peers leaves the queue's.
LEMMA RecentStep ==
    ASSUME TypeOK, RecentInv, [Next]_vars
    PROVE  RecentInv'
<1>0. Len(pending) \in Nat /\ pending \in Seq(Entries)
  BY LenProperties DEF TypeOK
<1>1. ASSUME NEW t \in Txs, SendTransaction(t)
      PROVE  RecentInv'
  <2>1. pending' = Push(pending, t) /\ history' = Resubmit(history, t)
    BY <1>1 DEF SendTransaction, Resubmit
  <2>2. IsEndOf(Push(pending, t), Resubmit(history, t)) /\ Distinct(Resubmit(history, t))
    BY PushKeepsEnd, ResubmitLemma DEF TypeOK, RecentInv
  <2> QED
    BY <2>1, <2>2 DEF RecentInv
<1>2. ASSUME NEW ps \in SUBSET Peers, pending' = Tell(pending, ps), history' = history
      PROVE  RecentInv'
  <2>1. /\ Len(pending') = Len(pending)
        /\ \A k \in 1 .. Len(pending) : pending'[k].tx = pending[k].tx
    BY <1>0, <1>2, TellLemma
  <2> QED
    BY <1>2, <2>1 DEF RecentInv, IsEndOf, Distinct
<1>3. ASSUME UNCHANGED <<pending, history>>
      PROVE  RecentInv'
  BY <1>3 DEF RecentInv, IsEndOf, Distinct
<1>4. ASSUME NEW v \in Versions, NEW p \in Peers, Connected(v, p)
      PROVE  RecentInv'
  BY <1>2, <1>3, <1>4 DEF Connected
<1>5. ASSUME NEW v \in Versions, NotifyTell(v)
      PROVE  RecentInv'
  <2>1. DOMAIN opened[v] \cap connected \in SUBSET Peers
    BY DEF TypeOK
  <2> QED
    BY <1>2, <1>5, <2>1 DEF NotifyTell
<1>6. ASSUME NEW v \in Versions, NotifyOpen(v)
      PROVE  RecentInv'
  BY <1>3, <1>6 DEF NotifyOpen, queueVars
<1>7. ASSUME NEW v \in Versions, NEW p \in Peers, Disconnected(v, p) \/ Received(v, p)
      PROVE  RecentInv'
  BY <1>3, <1>7 DEF Disconnected, Received, queueVars
<1>8. ASSUME NEW p \in Peers, Lose(p) \/ Return(p) \/ Upgrade(p)
      PROVE  RecentInv'
  BY <1>3, <1>8 DEF Lose, Return, Upgrade, queueVars
<1>9. CASE Tick \/ UNCHANGED vars
  BY <1>3, <1>9 DEF Tick, vars, queueVars
<1> QED
  BY <1>1, <1>4, <1>5, <1>6, <1>7, <1>8, <1>9 DEF Next

\* push gives up only the oldest: the queue holds the last submissions, in the
\* order of their last submission, at every moment.
THEOREM QueueKeepsRecent == Spec => []RecentAreKept
<1>1. Init => RecentInv
  <2> SUFFICES ASSUME Init PROVE RecentInv
    OBVIOUS
  <2>1. pending = <<>> /\ history = <<>> /\ Len(<<>>) = 0
    BY DEF Init
  <2> QED
    BY <2>1, RelayAssumption DEF RecentInv, IsEndOf, Distinct
<1>2. TypeOK /\ RecentInv /\ [Next]_vars => RecentInv'
  BY RecentStep
<1>3. TypeOK /\ RecentInv => RecentAreKept
  <2> SUFFICES ASSUME TypeOK, RecentInv PROVE RecentAreKept
    OBVIOUS
  <2>1. DOMAIN pending = 1 .. Len(pending)
    BY LenProperties DEF TypeOK
  <2> QED
    BY <2>1 DEF RecentInv, IsEndOf, RecentAreKept
<1> QED
  BY <1>1, <1>2, <1>3, RelayTypeCorrect, PTL DEF Spec

-----------------------------------------------------------------------------
(* A submission is announced to a peer once.                                 *)

\* Who a transaction in the queue was announced to, since its last submission, is
\* noted in its entry.
ToldInv ==
    /\ ~twice
    /\ \A p \in Peers, k \in 1 .. Len(pending) :
          <<p, pending[k].tx>> \in announced => p \in pending[k].told

\* Whoever announces what it has not told notes it before anybody else looks.
LEMMA AnnounceOnce ==
    ASSUME TypeOK, ToldInv, NEW v \in Versions, NEW ps \in SUBSET Peers, NEW news,
           \A p \in ps : news[p] = Untold(pending, p),
           Announce(v, ps, news), pending' = Tell(pending, ps)
    PROVE  ToldInv'
<1> DEFINE sent == UNION {{<<p, t>> : t \in news[p]} : p \in ps}
<1>1. announced' = announced \cup sent /\ twice' = (twice \/ announced \cap sent # {})
  BY DEF Announce
<1>2. ASSUME NEW p, NEW t, <<p, t>> \in sent
      PROVE  p \in ps /\ <<p, t>> \notin announced
  <2>1. PICK q \in ps : <<p, t>> \in {<<q, u>> : u \in news[q]}
    BY <1>2
  <2>2. p = q /\ t \in Untold(pending, q)
    <3>1. PICK u \in news[q] : <<p, t>> = <<q, u>>
      BY <2>1, Zenon
    <3>2. p = q /\ t = u
      BY <3>1
    <3> QED
      BY <3>1, <3>2
  <2>3. \E k \in 1 .. Len(pending) : pending[k].tx = t /\ p \notin pending[k].told
    <3>1. pending \in Seq(Entries)
      BY DEF TypeOK
    <3> QED
      BY <2>2, <3>1, UntoldLemma
  <2> QED
    BY <2>2, <2>3 DEF ToldInv
<1>3. \A a \in sent : \E p, t : a = <<p, t>>
  OBVIOUS
<1> HIDE DEF sent
<1>4. ~twice'
  <2>1. announced \cap sent = {}
    <3>1. ASSUME NEW a \in sent PROVE a \notin announced
      BY <1>2, <1>3
    <3> QED
      BY <3>1
  <2>2. ~twice
    BY DEF ToldInv
  <2> QED
    BY <1>1, <2>1, <2>2, Zenon
<1>5. /\ Len(pending') = Len(pending)
      /\ \A k \in 1 .. Len(pending) : /\ pending'[k].tx = pending[k].tx
                                      /\ pending'[k].told = pending[k].told \cup ps
  <2>1. pending \in Seq(Entries)
    BY DEF TypeOK
  <2> QED
    BY <2>1, TellLemma
<1>6. ASSUME NEW p \in Peers, NEW k \in 1 .. Len(pending'), <<p, pending'[k].tx>> \in announced'
      PROVE  p \in pending'[k].told
  BY <1>1, <1>2, <1>5, <1>6 DEF ToldInv
<1> QED
  BY <1>4, <1>6 DEF ToldInv

\* A submission forgets its announcements together with who was told.
LEMMA SubmitOnce ==
    ASSUME TypeOK, ToldInv, NEW t \in Txs, SendTransaction(t)
    PROVE  ToldInv'
<1>1. /\ pending' = Push(pending, t) /\ announced' = {a \in announced : a[2] # t}
      /\ twice' = twice
  BY DEF SendTransaction
<1>2. ASSUME NEW p \in Peers, NEW k \in 1 .. Len(pending'), <<p, pending'[k].tx>> \in announced'
      PROVE  p \in pending'[k].told
  <2>1. <<p, pending'[k].tx>> \in announced /\ pending'[k].tx # t
    BY <1>1, <1>2
  <2>2. \/ pending'[k] = [tx |-> t, told |-> {}]
        \/ \E j \in 1 .. Len(pending) : pending'[k] = pending[j]
    BY <1>1, PushLemma DEF TypeOK
  <2> QED
    BY <2>1, <2>2 DEF ToldInv
<1> QED
  BY <1>1, <1>2 DEF ToldInv

LEMMA ToldStep ==
    ASSUME TypeOK, ToldInv, [Next]_vars
    PROVE  ToldInv'
<1>1. ASSUME UNCHANGED <<pending, announced, twice>>
      PROVE  ToldInv'
  BY <1>1 DEF ToldInv
<1>2. ASSUME NEW v \in Versions, NEW p \in Peers, Connected(v, p)
      PROVE  ToldInv'
  <2> DEFINE news == [q \in {p} |-> Untold(pending, p)]
  <2>1. CASE pending' = Tell(pending, {p}) /\ Announce(v, {p}, news)
    <3>1. \A q \in {p} : news[q] = Untold(pending, q)
      OBVIOUS
    <3>2. {p} \in SUBSET Peers
      OBVIOUS
    <3> HIDE DEF news
    <3> QED
      BY <2>1, <3>1, <3>2, AnnounceOnce
  <2>2. CASE UNCHANGED <<pending, relayVars>>
    BY <1>1, <2>2 DEF relayVars
  <2> QED
    BY <1>2, <2>1, <2>2 DEF Connected
<1>3. ASSUME NEW v \in Versions, NotifyTell(v)
      PROVE  ToldInv'
  <2> DEFINE ps   == DOMAIN opened[v] \cap connected
             news == [p \in ps |-> Untold(pending, p)]
  <2>1. pending' = Tell(pending, ps) /\ Announce(v, ps, news)
    BY <1>3 DEF NotifyTell
  <2>2. \A p \in ps : news[p] = Untold(pending, p)
    OBVIOUS
  <2>3. ps \in SUBSET Peers
    BY DEF TypeOK
  <2> HIDE DEF ps, news
  <2> QED
    BY <2>1, <2>2, <2>3, AnnounceOnce
<1>4. ASSUME NEW v \in Versions, NotifyOpen(v)
      PROVE  ToldInv'
  BY <1>1, <1>4 DEF NotifyOpen, queueVars, relayVars
<1>5. ASSUME NEW v \in Versions, NEW p \in Peers, Disconnected(v, p) \/ Received(v, p)
      PROVE  ToldInv'
  BY <1>1, <1>5 DEF Disconnected, Received, queueVars, relayVars
<1>6. ASSUME NEW p \in Peers, Lose(p) \/ Return(p) \/ Upgrade(p)
      PROVE  ToldInv'
  BY <1>1, <1>6 DEF Lose, Return, Upgrade, queueVars, relayVars
<1>7. CASE Tick \/ UNCHANGED vars
  BY <1>1, <1>7 DEF Tick, vars, queueVars, relayVars
<1> QED
  BY <1>2, <1>3, <1>4, <1>5, <1>6, <1>7, SubmitOnce DEF Next

\* A peer is told of a submission once: two handlers that share the queue, their
\* timers and the peers that come back never announce it to a peer again.
THEOREM ToldOnlyOnce == Spec => []AnnouncedOnce
<1>1. Init => ToldInv
  BY DEF Init, ToldInv
<1>2. TypeOK /\ ToldInv /\ [Next]_vars => ToldInv'
  BY ToldStep
<1>3. ToldInv => AnnouncedOnce
  BY DEF ToldInv, AnnouncedOnce
<1> QED
  BY <1>1, <1>2, <1>3, RelayTypeCorrect, PTL DEF Spec
=============================================================================
