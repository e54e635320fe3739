------------------------- MODULE FilterHashesProofs -------------------------
(***************************************************************************)
(* Theorems about FilterHashes, for every block tree with short forks, any  *)
(* peers, interval and message sizes: the cached hashes are those of the    *)
(* chain, and what the peers agree on is one chain behind the check points. *)
(***************************************************************************)
EXTENDS FilterHashes, ChainProofs, SequenceTheorems, FiniteSetTheorems

-----------------------------------------------------------------------------
(* Intervals.                                                                *)

LEMMA TimesMonotone ==
    ASSUME NEW i \in Nat, NEW j \in Nat, NEW k \in Nat, i <= j
    PROVE  i * k <= j * k
OBVIOUS

LEMMA TimesLess ==
    ASSUME NEW i \in Nat, NEW j \in Nat, NEW k \in Nat \ {0}, i * k < j * k
    PROVE  i < j
OBVIOUS

LEMMA NextTimes ==
    ASSUME NEW i \in Nat, NEW k \in Nat
    PROVE  i * k \in Nat /\ (i + 1) * k = i * k + k
OBVIOUS

LEMMA DivTimes ==
    ASSUME NEW n \in Nat, NEW k \in Nat \ {0}
    PROVE  n \div k \in Nat /\ (n \div k) * k <= n
OBVIOUS

LEMMA PointLemma ==
    ASSUME NEW i \in Nat
    PROVE  /\ PointNumber(i) \in Nat /\ PointNumber(i + 1) = PointNumber(i) + Interval
           /\ \A j \in Nat : i <= j => PointNumber(i) <= PointNumber(j)
           /\ \A j \in Nat : PointNumber(i) < PointNumber(j) => i < j
<1>1. Interval \in Nat \ {0}
  BY FilterHashesAssumption
<1> QED
  BY <1>1, NextTimes, TimesMonotone, TimesLess DEF PointNumber

LEMMA SyncIndexType == \A n \in Nat : SyncIndex(n) \in Nat
<1> TAKE n \in Nat
<1> DEFINE m == IF n = 0 THEN 0 ELSE n - 1
<1>1. m \in Nat
  OBVIOUS
<1>2. Interval \in Nat \ {0}
  BY FilterHashesAssumption
<1>3. SyncIndex(n) = m \div Interval
  BY DEF SyncIndex
<1> HIDE DEF m
<1> QED
  BY <1>1, <1>2, <1>3, DivTimes

-----------------------------------------------------------------------------
(* Chains.                                                                   *)

LEMMA HeadsLemma ==
    /\ AllHeads \subseteq Blocks /\ NoBlock \notin AllHeads
    /\ HighestHead \in AllHeads /\ \A b \in AllHeads : Number[b] <= Number[HighestHead]
    /\ \A p \in Peers : Heads[p] \subseteq AllHeads /\ Heads[p] # {}
<1>1. AllHeads \subseteq Blocks
  BY FilterHashesAssumption DEF AllHeads
<1>2. HighestHead \in AllHeads /\ \A b \in AllHeads : Number[b] <= Number[HighestHead]
  BY FilterHashesAssumption DEF HighestHead
<1>3. \A p \in Peers : Heads[p] \subseteq AllHeads /\ Heads[p] # {}
  BY FilterHashesAssumption DEF AllHeads
<1> QED
  BY <1>1, <1>2, <1>3, FilterHashesAssumption

\* At(h, n) is the block with number n on the chain of h.
LEMMA AtLemma ==
    ASSUME NEW h \in Blocks, NEW n \in 0 .. Number[h]
    PROVE  /\ At(h, n) \in Ancestors[h] /\ At(h, n) \in Blocks /\ Number[At(h, n)] = n
           /\ \A c \in Ancestors[h] : Number[c] = n => c = At(h, n)
<1>1. At(h, n) = CHOOSE b \in Ancestors[h] : Number[b] = n
  BY DEF At, Chains
<1>2. PICK a \in Ancestors[h] :
         a \in Blocks /\ Number[a] = n /\ \A c \in Ancestors[h] : Number[c] = n => c = a
  BY AncestorAt
<1>3. At(h, n) = a
  BY <1>1, <1>2
<1> QED
  BY <1>2, <1>3

\* The chain of an ancestor is the beginning of the chain.
LEMMA AtOfAncestor ==
    ASSUME NEW h \in Blocks, NEW a \in Ancestors[h], NEW n \in 0 .. Number[a]
    PROVE  a \in Blocks /\ n \in 0 .. Number[h] /\ At(a, n) = At(h, n)
<1>1. a \in Blocks /\ Number[a] \in Nat /\ Number[h] \in Nat
  BY ChainAssumption
<1>2. Number[a] <= Number[h]
  BY <1>1, TreeAssumption
<1>3. n \in 0 .. Number[h]
  BY <1>1, <1>2
<1>4. At(a, n) \in Ancestors[a] /\ Number[At(a, n)] = n
  BY <1>1, AtLemma
<1>5. At(a, n) \in Ancestors[h]
  BY <1>4, TreeAssumption
<1> QED
  BY <1>1, <1>3, <1>4, <1>5, AtLemma

\* Two blocks of a chain, one after the other.
LEMMA AtParent ==
    ASSUME NEW h \in Blocks, NEW n \in Nat, n + 1 <= Number[h]
    PROVE  IsParentOf(At(h, n), At(h, n + 1))
<1>1. Number[h] \in Nat
  BY ChainAssumption
<1>2. n \in 0 .. Number[h] /\ n + 1 \in 0 .. Number[h]
  BY <1>1
<1>3. /\ At(h, n) \in Ancestors[h] /\ Number[At(h, n)] = n
      /\ At(h, n + 1) \in Ancestors[h] /\ Number[At(h, n + 1)] = n + 1
  BY <1>2, AtLemma
<1>4. Ancestors[At(h, n + 1)] = {c \in Ancestors[h] : Number[c] <= Number[At(h, n + 1)]}
  BY <1>3, TreeAssumption
<1>5. At(h, n) \in Ancestors[At(h, n + 1)]
  BY <1>3, <1>4
<1> QED
  BY <1>3, <1>5 DEF IsParentOf

\* What lies an interval below the highest head is on every chain that gets there.
LEMMA SharedLemma ==
    ASSUME NEW h \in AllHeads, NEW n \in Nat, n + Interval <= Number[HighestHead], n <= Number[h]
    PROVE  At(h, n) = At(HighestHead, n)
<1> DEFINE c == At(HighestHead, n)
<1>1. h \in Blocks /\ HighestHead \in Blocks /\ HighestHead \in AllHeads
  BY HeadsLemma
<1>2. Number[h] \in Nat /\ Number[HighestHead] \in Nat /\ Interval \in Nat
  BY <1>1, ChainAssumption, FilterHashesAssumption
<1>3. n \in 0 .. Number[HighestHead] /\ n \in 0 .. Number[h]
  BY <1>2
<1>4. c \in Ancestors[HighestHead] /\ Number[c] = n
  BY <1>1, <1>3, AtLemma
<1> HIDE DEF c
<1>5. Number[h] < Number[c] \/ c \in Ancestors[h]
  BY <1>1, <1>4, ForksAreShort
<1>6. c \in Ancestors[h]
  BY <1>2, <1>4, <1>5
<1> QED
  BY <1>1, <1>3, <1>4, <1>6, AtLemma DEF c

\* The hashes of an answer are those of the chain.
LEMMA AnswerLemma ==
    ASSUME NEW h \in Blocks, NEW start \in Nat \ {0}, NEW n \in Nat
    PROVE  /\ Answer(h, start, n) \in Seq(Blocks)
           /\ \A k \in 1 .. Len(Answer(h, start, n)) :
                 /\ Answer(h, start, n)[k] = At(h, start + k - 1)
                 /\ start + k - 1 <= Number[h]
<1> DEFINE to == MinOf(start + n - 1, Number[h])
           len == to - start + 1
           m == IF len \in Nat THEN len ELSE 0
           s == Answer(h, start, n)
<1>1. Number[h] \in Nat
  BY ChainAssumption
<1>2. to \in Int /\ to <= Number[h]
  BY <1>1 DEF MinOf
<1>3. s = [i \in 1 .. len |-> At(h, start + i - 1)]
  BY DEF Answer, Segment
<1> HIDE DEF to
<1>4. 1 .. len = 1 .. m /\ m \in Nat
  BY <1>2
<1>5. ASSUME NEW i \in 1 .. m PROVE start + i - 1 \in 0 .. Number[h]
  BY <1>1, <1>2
<1>6. ASSUME NEW i \in 1 .. m PROVE At(h, start + i - 1) \in Blocks
  BY <1>5, <1>6, AtLemma
<1>7. s = [i \in 1 .. m |-> At(h, start + i - 1)]
  BY <1>3, <1>4
<1> HIDE DEF m, s
<1>8. s \in Seq(Blocks) /\ Len(s) = m /\ \A i \in 1 .. m : s[i] = At(h, start + i - 1)
  BY <1>4, <1>6, <1>7
<1>9. \A i \in 1 .. m : start + i - 1 <= Number[h]
  BY <1>1, <1>5
<1> QED
  BY <1>8, <1>9 DEF s

-----------------------------------------------------------------------------
(* The inductive invariant.                                                  *)

Requests == [kind : {"hashes", "filters"}, start : Nat \ {0}, at : AllHeads]
Queues == [Peers -> Seq(Requests)]

NetOK == head \in [Peers -> AllHeads] /\ asked \in Queues
StoredOK == minFiltered \in Nat /\ tip \in Blocks

\* A finalized check point is an interval below a head.
PointOK ==
    /\ finalized \in Nat
    /\ finalized # 0 => PointNumber(finalized) + Interval <= Number[HighestHead]

\* The latest hashes of a peer are one chain behind its first check point.
ListOK ==
    /\ proved \in [Peers -> AllHeads \cup {NoBlock}]
    /\ first \in [Peers -> Nat] /\ latest \in [Peers -> Seq(Blocks)]
    /\ \A p \in Peers : first[p] <= finalized /\ IsBehind(first[p], latest[p])

CacheOK ==
    /\ cachedIndex \in Nat /\ cached \in Seq(Blocks) /\ Len(cached) <= Interval
    /\ cached # <<>> => cachedIndex < finalized
    /\ \A j \in 1 .. Len(cached) : cached[j] = At(HighestHead, PointNumber(cachedIndex) + j)

Inv == NetOK /\ StoredOK /\ PointOK /\ ListOK /\ CacheOK

-----------------------------------------------------------------------------
(* Requests.                                                                 *)

LEMMA AskType ==
    ASSUME NetOK, NEW q \in Queues, NEW p \in Peers, NEW kind \in {"hashes", "filters"},
           NEW start \in Nat \ {0}
    PROVE  Ask(q, p, kind, start) \in Queues
<1> DEFINE r == [kind |-> kind, start |-> start, at |-> head[p]]
           s == Append(q[p], r)
<1>1. head[p] \in AllHeads
  BY DEF NetOK
<1>2. r \in Requests
  BY <1>1 DEF Requests
<1>3. q[p] \in Seq(Requests)
  BY DEF Queues
<1> HIDE DEF r
<1>4. s \in Seq(Requests)
  BY <1>2, <1>3
<1>5. Ask(q, p, kind, start) = IF Len(q[p]) < MaxQueue THEN [q EXCEPT ![p] = s] ELSE q
  BY DEF Ask, r
<1> HIDE DEF s
<1> QED
  BY <1>4, <1>5 DEF Queues

LEMMA AnsweredType ==
    ASSUME NetOK, NEW p \in Peers, asked[p] # <<>>
    PROVE  /\ Answered(p) \in Queues
           /\ asked[p][1] \in Requests
<1>1. asked \in Queues /\ asked[p] \in Seq(Requests)
  BY DEF NetOK, Queues
<1>2. Tail(asked[p]) \in Seq(Requests) /\ asked[p][1] \in Requests
  BY <1>1
<1> QED
  BY <1>1, <1>2 DEF Answered, Queues

LEMMA GetBlockFiltersType ==
    ASSUME NetOK, NEW q \in Queues, NEW n \in Nat, NEW ci, NEW ch
    PROVE  GetBlockFilters(q, n, ci, ch) \subseteq Queues
<1> SUFFICES ASSUME NEW x \in GetBlockFilters(q, n, ci, ch) PROVE x \in Queues
  OBVIOUS
<1>1. x = q \/ \E p \in ProvedPeers : x = Ask(q, p, "filters", n + 1)
  BY DEF GetBlockFilters
<1>2. n + 1 \in Nat \ {0}
  OBVIOUS
<1> QED
  BY <1>1, <1>2, AskType DEF ProvedPeers

LEMMA GetBlockFilterHashesType ==
    ASSUME NetOK, PointOK, ListOK, NEW q \in Queues, NEW ci \in Nat, NEW ch \in Seq(Blocks)
    PROVE  GetBlockFilterHashes(q, ci, ch) \subseteq Queues
<1> SUFFICES ASSUME NEW x \in GetBlockFilterHashes(q, ci, ch) PROVE x \in Queues
  OBVIOUS
<1> DEFINE start == PointNumber(ci) + Len(ch) + 1
           all == [p \in Peers |-> IF p \in RequireMoreLatest
                                   THEN Ask(q, p, "hashes", LatestStart(p))[p] ELSE q[p]]
<1>1. \/ x = q \/ x = all
      \/ \E p \in ProvedPeers : x = Ask(q, p, "hashes", start)
  BY DEF GetBlockFilterHashes
<1>2. start \in Nat \ {0}
  <2>1. Len(ch) \in Nat /\ PointNumber(ci) \in Nat
    BY PointLemma
  <2> QED
    BY <2>1
<1>3. ASSUME NEW p \in Peers PROVE LatestStart(p) \in Nat \ {0}
  <2>1. first[p] \in Nat /\ latest[p] \in Seq(Blocks)
    BY DEF ListOK
  <2>2. PointNumber(first[p]) \in Nat
    BY <2>1, PointLemma
  <2>3. Len(latest[p]) \in Nat
    BY <2>1
  <2> QED
    BY <2>2, <2>3 DEF LatestStart
<1>4. ASSUME NEW p \in Peers PROVE all[p] \in Seq(Requests)
  <2>1. q[p] \in Seq(Requests)
    BY DEF Queues
  <2>2. Ask(q, p, "hashes", LatestStart(p)) \in Queues
    BY <1>3, AskType
  <2>3. Ask(q, p, "hashes", LatestStart(p))[p] \in Seq(Requests)
    BY <2>2 DEF Queues
  <2> QED
    BY <2>1, <2>3
<1>5. all \in Queues
  BY <1>4 DEF Queues
<1> HIDE DEF start, all
<1> QED
  BY <1>1, <1>2, <1>5, AskType DEF ProvedPeers

\* A result of the vote is the beginning of a list.
LEMMA LatestHashesLemma ==
    ASSUME ListOK, NEW vs \in LatestHashes
    PROVE  /\ vs \in Seq(Blocks)
           /\ vs = <<>> \/ \E p \in PeersWithData : \E n \in 0 .. Len(latest[p]) :
                              vs = SubSeq(latest[p], 1, n)
<1>1. vs = <<>> \/ \E p \in PeersWithData : \E n \in 0 .. Len(latest[p]) :
                      vs = SubSeq(latest[p], 1, n)
  BY DEF LatestHashes
<1>2. ASSUME NEW p \in PeersWithData, NEW n \in 0 .. Len(latest[p])
      PROVE  SubSeq(latest[p], 1, n) \in Seq(Blocks)
  <2>1. latest[p] \in Seq(Blocks)
    BY DEF ListOK, PeersWithData, ProvedPeers
  <2> QED
    BY <2>1
<1>3. <<>> \in Seq(Blocks)
  OBVIOUS
<1>4. vs \in Seq(Blocks)
  BY ONLY <1>1, <1>2, <1>3, Zenon
<1> QED
  BY ONLY <1>1, <1>4, Zenon

\* The cache stays as it is, or starts anew at the interval of the cursor.
LEMMA CacheAtLemma ==
    ASSUME CacheOK, NEW n \in Nat, cachedIndex' = SyncIndex(n + 1), cached' = CacheAt(n),
           finalized' = finalized
    PROVE  CacheOK' /\ cachedIndex' \in Nat /\ cached' \in Seq(Blocks)
<1>1. SyncIndex(n + 1) \in Nat
  BY SyncIndexType
<1>2. CASE cachedIndex = SyncIndex(n + 1)
  <2>1. cachedIndex' = cachedIndex /\ cached' = cached
    BY <1>2 DEF CacheAt
  <2> QED
    BY <2>1 DEF CacheOK
<1>3. CASE cachedIndex # SyncIndex(n + 1)
  <2>1. cached' = <<>>
    BY <1>3 DEF CacheAt
  <2>2. Interval \in Nat
    BY FilterHashesAssumption
  <2> QED
    BY <1>1, <2>1, <2>2 DEF CacheOK
<1> QED
  BY <1>2, <1>3

-----------------------------------------------------------------------------
(* BlockFilterHashesProcess.                                                 *)

\* A list of the hashes of h from `start` on.
IsPartOf(hashes, h, start) ==
    /\ hashes \in Seq(Blocks)
    /\ \A k \in 1 .. Len(hashes) :
          hashes[k] = At(h, start + k - 1) /\ start + k - 1 <= Number[h]

LEMMA AnswerIsPart ==
    ASSUME NEW h \in Blocks, NEW start \in Nat \ {0}, NEW n \in Nat
    PROVE  IsPartOf(Answer(h, start, n), h, start)
BY AnswerLemma DEF IsPartOf

\* The numbers of the cached interval lie below the finalized check points.
LEMMA CacheNumbers ==
    ASSUME PointOK, cachedIndex \in Nat, NEW start \in Nat, ForCache(start)
    PROVE  /\ cachedIndex < finalized /\ PointNumber(cachedIndex) \in Nat
           /\ start - PointNumber(cachedIndex) - 1 \in 0 .. Interval - 1
           /\ \A j \in 1 .. Interval :
                 PointNumber(cachedIndex) + j + Interval <= Number[HighestHead]
<1>1. PointNumber(cachedIndex) < start /\ start <= PointNumber(finalized)
      /\ start <= PointNumber(cachedIndex + 1)
  BY DEF ForCache
<1>2. finalized \in Nat /\ Interval \in Nat
  BY FilterHashesAssumption DEF PointOK
<1>3. /\ PointNumber(cachedIndex) \in Nat
      /\ PointNumber(cachedIndex + 1) = PointNumber(cachedIndex) + Interval
  BY PointLemma
<1>4. PointNumber(finalized) \in Nat
  BY <1>2, PointLemma
<1>5. cachedIndex < finalized
  <2>1. PointNumber(cachedIndex) < PointNumber(finalized)
    BY <1>1, <1>3, <1>4
  <2> QED
    BY <1>2, <2>1, PointLemma
<1>6. PointNumber(cachedIndex + 1) <= PointNumber(finalized)
  <2>1. cachedIndex + 1 \in Nat /\ cachedIndex + 1 <= finalized
    BY <1>2, <1>5
  <2> QED
    BY <1>2, <2>1, PointLemma
<1>7. PointNumber(finalized) + Interval <= Number[HighestHead] /\ Number[HighestHead] \in Nat
  BY <1>5, HeadsLemma, ChainAssumption DEF PointOK
<1>8. start - PointNumber(cachedIndex) - 1 \in 0 .. Interval - 1
  BY <1>1, <1>2, <1>3
<1>9. \A j \in 1 .. Interval : PointNumber(cachedIndex) + j + Interval <= Number[HighestHead]
  BY <1>2, <1>3, <1>4, <1>6, <1>7
<1> QED
  BY <1>3, <1>5, <1>8, <1>9

\* What is added to the cache are the hashes of the chain at their numbers.
LEMMA ExtendCacheLemma ==
    ASSUME PointOK, CacheOK, NEW h \in AllHeads, NEW start \in Nat \ {0}, ForCache(start),
           NEW hashes, IsPartOf(hashes, h, start), NEW skip,
           skip = start - PointNumber(cachedIndex) - 1, skip <= Len(cached),
           Len(cached) - skip <= MinOf(Len(hashes), Interval - skip),
           cached' = ExtendCache(skip, hashes), cachedIndex' = cachedIndex, finalized' = finalized
    PROVE  CacheOK'
<1> DEFINE c == Len(cached)
           n == Len(hashes)
           m == MinOf(n, Interval - skip)
           tail == SubSeq(hashes, c - skip + 1, m)
           s == cached \o tail
           P == PointNumber(cachedIndex)
<1>1. /\ cachedIndex \in Nat /\ cached \in Seq(Blocks) /\ c \in Nat /\ c <= Interval
      /\ \A j \in 1 .. c : cached[j] = At(HighestHead, P + j)
  BY DEF CacheOK
<1>2. /\ cachedIndex < finalized /\ P \in Nat /\ skip \in 0 .. Interval - 1
      /\ \A j \in 1 .. Interval : P + j + Interval <= Number[HighestHead]
  BY <1>1, CacheNumbers
<1>3. /\ hashes \in Seq(Blocks) /\ n \in Nat /\ Interval \in Nat
      /\ \A k \in 1 .. n : hashes[k] = At(h, start + k - 1) /\ start + k - 1 <= Number[h]
  BY FilterHashesAssumption DEF IsPartOf
<1>4. cached' = s
  BY DEF ExtendCache
<1>5. c - skip <= m /\ skip <= c /\ skip = start - P - 1
  OBVIOUS
<1> HIDE DEF P, c, n
<1>6. m \in Int /\ m <= n /\ m <= Interval - skip
  BY <1>2, <1>3 DEF MinOf
<1> HIDE DEF m
<1>7. /\ c \in Nat /\ n \in Nat /\ Interval \in Nat /\ P \in Nat /\ m \in Int /\ start \in Nat
      /\ skip \in 0 .. Interval - 1 /\ skip <= c /\ c - skip <= m /\ m <= n
      /\ m <= Interval - skip /\ skip = start - P - 1
  BY <1>1, <1>2, <1>3, <1>5, <1>6
<1>8. \A i \in c - skip + 1 .. m : hashes[i] \in Blocks
  <2>1. \A i \in 1 .. n : hashes[i] \in Blocks
    BY <1>3 DEF n
  <2>2. \A i \in c - skip + 1 .. m : i \in 1 .. n
    BY ONLY <1>7
  <2> QED
    BY <2>1, <2>2
<1>9. /\ tail \in Seq(Blocks)
      /\ Len(tail) = IF c - skip + 1 <= m THEN m - (c - skip + 1) + 1 ELSE 0
      /\ \A i \in 1 .. m - (c - skip + 1) + 1 : tail[i] = hashes[c - skip + 1 + i - 1]
  <2>1. c - skip + 1 \in Int /\ m \in Int
    BY ONLY <1>7
  <2> QED
    BY <1>8, <2>1, SubSeqProperties
<1> HIDE DEF tail
<1>10. Len(tail) = m - c + skip /\ c + Len(tail) = m + skip /\ m + skip <= Interval
  <2>1. Len(tail) = IF c - skip + 1 <= m THEN m - (c - skip + 1) + 1 ELSE 0
    BY <1>9
  <2> QED
    BY ONLY <1>7, <2>1
<1>11. /\ s \in Seq(Blocks) /\ Len(s) = c + Len(tail)
       /\ \A i \in 1 .. c + Len(tail) : s[i] = IF i <= c THEN cached[i] ELSE tail[i - c]
  BY <1>1, <1>9, ConcatProperties DEF c
<1> HIDE DEF s
<1>12. Len(s) = m + skip /\ m + skip <= Interval
  BY <1>10, <1>11
<1>13. ASSUME NEW j \in 1 .. m + skip PROVE s[j] = At(HighestHead, P + j)
  <2>1. j \in Int /\ 1 <= j /\ j <= m + skip
    BY <1>2, <1>6
  <2>2. CASE j <= c
    <3>1. j \in 1 .. c /\ j \in 1 .. c + Len(tail)
      BY ONLY <1>7, <1>10, <2>1, <2>2
    <3> QED
      BY <1>1, <1>11, <2>2, <3>1
  <2>3. CASE ~ (j <= c)
    <3>1. /\ j \in 1 .. c + Len(tail) /\ j - c \in 1 .. m - (c - skip + 1) + 1
          /\ j - skip \in 1 .. n /\ c - skip + 1 + (j - c) - 1 = j - skip
          /\ j \in 1 .. Interval /\ P + j \in Nat
          /\ start + (j - skip) - 1 = P + j
      BY ONLY <1>7, <1>10, <2>1, <2>3
    <3>2. s[j] = tail[j - c]
      BY <1>11, <2>3, <3>1
    <3>3. tail[j - c] = hashes[j - skip]
      BY <1>9, <3>1
    <3>4. hashes[j - skip] = At(h, P + j) /\ P + j <= Number[h]
      BY <1>3, <3>1
    <3>5. P + j + Interval <= Number[HighestHead]
      BY <1>2, <3>1
    <3>6. At(h, P + j) = At(HighestHead, P + j)
      BY <3>1, <3>4, <3>5, SharedLemma
    <3> QED
      BY <3>2, <3>3, <3>4, <3>6
  <2> QED
    BY <2>2, <2>3
<1>14. cachedIndex' \in Nat /\ cachedIndex' < finalized'
  BY <1>1, <1>2
<1> QED
  BY <1>4, <1>11, <1>12, <1>13, <1>14 DEF CacheOK, P

\* The latest hashes of a peer, cut off and continued on a chain of the same parent.
LEMMA SpliceLemma ==
    ASSUME NEW i, NEW old \in Seq(Blocks), IsBehind(i, old), NEW skip \in 0 .. Len(old),
           NEW h \in Blocks, NEW start \in Nat \ {0}, NEW new, IsPartOf(new, h, start),
           At(h, start - 1) = IF skip = 0 THEN CheckPoint(i) ELSE old[skip]
    PROVE  LET s == SubSeq(old, 1, skip) \o new
           IN  s \in Seq(Blocks) /\ IsBehind(i, s)
<1> DEFINE a == SubSeq(old, 1, skip)
           s == a \o new
           n == Len(new)
<1>1. /\ new \in Seq(Blocks) /\ n \in Nat
      /\ \A k \in 1 .. n : new[k] = At(h, start + k - 1) /\ start + k - 1 <= Number[h]
  BY DEF IsPartOf
<1>2. /\ a \in Seq(Blocks) /\ Len(a) = skip
      /\ \A j \in 1 .. skip : a[j] = old[j]
  OBVIOUS
<1> HIDE DEF a
<1>3. /\ s \in Seq(Blocks) /\ Len(s) = skip + n
      /\ \A j \in 1 .. skip + n : s[j] = IF j <= skip THEN old[j] ELSE new[j - skip]
  <2>1. /\ s \in Seq(Blocks) /\ Len(s) = Len(a) + Len(new)
        /\ \A j \in 1 .. Len(a) + Len(new) : s[j] = IF j <= Len(a) THEN a[j] ELSE new[j - Len(a)]
    BY <1>1, <1>2, ConcatProperties
  <2>2. \A j \in 1 .. skip + n : j <= skip => j \in 1 .. skip
    BY <1>1
  <2> QED
    BY <1>2, <2>1, <2>2
<1> HIDE DEF s
<1>4. skip \in Nat /\ skip <= Len(old) /\ Len(old) \in Nat
  OBVIOUS
<1>5. ASSUME NEW k \in 0 .. n - 1 PROVE IsParentOf(At(h, start + k - 1), new[k + 1])
  <2>1. start + k - 1 \in Nat /\ start + (k + 1) - 1 = start + k - 1 + 1 /\ k + 1 \in 1 .. n
    BY <1>1
  <2>2. new[k + 1] = At(h, start + k - 1 + 1) /\ start + k - 1 + 1 <= Number[h]
    BY <1>1, <2>1
  <2> QED
    BY <2>1, <2>2, AtParent
<1>6. /\ old # <<>> => IsParentOf(CheckPoint(i), old[1])
      /\ \A j \in 1 .. Len(old) - 1 : IsParentOf(old[j], old[j + 1])
  BY DEF IsBehind
<1>7. n > 0 => IsParentOf(At(h, start - 1), new[1])
  <2> SUFFICES ASSUME n > 0 PROVE IsParentOf(At(h, start - 1), new[1])
    OBVIOUS
  <2>1. 0 \in 0 .. n - 1 /\ start + 0 - 1 = start - 1 /\ 0 + 1 = 1
    BY <1>1
  <2>2. IsParentOf(At(h, start + 0 - 1), new[0 + 1])
    BY <1>5, <2>1
  <2> QED
    BY <2>1, <2>2
<1> HIDE DEF n
<1>8. s # <<>> => IsParentOf(CheckPoint(i), s[1])
  <2> SUFFICES ASSUME s # <<>> PROVE IsParentOf(CheckPoint(i), s[1])
    OBVIOUS
  <2>1. skip + n > 0
    BY <1>1, <1>3, <1>4
  <2>2. CASE skip = 0
    <3>1. n > 0 /\ 1 \in 1 .. skip + n /\ ~ (1 <= skip) /\ 1 - skip = 1
      BY <1>1, <2>1, <2>2
    <3>2. s[1] = new[1]
      BY <1>3, <3>1
    <3> QED
      BY <1>7, <2>2, <3>1, <3>2
  <2>3. CASE skip # 0
    <3>1. 1 \in 1 .. skip + n /\ 1 <= skip /\ Len(old) >= 1
      BY <1>1, <1>4, <2>3
    <3>2. s[1] = old[1]
      BY <1>3, <3>1
    <3>3. old # <<>>
      BY <3>1
    <3> QED
      BY <1>6, <3>2, <3>3
  <2> QED
    BY <2>2, <2>3
<1>9. ASSUME NEW j \in 1 .. skip + n - 1 PROVE IsParentOf(s[j], s[j + 1])
  <2>1. j \in 1 .. skip + n /\ j + 1 \in 1 .. skip + n /\ j \in Nat
    BY <1>1, <1>4
  <2>2. CASE j < skip
    <3>1. j <= skip /\ j + 1 <= skip /\ j \in 1 .. Len(old) - 1
      BY <1>4, <2>1, <2>2
    <3> QED
      BY <1>3, <1>6, <2>1, <3>1
  <2>3. CASE j = skip
    <3>1. j <= skip /\ ~ (j + 1 <= skip) /\ j + 1 - skip = 1 /\ n > 0 /\ skip # 0
      BY <1>1, <1>4, <2>1, <2>3
    <3>2. s[j] = old[skip] /\ s[j + 1] = new[1]
      BY <1>3, <2>1, <2>3, <3>1
    <3> QED
      BY <1>7, <3>1, <3>2
  <2>4. CASE j > skip
    <3>1. /\ ~ (j <= skip) /\ ~ (j + 1 <= skip) /\ j - skip \in 0 .. n - 1 /\ j - skip \in 1 .. n
          /\ j + 1 - skip = (j - skip) + 1
      BY ONLY <1>1, <1>4, <2>1, <2>4, SMTT(30)
    <3>2. s[j] = new[j - skip] /\ s[j + 1] = new[(j - skip) + 1]
      BY <1>3, <2>1, <3>1
    <3>3. new[j - skip] = At(h, start + (j - skip) - 1)
      BY <1>1, <3>1
    <3> QED
      BY <1>5, <3>1, <3>2, <3>3
  <2> QED
    BY <1>4, <2>1, <2>2, <2>3, <2>4
<1>10. \A j \in 1 .. Len(s) - 1 : IsParentOf(s[j], s[j + 1])
  <2>1. Len(s) = skip + n /\ skip \in Nat /\ n \in Nat
    BY <1>1, <1>3, <1>4
  <2>2. 1 .. Len(s) - 1 = 1 .. skip + n - 1
    BY ONLY <2>1
  <2> QED
    BY <1>9, <2>2
<1>11. IsBehind(i, s)
  BY <1>8, <1>10 DEF IsBehind
<1> QED
  BY <1>3, <1>11 DEF s, a

-----------------------------------------------------------------------------
(* finalize_check_points.                                                    *)

\* The required-th smallest size exists.
LEMMA LengthMaxLemma ==
    ASSUME NEW ps \in SUBSET Peers, NEW size \in [ps -> Nat], NEW bound \in Nat,
           \A p \in ps : size[p] <= bound, Cardinality(ps) >= Required
    PROVE  LengthMax(size, ps) \in {size[p] : p \in ps}
<1> DEFINE sizes == {size[p] : p \in ps}
           upTo(n) == {p \in ps : size[p] <= n}
           below(n) == {p \in ps : size[p] < n}
           enough == {n \in sizes : Cardinality(upTo(n)) >= Required}
<1>1. Required \in Nat \ {0} /\ IsFiniteSet(ps)
  BY FilterHashesAssumption, FS_Subset
<1>2. \A S \in SUBSET ps : IsFiniteSet(S) /\ Cardinality(S) \in Nat
  BY <1>1, FS_Subset, FS_CardinalityType
<1>3. \A S \in SUBSET ps : Cardinality(S) >= Required => S # {}
  BY <1>1, FS_EmptySet
<1>4. ASSUME NEW S \in SUBSET ps, S # {}
      PROVE  \E q \in S : \A p \in S : size[p] <= size[q]
  <2> DEFINE T == {size[p] : p \in S}
  <2>1. T \in SUBSET Nat /\ T # {} /\ \A x \in T : x <= bound
    BY <1>4
  <2> HIDE DEF T
  <2>2. MaxOf(T) \in T /\ \A x \in T : x <= MaxOf(T)
    BY <2>1, MaxOfIsMax
  <2> QED
    BY <2>2 DEF T
<1>5. enough # {}
  <2>1. ps \in SUBSET ps /\ ps # {}
    BY <1>3
  <2>2. PICK q \in ps : \A p \in ps : size[p] <= size[q]
    BY <1>4, <2>1
  <2>3. upTo(size[q]) = ps
    BY <2>2
  <2> QED
    BY <2>3
<1>6. enough \in SUBSET Nat
  OBVIOUS
<1>7. PICK n \in enough : \A m \in enough : n <= m
  BY <1>5, <1>6, NatMin
<1>8. Cardinality(below(n)) < Required
  <2> SUFFICES ASSUME ~ (Cardinality(below(n)) < Required) PROVE FALSE
    OBVIOUS
  <2>1. below(n) \in SUBSET ps
    OBVIOUS
  <2>2. Cardinality(below(n)) >= Required
    BY <1>1, <1>2, <2>1
  <2>3. PICK q \in below(n) : \A p \in below(n) : size[p] <= size[q]
    BY <1>3, <1>4, <2>1, <2>2
  <2>4. size[q] \in Nat /\ n \in Nat /\ size[q] < n
    BY <1>6
  <2>5. upTo(size[q]) = below(n)
    BY <2>3, <2>4
  <2>6. size[q] \in enough
    BY <2>2, <2>5
  <2> QED
    BY <1>7, <2>4, <2>6
<1> DEFINE P(k) == Cardinality(below(k)) < Required /\ Cardinality(upTo(k)) >= Required
<1>9. n \in sizes /\ P(n)
  BY <1>8
<1>10. LengthMax(size, ps) = CHOOSE k \in sizes : P(k)
  BY DEF LengthMax
<1> HIDE DEF P, sizes
<1>11. LengthMax(size, ps) \in sizes
  BY <1>9, <1>10
<1> QED
  BY <1>11 DEF sizes

LEMMA DivLess ==
    ASSUME NEW n \in Nat, NEW k \in Nat \ {0}
    PROVE  n \div k <= n
<1>1. n \div k \in Nat /\ (n \div k) * k <= n
  BY DivTimes
<1>2. 1 * (n \div k) <= k * (n \div k)
  BY <1>1, TimesMonotone
<1> QED
  BY <1>1, <1>2

\* A check point that a peer reports above the finalized ones is an interval below
\* its proved header.
LEMMA LastPointLemma ==
    ASSUME PointOK, ListOK, NEW p \in ProvedPeers
    PROVE  /\ LastPoint(p) \in Nat /\ LastPoint(p) <= finalized + Number[HighestHead]
           /\ \A i \in Nat : finalized < i /\ i <= LastPoint(p) =>
                 PointNumber(i) + Interval <= Number[HighestHead]
<1> DEFINE N == Number[proved[p]]
           H == Number[HighestHead]
           d == N \div Interval
<1>1. p \in Peers /\ proved[p] \in AllHeads
  BY DEF ProvedPeers, ListOK
<1>2. N \in Nat /\ H \in Nat /\ N <= H
  BY <1>1, HeadsLemma, ChainAssumption
<1>3. first[p] \in Nat /\ finalized \in Nat /\ first[p] <= finalized
  BY <1>1 DEF ListOK, PointOK
<1>4. Interval \in Nat \ {0}
  BY FilterHashesAssumption
<1> HIDE DEF N, H
<1>5. d \in Nat /\ d <= N /\ d * Interval <= N
  BY <1>2, <1>4, DivTimes, DivLess
<1>6. LastPoint(p) = IF d - 1 < first[p] THEN first[p] ELSE d - 1
  BY DEF LastPoint, N
<1> HIDE DEF d
<1>7. LastPoint(p) \in Nat /\ LastPoint(p) <= finalized + H
  BY <1>2, <1>3, <1>5, <1>6
<1>8. ASSUME NEW i \in Nat, finalized < i, i <= LastPoint(p)
      PROVE  PointNumber(i) + Interval <= H
  <2>1. i + 1 \in Nat /\ i + 1 <= d
    BY <1>3, <1>5, <1>6, <1>8
  <2>2. (i + 1) * Interval <= d * Interval
    BY <1>4, <1>5, <2>1, TimesMonotone
  <2>3. PointNumber(i + 1) = PointNumber(i) + Interval /\ PointNumber(i) \in Nat
    BY PointLemma
  <2>4. PointNumber(i + 1) <= d * Interval /\ d * Interval \in Nat
    BY <1>4, <1>5, <2>2, NextTimes DEF PointNumber
  <2> DEFINE x == d * Interval
             y == PointNumber(i)
             z == PointNumber(i + 1)
  <2>5. x \in Nat /\ x <= N /\ z <= x /\ z = y + Interval /\ y \in Nat
    BY <1>5, <2>3, <2>4
  <2> HIDE DEF x, y, z
  <2>6. y + Interval <= H
    BY <1>2, <1>4, <2>5
  <2> QED
    BY <2>6 DEF y
<1> QED
  BY <1>7, <1>8 DEF H

LEMMA EmptyIsBehind == \A i : IsBehind(i, <<>>)
BY DEF IsBehind

LEMMA FinalizeLemma ==
    ASSUME Inv, FinalizeCheckPoints
    PROVE  Inv'
<1> DEFINE clean == {p \in ProvedPeers : finalized <= LastPoint(p)}
           size  == [p \in clean |-> LastPoint(p)]
           enough(i) == Cardinality({p \in clean : i <= LastPoint(p)}) >= Required
           new   == {i \in finalized .. LengthMax(size, clean) : enough(i)}
<1>1. PointOK /\ ListOK /\ finalized \in Nat /\ Number[HighestHead] \in Nat
  BY HeadsLemma, ChainAssumption DEF Inv, PointOK
<1>2. clean \in SUBSET Peers /\ clean \subseteq ProvedPeers
  BY DEF ProvedPeers
<1>3. /\ first' = [p \in Peers |-> IF p \in clean THEN finalized ELSE first[p]]
      /\ latest' = [p \in Peers |->
            IF p \in clean /\ first[p] # finalized THEN <<>> ELSE latest[p]]
      /\ finalized' = IF Cardinality(clean) >= Required THEN MaxOf(new) ELSE finalized
      /\ UNCHANGED <<minFiltered, tip, cachedIndex, cached, proved, head, asked>>
  BY DEF FinalizeCheckPoints, cacheVars
<1>4. finalized' \in Nat /\ finalized <= finalized'
      /\ (finalized' # finalized => PointNumber(finalized') + Interval <= Number[HighestHead])
  <2>1. CASE ~ (Cardinality(clean) >= Required)
    BY <1>1, <1>3, <2>1
  <2>2. CASE Cardinality(clean) >= Required
    <3> DEFINE max == LengthMax(size, clean)
    <3>1. \A p \in clean : /\ LastPoint(p) \in Nat /\ finalized <= LastPoint(p)
                           /\ LastPoint(p) <= finalized + Number[HighestHead]
                           /\ \A i \in Nat : finalized < i /\ i <= LastPoint(p) =>
                                 PointNumber(i) + Interval <= Number[HighestHead]
      BY <1>1, LastPointLemma
    <3> HIDE DEF clean
    <3>2. /\ size \in [clean -> Nat] /\ finalized + Number[HighestHead] \in Nat
          /\ \A p \in clean : size[p] = LastPoint(p) /\ size[p] <= finalized + Number[HighestHead]
      BY <1>1, <3>1
    <3> HIDE DEF size
    <3>3. max \in {size[p] : p \in clean}
      BY <1>2, <2>2, <3>2, LengthMaxLemma
    <3>4. max \in Nat /\ finalized <= max
      BY <3>1, <3>2, <3>3
    <3> HIDE DEF max
    <3>5. enough(finalized)
      <4>1. {p \in clean : finalized <= LastPoint(p)} = clean
        BY <3>1
      <4> QED
        BY <2>2, <4>1
    <3>6. ASSUME NEW i \in new
          PROVE  i \in Nat /\ finalized <= i /\ i <= max /\ \E p \in clean : i <= LastPoint(p)
      <4> DEFINE ps == {p \in clean : i <= LastPoint(p)}
      <4>1. Required \in Nat \ {0} /\ Cardinality(ps) >= Required
        BY FilterHashesAssumption
      <4>2. ps # {}
        BY <4>1, FS_EmptySet
      <4> QED
        BY <1>1, <3>4, <4>2 DEF max
    <3>7. new \in SUBSET Nat /\ finalized \in new /\ \A i \in new : i <= max
      <4>1. finalized \in finalized .. LengthMax(size, clean)
        BY <1>1, <3>4 DEF max
      <4> QED
        BY <3>5, <3>6, <4>1
    <3> HIDE DEF new
    <3>8. MaxOf(new) \in new
      BY <3>4, <3>7, MaxOfIsMax
    <3>9. finalized' = MaxOf(new)
      BY <1>3, <2>2
    <3>10. finalized' \in Nat /\ finalized <= finalized' /\ \E p \in clean : finalized' <= LastPoint(p)
      BY <3>6, <3>8, <3>9
    <3> QED
      BY <1>1, <3>1, <3>10
  <2> QED
    BY <2>1, <2>2
<1>5. PointOK'
  BY <1>1, <1>4 DEF PointOK
<1>6. ListOK'
  <2>1. /\ proved \in [Peers -> AllHeads \cup {NoBlock}]
        /\ first \in [Peers -> Nat] /\ latest \in [Peers -> Seq(Blocks)]
        /\ \A p \in Peers : first[p] <= finalized /\ IsBehind(first[p], latest[p])
    BY <1>1 DEF ListOK
  <2>2. first' \in [Peers -> Nat] /\ proved' \in [Peers -> AllHeads \cup {NoBlock}]
    BY <1>1, <1>3, <2>1
  <2>3. <<>> \in Seq(Blocks)
    OBVIOUS
  <2> HIDE DEF clean
  <2>4. ASSUME NEW p \in Peers
        PROVE  /\ first'[p] <= finalized' /\ latest'[p] \in Seq(Blocks)
               /\ IsBehind(first'[p], latest'[p])
    <3>1. /\ first'[p] = IF p \in clean THEN finalized ELSE first[p]
          /\ latest'[p] = IF p \in clean /\ first[p] # finalized THEN <<>> ELSE latest[p]
      BY <1>3
    <3>2. first[p] \in Nat /\ latest[p] \in Seq(Blocks) /\ first[p] <= finalized
          /\ IsBehind(first[p], latest[p])
      BY <2>1
    <3>3. first'[p] <= finalized'
      BY <1>1, <1>4, <3>1, <3>2
    <3>4. latest'[p] \in Seq(Blocks)
      BY ONLY <2>3, <3>1, <3>2, Zenon
    <3>5. IsBehind(first'[p], latest'[p])
      BY ONLY <3>1, <3>2, EmptyIsBehind, Zenon
    <3> QED
      BY <3>3, <3>4, <3>5
  <2>5. latest' \in [Peers -> Seq(Blocks)]
    <3>1. latest' = [p \in Peers |-> latest'[p]]
      BY <1>3
    <3> QED
      BY <2>4, <3>1
  <2> QED
    BY <2>2, <2>4, <2>5 DEF ListOK
<1>7. CacheOK'
  <2>1. CacheOK
    BY DEF Inv
  <2> QED
    BY <1>1, <1>3, <1>4, <2>1 DEF CacheOK
<1>8. NetOK' /\ StoredOK'
  BY <1>3 DEF Inv, NetOK, StoredOK
<1> QED
  BY <1>5, <1>6, <1>7, <1>8 DEF Inv

-----------------------------------------------------------------------------
(* One lemma per outcome of an answer.                                       *)

LEMMA RefuseLemma ==
    ASSUME Inv, NEW p \in Peers, asked[p] # <<>>, NEW status, Refuse(p, status),
           UNCHANGED <<minFiltered, finalized, tip, proved, first, head>>
    PROVE  Inv'
<1>1. asked' = Answered(p) /\ UNCHANGED <<cachedIndex, cached, latest>>
  BY DEF Refuse, cacheVars
<1>2. NetOK'
  BY <1>1, AnsweredType DEF Inv, NetOK
<1>3. StoredOK' /\ PointOK' /\ ListOK' /\ CacheOK'
  BY <1>1 DEF Inv, StoredOK, PointOK, ListOK, CacheOK
<1> QED
  BY <1>2, <1>3 DEF Inv

LEMMA CacheHashesLemma ==
    ASSUME Inv, NEW p \in Peers, asked[p] # <<>>, NEW h \in AllHeads, NEW start \in Nat \ {0},
           NEW hashes, IsPartOf(hashes, h, start), ForCache(start), NEW parent,
           CacheHashes(p, start, parent, hashes),
           UNCHANGED <<minFiltered, finalized, tip, proved, first, head>>
    PROVE  Inv'
<1> DEFINE skip == start - PointNumber(cachedIndex) - 1
           end  == start + Len(hashes) - 1
<1>1. CASE Refuse(p, CacheStatus(start, parent, hashes))
  BY <1>1, RefuseLemma
<1>2. CASE CacheStatus(start, parent, hashes) = "OK" /\ ~ Refuse(p, CacheStatus(start, parent, hashes))
  <2>1. /\ cached' = ExtendCache(skip, hashes)
        /\ cachedIndex' = cachedIndex /\ latest' = latest
        /\ \/ \E q \in Peers : asked' = Ask(Answered(p), q, "hashes", end + 1)
           \/ asked' \in GetBlockFilters(Answered(p), minFiltered, cachedIndex, cached')
    BY <1>2 DEF CacheHashes, ProvedPeers
  <2>2. PointOK /\ CacheOK /\ cachedIndex \in Nat /\ cached \in Seq(Blocks) /\ NetOK
        /\ minFiltered \in Nat
    BY DEF Inv, CacheOK, StoredOK
  <2>3. skip \in 0 .. Interval - 1
    BY <2>2, CacheNumbers
  <2>4. skip <= Len(cached) /\ Len(cached) - skip <= MinOf(Len(hashes), Interval - skip)
    <3>1. /\ ~ (skip > Len(cached))
          /\ ~ (Len(cached) - skip > MinOf(Len(hashes), Interval - skip))
      BY <1>2 DEF CacheStatus
    <3>2. Len(cached) \in Nat /\ Len(hashes) \in Nat /\ Interval \in Nat
      BY <2>2, FilterHashesAssumption DEF IsPartOf
    <3>3. skip \in Int
      BY <2>3
    <3> HIDE DEF skip
    <3>4. MinOf(Len(hashes), Interval - skip) \in Int
      BY <3>2, <3>3 DEF MinOf
    <3> QED
      BY <3>1, <3>2, <3>3, <3>4
  <2>5. CacheOK'
    BY <2>1, <2>2, <2>4, ExtendCacheLemma
  <2>6. asked' \in Queues
    <3>1. Answered(p) \in Queues
      BY <2>2, AnsweredType
    <3>2. end + 1 \in Nat \ {0}
      BY DEF IsPartOf
    <3> QED
      BY <2>1, <2>2, <3>1, <3>2, AskType, GetBlockFiltersType
  <2>7. NetOK' /\ StoredOK' /\ PointOK' /\ ListOK'
    BY <2>1, <2>6 DEF Inv, NetOK, StoredOK, PointOK, ListOK
  <2> QED
    BY <2>5, <2>7 DEF Inv
<1> QED
  BY <1>1, <1>2, Zenon DEF CacheHashes

LEMMA UpdateLatestLemma ==
    ASSUME Inv, NEW p \in Peers, asked[p] # <<>>, NEW h \in AllHeads, NEW start \in Nat \ {0},
           NEW hashes, IsPartOf(hashes, h, start), PointNumber(finalized) < start,
           proved[p] # NoBlock, UpdateLatest(p, start, At(h, start - 1), hashes),
           UNCHANGED <<minFiltered, finalized, tip, proved, first, head>>
    PROVE  Inv'
<1> DEFINE new  == WithinProved(p, start, hashes)
           skip == start - PointNumber(finalized) - 1
           end  == start + Len(new) - 1
           list == SubSeq(latest[p], 1, skip) \o new
           status == LatestStatus(p, start, At(h, start - 1), new)
<1>1. CASE Refuse(p, status)
  BY <1>1, RefuseLemma
<1>2. CASE status = "OK" /\ ~ Refuse(p, status)
  <2>1. /\ latest' = [latest EXCEPT ![p] = list]
        /\ asked' = Ask(Answered(p), p, "hashes", end + 1) \/ asked' = Answered(p)
        /\ cachedIndex' = cachedIndex /\ cached' = cached
    BY <1>2 DEF UpdateLatest, cacheVars
  <2>2. /\ first[p] = finalized /\ ~ (start > Number[proved[p]]) /\ ~ (skip > Len(latest[p]))
        /\ At(h, start - 1) = IF skip = 0 THEN CheckPoint(finalized) ELSE latest[p][skip]
    BY <1>2 DEF LatestStatus
  <2>3. /\ latest \in [Peers -> Seq(Blocks)] /\ latest[p] \in Seq(Blocks)
        /\ IsBehind(first[p], latest[p]) /\ finalized \in Nat /\ NetOK
        /\ proved[p] \in AllHeads
    BY DEF Inv, ListOK, PointOK
  <2>4. h \in Blocks /\ Number[proved[p]] \in Nat
    BY <2>3, HeadsLemma, ChainAssumption
  <2>5. hashes \in Seq(Blocks) /\ Len(hashes) \in Nat
    BY DEF IsPartOf
  <2>6. skip \in 0 .. Len(latest[p])
    <3>1. PointNumber(finalized) \in Nat
      BY <2>3, PointLemma
    <3>2. Len(latest[p]) \in Nat
      BY <2>3
    <3> QED
      BY <2>2, <3>1, <3>2
  <2>7. IsPartOf(new, h, start)
    <3> DEFINE m == MinOf(Len(hashes), Number[proved[p]] - start + 1)
    <3>1. m \in Nat /\ m <= Len(hashes)
      BY <2>2, <2>4, <2>5 DEF MinOf
    <3>2. new = SubSeq(hashes, 1, m)
      BY DEF WithinProved
    <3> HIDE DEF m, new
    <3>3. new \in Seq(Blocks) /\ Len(new) = m /\ \A k \in 1 .. m : new[k] = hashes[k]
      BY <2>5, <3>1, <3>2
    <3>4. \A k \in 1 .. m : k \in 1 .. Len(hashes)
      BY <2>5, <3>1
    <3> QED
      BY <3>3, <3>4 DEF IsPartOf
  <2> HIDE DEF skip, new
  <2>8. list \in Seq(Blocks) /\ IsBehind(finalized, list)
    BY <2>2, <2>3, <2>4, <2>6, <2>7, SpliceLemma
  <2> HIDE DEF list
  <2>9. ListOK'
    <3>1. latest' \in [Peers -> Seq(Blocks)]
      BY <2>1, <2>3, <2>8
    <3>2. \A q \in Peers : latest'[q] = IF q = p THEN list ELSE latest[q]
      BY <2>1, <2>3
    <3>3. \A q \in Peers : IsBehind(first[q], latest[q])
      BY DEF Inv, ListOK
    <3>4. \A q \in Peers : IsBehind(first[q], latest'[q])
      BY <2>2, <2>8, <3>2, <3>3
    <3> QED
      BY <3>1, <3>4 DEF Inv, ListOK
  <2>10. asked' \in Queues
    <3>1. Answered(p) \in Queues
      BY <2>3, AnsweredType
    <3>2. end + 1 \in Nat \ {0}
      BY <2>7 DEF IsPartOf
    <3> QED
      BY <2>1, <2>3, <3>1, <3>2, AskType
  <2>11. NetOK' /\ StoredOK' /\ PointOK' /\ CacheOK'
    BY <2>1, <2>10 DEF Inv, NetOK, StoredOK, PointOK, CacheOK
  <2> QED
    BY <2>9, <2>11 DEF Inv
<1> QED
  BY <1>1, <1>2, Zenon DEF UpdateLatest

LEMMA AcceptFiltersLemma ==
    ASSUME Inv, NEW p \in Peers, asked[p] # <<>>, NEW start \in Nat \ {0}, NEW hashes,
           NEW n \in Nat, AcceptFilters(p, start, hashes, n),
           UNCHANGED <<finalized, tip, proved, first, head>>
    PROVE  Inv'
<1> DEFINE last == start + n - 1
<1>1. last \in Nat /\ last + 1 \in Nat \ {0}
  OBVIOUS
<1>2. /\ minFiltered' = last /\ cachedIndex' = SyncIndex(last + 1) /\ cached' = CacheAt(last)
      /\ latest' = latest
      /\ \/ \E q \in Peers : asked' = Ask(Answered(p), q, "filters", last + 1)
         \/ asked' \in GetBlockFilterHashes(Answered(p), cachedIndex', cached')
  BY DEF AcceptFilters, ProvedPeers
<1>3. NetOK /\ PointOK /\ ListOK /\ CacheOK
  BY DEF Inv
<1> HIDE DEF last
<1>4. CacheOK' /\ cachedIndex' \in Nat /\ cached' \in Seq(Blocks)
  BY <1>1, <1>2, <1>3, CacheAtLemma
<1>5. Answered(p) \in Queues
  BY <1>3, AnsweredType
<1>6. asked' \in Queues
  BY <1>1, <1>2, <1>3, <1>4, <1>5, AskType, GetBlockFilterHashesType
<1>7. NetOK' /\ StoredOK' /\ PointOK' /\ ListOK'
  BY <1>1, <1>2, <1>6 DEF Inv, NetOK, StoredOK, PointOK, ListOK
<1> QED
  BY <1>4, <1>7 DEF Inv

\* What is left of a list has a length.
LEMMA DropFirstLength ==
    ASSUME NEW s \in Seq(Blocks), NEW n \in Nat
    PROVE  Len(DropFirst(s, n)) \in Nat
<1>1. Len(s) \in Nat /\ n + 1 \in Int /\ Len(s) \in Int
  OBVIOUS
<1>2. \A i \in n + 1 .. Len(s) : s[i] \in Blocks
  OBVIOUS
<1>3. SubSeq(s, n + 1, Len(s)) \in Seq(Blocks)
  BY <1>1, <1>2, SubSeqProperties
<1> QED
  BY <1>3 DEF DropFirst

LEMMA ExpectedLength ==
    ASSUME Inv, NEW p \in Peers, NEW start \in Nat \ {0}, NEW hashes, NEW vs \in LatestHashes,
           FiltersStatus(p, start, hashes, vs) = "OK"
    PROVE  Len(Expected(start, vs)) \in Nat
<1>1. start <= PointNumber(finalized) => ForCache(start)
  BY DEF FiltersStatus
<1>2. /\ PointOK /\ cachedIndex \in Nat /\ cached \in Seq(Blocks) /\ vs \in Seq(Blocks)
      /\ finalized \in Nat
  BY LatestHashesLemma DEF Inv, PointOK, CacheOK
<1>3. CASE start <= PointNumber(finalized)
  <2> DEFINE k == start - PointNumber(cachedIndex) - 1
  <2>1. k \in 0 .. Interval - 1 /\ Interval \in Nat
    BY <1>1, <1>2, <1>3, CacheNumbers, FilterHashesAssumption
  <2>2. Expected(start, vs) = DropFirst(cached, k)
    BY <1>3 DEF Expected
  <2> HIDE DEF k
  <2>3. k \in Nat
    BY <2>1
  <2> QED
    BY <1>2, <2>2, <2>3, DropFirstLength
<1>4. CASE ~ (start <= PointNumber(finalized))
  <2> DEFINE k == start - PointNumber(finalized) - 1
  <2>1. PointNumber(finalized) \in Nat
    BY <1>2, PointLemma
  <2>2. k \in Nat
    BY <1>4, <2>1
  <2>3. Expected(start, vs) = DropFirst(vs, k)
    BY <1>4 DEF Expected
  <2> HIDE DEF k
  <2> QED
    BY <1>2, <2>2, <2>3, DropFirstLength
<1> QED
  BY <1>3, <1>4

LEMMA ReceivedLemma ==
    ASSUME Inv, NEW p \in Peers, Received(p)
    PROVE  Inv'
<1> DEFINE start == asked[p][1].start
<1>1. asked[p] # <<>> /\ UNCHANGED <<finalized, tip, proved, first, head>>
  BY DEF Received
<1>2. PICK h \in AnswerHeads(p) : BlockFilterHashes(p, h) \/ BlockFilters(p, h)
  BY DEF Received
<1>3. start \in Nat \ {0} /\ asked[p][1].at \in AllHeads /\ head[p] \in AllHeads
  BY <1>1, AnsweredType DEF Inv, NetOK, Requests
<1>4. h \in AllHeads /\ h \in Blocks
  BY <1>3, HeadsLemma DEF AnswerHeads
<1>5. CASE BlockFilterHashes(p, h)
  <2> DEFINE hashes == Answer(h, start, MaxHashes)
             isOut  == \/ proved[p] = NoBlock \/ Number[h] < start
                       \/ start <= PointNumber(finalized) /\ ~ ForCache(start)
  <2>1. IsPartOf(hashes, h, start)
    BY <1>3, <1>4, AnswerIsPart, FilterHashesAssumption
  <2>2. minFiltered' = minFiltered
        /\ \/ Refuse(p, "Ignore")
           \/ ~ isOut /\ ForCache(start) /\ CacheHashes(p, start, At(h, start - 1), hashes)
           \/ ~ isOut /\ ~ ForCache(start) /\ UpdateLatest(p, start, At(h, start - 1), hashes)
    BY <1>5 DEF BlockFilterHashes
  <2>3. CASE Refuse(p, "Ignore")
    BY <1>1, <2>2, <2>3, RefuseLemma
  <2>4. CASE ~ isOut /\ ForCache(start) /\ CacheHashes(p, start, At(h, start - 1), hashes)
    <3> HIDE DEF hashes, start
    <3> QED
      BY <1>1, <1>3, <1>4, <2>1, <2>2, <2>4, CacheHashesLemma
  <2>5. CASE ~ isOut /\ ~ ForCache(start) /\ UpdateLatest(p, start, At(h, start - 1), hashes)
    <3>1. proved[p] # NoBlock /\ ~ (start <= PointNumber(finalized))
      BY <2>5
    <3>2. PointNumber(finalized) \in Nat
      BY PointLemma DEF Inv, PointOK
    <3> HIDE DEF hashes, start
    <3>3. PointNumber(finalized) < start
      BY <1>3, <3>1, <3>2
    <3> QED
      BY <1>1, <1>3, <1>4, <2>1, <2>2, <2>5, <3>1, <3>3, UpdateLatestLemma
  <2> QED
    BY <2>2, <2>3, <2>4, <2>5
<1>6. CASE BlockFilters(p, h)
  <2> DEFINE hashes == Answer(h, start, MaxFilters)
  <2>1. PICK vs \in LatestHashes :
          \/ Refuse(p, FiltersStatus(p, start, hashes, vs)) /\ minFiltered' = minFiltered
          \/ /\ FiltersStatus(p, start, hashes, vs) = "OK"
             /\ AcceptFilters(p, start, hashes, MinOf(Len(hashes), Len(Expected(start, vs))))
    BY <1>6 DEF BlockFilters
  <2>2. hashes \in Seq(Blocks) /\ Len(hashes) \in Nat
    BY <1>3, <1>4, AnswerLemma, FilterHashesAssumption
  <2> HIDE DEF hashes, start
  <2>3. CASE Refuse(p, FiltersStatus(p, start, hashes, vs)) /\ minFiltered' = minFiltered
    BY <1>1, <2>3, RefuseLemma
  <2>4. CASE /\ FiltersStatus(p, start, hashes, vs) = "OK"
             /\ AcceptFilters(p, start, hashes, MinOf(Len(hashes), Len(Expected(start, vs))))
    <3> DEFINE n == MinOf(Len(hashes), Len(Expected(start, vs)))
    <3>1. Len(Expected(start, vs)) \in Nat
      BY <1>3, <2>4, ExpectedLength
    <3>2. n \in Nat
      BY <2>2, <3>1 DEF MinOf
    <3> HIDE DEF n
    <3>3. AcceptFilters(p, start, hashes, n)
      BY <2>4 DEF n
    <3> QED
      BY <1>1, <1>3, <3>2, <3>3, AcceptFiltersLemma
  <2> QED
    BY <2>1, <2>3, <2>4
<1> QED
  BY <1>2, <1>5, <1>6

-----------------------------------------------------------------------------
(* The light client task and the timers.                                     *)

\* The rollback puts the cursor at the number of a block.
LEMMA MoveTipLemma ==
    ASSUME StoredOK, NEW h \in Blocks, NEW reorg,
           \/ reorg = {}
           \/ \E start \in Blocks : reorg = ReorgHeaders(start, h),
           MoveTip(h, reorg)
    PROVE  StoredOK'
<1> DEFINE forks == ForkNumbers(reorg, LastHeaders(tip))
<1>1. minFiltered \in Nat /\ tip \in Blocks
  BY DEF StoredOK
<1>2. CASE ~ (TotalDifficulty[h] > TotalDifficulty[tip])
  BY <1>1, <1>2 DEF MoveTip, StoredOK
<1>3. CASE TotalDifficulty[h] > TotalDifficulty[tip]
  <2>1. /\ reorg # {} => forks # {}
        /\ tip' = h
        /\ minFiltered' = IF reorg # {} /\ minFiltered >= MaxOf(forks) + 1
                          THEN (MaxOf(forks) + 1) - 1 ELSE minFiltered
    BY <1>3 DEF MoveTip
  <2>2. reorg # {} => MaxOf(forks) \in Nat
    <3> SUFFICES ASSUME reorg # {} PROVE MaxOf(forks) \in Nat
      OBVIOUS
    <3>1. PICK start \in Blocks : reorg = ReorgHeaders(start, h)
      OBVIOUS
    <3>2. LastHeaders(tip) \in SUBSET Blocks
      BY <1>1, LastHeadersType
    <3> QED
      BY <2>1, <3>1, <3>2, ForkNumberType
  <2> HIDE DEF forks
  <2>3. minFiltered' \in Nat
    BY <1>1, <2>1, <2>2
  <2> QED
    BY <2>1, <2>3 DEF StoredOK
<1> QED
  BY <1>2, <1>3

LEMMA ProveLemma ==
    ASSUME Inv, NEW p \in Peers, Prove(p)
    PROVE  Inv'
<1> DEFINE h   == head[p]
           old == IF proved[p] = NoBlock THEN tip ELSE proved[p]
           start == StartOfRequest(old, h, LastHeaders(tip))
           reorg == ReorgHeaders(start, h)
<1>1. h \in AllHeads /\ h \in Blocks /\ tip \in Blocks /\ minFiltered \in Nat
  BY HeadsLemma DEF Inv, NetOK, StoredOK
<1>2. old \in Blocks
  BY <1>1, HeadsLemma DEF Inv, ListOK
<1>3. /\ UNCHANGED <<finalized, cachedIndex, cached, first, head, asked>>
      /\ \E isReorg : UpdateProveState(p, h, isReorg)
      /\ MoveTip(h, {}) \/ MoveTip(h, reorg) \/ UNCHANGED <<tip, minFiltered>>
  <2>1. UNCHANGED <<finalized, cachedIndex, cached, first, head, asked>>
    BY DEF Prove, cacheVars
  <2>2. \/ MoveTip(h, {}) /\ UpdateProveState(p, h, p \in reorged)
        \/ \E q \in Peers : UpdateProveState(p, h, q \in reorged) /\ UNCHANGED <<tip, minFiltered>>
        \/ MoveTip(h, reorg) /\ UpdateProveState(p, h, reorg # {})
    BY Zenon DEF Prove
  <2>3. \E isReorg : UpdateProveState(p, h, isReorg)
    BY <2>2, Zenon
  <2>4. MoveTip(h, {}) \/ MoveTip(h, reorg) \/ UNCHANGED <<tip, minFiltered>>
    BY <2>2, Zenon
  <2> QED
    BY <2>1, <2>3, <2>4, Zenon
<1> HIDE DEF old
<1>4. start \in Blocks
  <2>1. LastHeaders(tip) \in SUBSET Blocks
    BY <1>1, LastHeadersType
  <2> QED
    BY <1>1, <1>2, <2>1, StartOfRequestType
<1> HIDE DEF start, h
<1>5. StoredOK'
  <2>1. StoredOK
    BY DEF Inv
  <2>2. CASE MoveTip(h, {})
    BY <1>1, <2>1, <2>2, MoveTipLemma
  <2>3. CASE MoveTip(h, reorg)
    BY <1>1, <1>4, <2>1, <2>3, MoveTipLemma
  <2>4. CASE UNCHANGED <<tip, minFiltered>>
    BY <2>1, <2>4 DEF StoredOK
  <2> QED
    BY <1>3, <2>2, <2>3, <2>4
<1>6. ListOK'
  <2>1. /\ proved' = [proved EXCEPT ![p] = h]
        /\ latest' = [latest EXCEPT ![p] = <<>>] \/ latest' = latest
    BY <1>3 DEF UpdateProveState, LatestAfter
  <2>2. /\ proved \in [Peers -> AllHeads \cup {NoBlock}]
        /\ first \in [Peers -> Nat] /\ latest \in [Peers -> Seq(Blocks)]
        /\ \A q \in Peers : first[q] <= finalized /\ IsBehind(first[q], latest[q])
    BY DEF Inv, ListOK
  <2>3. proved' \in [Peers -> AllHeads \cup {NoBlock}]
    BY <1>1, <2>1, <2>2
  <2>4. latest' \in [Peers -> Seq(Blocks)]
    <3>1. <<>> \in Seq(Blocks)
      OBVIOUS
    <3> QED
      BY <2>1, <2>2, <3>1
  <2>5. \A q \in Peers : latest'[q] = <<>> \/ latest'[q] = latest[q]
    BY <2>1, <2>2
  <2>6. \A q \in Peers : IsBehind(first[q], latest'[q])
    BY ONLY <2>2, <2>5, EmptyIsBehind, Zenon
  <2> QED
    BY <1>3, <2>2, <2>3, <2>4, <2>6 DEF ListOK
<1>7. NetOK' /\ PointOK' /\ CacheOK'
  BY <1>3 DEF Inv, NetOK, PointOK, CacheOK
<1> QED
  BY <1>5, <1>6, <1>7 DEF Inv

LEMMA TimersLemma ==
    ASSUME Inv, TryGetBlockFilters \/ TryGetBlockFilterHashes
    PROVE  Inv'
<1>1. NetOK /\ PointOK /\ ListOK /\ CacheOK /\ minFiltered \in Nat /\ asked \in Queues
  BY DEF Inv, NetOK, StoredOK
<1>2. CASE TryGetBlockFilters
  <2>1. /\ UNCHANGED <<minFiltered, finalized, tip, cachedIndex, cached, proved, first, latest, head>>
        /\ asked' \in GetBlockFilters(asked, minFiltered, cachedIndex, cached)
    BY <1>2 DEF TryGetBlockFilters, cacheVars, peerVars
  <2>2. asked' \in Queues
    BY <1>1, <2>1, GetBlockFiltersType
  <2> QED
    BY <2>1, <2>2 DEF Inv, NetOK, StoredOK, PointOK, ListOK, CacheOK
<1>3. CASE TryGetBlockFilterHashes
  <2>1. /\ UNCHANGED <<minFiltered, finalized, tip, proved, first, latest, head>>
        /\ cachedIndex' = SyncIndex(minFiltered + 1) /\ cached' = CacheAt(minFiltered)
        /\ asked' \in GetBlockFilterHashes(asked, cachedIndex', cached')
    BY <1>3 DEF TryGetBlockFilterHashes, peerVars
  <2>2. CacheOK' /\ cachedIndex' \in Nat /\ cached' \in Seq(Blocks)
    BY <1>1, <2>1, CacheAtLemma
  <2>3. asked' \in Queues
    BY <1>1, <2>1, <2>2, GetBlockFilterHashesType
  <2> QED
    BY <2>1, <2>2, <2>3 DEF Inv, NetOK, StoredOK, PointOK, ListOK
<1> QED
  BY <1>2, <1>3

LEMMA SwitchHeadLemma ==
    ASSUME Inv, NEW p \in Peers, NEW h \in Heads[p], SwitchHead(p, h)
    PROVE  Inv'
<1>1. /\ head' = [head EXCEPT ![p] = h]
      /\ UNCHANGED <<minFiltered, finalized, tip, cachedIndex, cached, proved, first, latest, asked>>
  BY DEF SwitchHead, cacheVars
<1>2. h \in AllHeads
  BY HeadsLemma
<1>3. NetOK'
  BY <1>1, <1>2 DEF Inv, NetOK
<1> QED
  BY <1>1, <1>3 DEF Inv, StoredOK, PointOK, ListOK, CacheOK

LEMMA SetScriptsLemma ==
    ASSUME Inv, NEW n \in StartNumbers, SetScripts(n)
    PROVE  Inv'
<1>1. /\ minFiltered' = n /\ n \in Nat
      /\ UNCHANGED <<finalized, tip, cachedIndex, cached, proved, first, latest, head, asked>>
  BY FilterHashesAssumption DEF SetScripts, cacheVars, peerVars
<1> QED
  BY <1>1 DEF Inv, NetOK, StoredOK, PointOK, ListOK, CacheOK

-----------------------------------------------------------------------------
(* The theorems.                                                             *)

LEMMA InitLemma == Init => Inv
<1> SUFFICES ASSUME Init PROVE Inv
  OBVIOUS
<1>1. ASSUME NEW p \in Peers PROVE head[p] \in AllHeads
  <2> DEFINE numbers == {TotalDifficulty[h] : h \in Heads[p]}
  <2>1. Heads[p] \subseteq Blocks /\ Heads[p] # {} /\ Heads[p] \subseteq AllHeads
    BY HeadsLemma
  <2>2. numbers \in SUBSET Nat /\ numbers # {}
    BY <2>1, ChainAssumption
  <2>3. PICK n \in numbers : \A m \in numbers : n <= m
    BY <2>2, NatMin
  <2>4. \E h \in Heads[p] : \A b \in Heads[p] : TotalDifficulty[h] <= TotalDifficulty[b]
    BY <2>3
  <2>5. head[p] = CHOOSE h \in Heads[p] :
                     \A b \in Heads[p] : TotalDifficulty[h] <= TotalDifficulty[b]
    BY DEF Init
  <2> QED
    BY <2>1, <2>4, <2>5
<1>2. <<>> \in Seq(Blocks) /\ <<>> \in Seq(Requests)
  OBVIOUS
<1>3. NetOK
  <2>1. head = [p \in Peers |-> head[p]] /\ asked = [p \in Peers |-> <<>>]
    BY DEF Init
  <2> QED
    BY <1>1, <1>2, <2>1 DEF NetOK, Queues
<1>4. StoredOK
  BY ChainAssumption DEF Init, StoredOK
<1>5. PointOK
  BY DEF Init, PointOK
<1>6. ListOK
  <2>1. /\ proved = [p \in Peers |-> NoBlock] /\ first = [p \in Peers |-> 0]
        /\ latest = [p \in Peers |-> <<>>] /\ finalized = 0
    BY DEF Init
  <2>2. \A p \in Peers : first[p] <= finalized /\ IsBehind(first[p], latest[p])
    BY <2>1, EmptyIsBehind
  <2> QED
    BY <1>2, <2>1, <2>2 DEF ListOK
<1>7. CacheOK
  BY FilterHashesAssumption DEF Init, CacheOK
<1> QED
  BY <1>3, <1>4, <1>5, <1>6, <1>7 DEF Inv

LEMMA StepLemma ==
    ASSUME Inv, [Next]_vars
    PROVE  Inv'
<1>1. CASE TryGetBlockFilters \/ TryGetBlockFilterHashes
  BY <1>1, TimersLemma
<1>2. CASE FinalizeCheckPoints
  BY <1>2, FinalizeLemma
<1>3. ASSUME NEW p \in Peers, Received(p) PROVE Inv'
  BY <1>3, ReceivedLemma
<1>4. ASSUME NEW p \in Peers, Prove(p) PROVE Inv'
  BY <1>4, ProveLemma
<1>5. ASSUME NEW p \in Peers, NEW h \in Heads[p], SwitchHead(p, h) PROVE Inv'
  BY <1>5, SwitchHeadLemma
<1>6. ASSUME NEW n \in StartNumbers, SetScripts(n) PROVE Inv'
  BY <1>6, SetScriptsLemma
<1>7. CASE UNCHANGED vars
  BY <1>7 DEF vars, cacheVars, peerVars, Inv, NetOK, StoredOK, PointOK, ListOK, CacheOK
<1> QED
  BY <1>1, <1>2, <1>3, <1>4, <1>5, <1>6, <1>7 DEF Next

LEMMA InvariantHolds == Spec => []Inv
<1>1. Init => Inv
  BY InitLemma
<1>2. Inv /\ [Next]_vars => Inv'
  BY StepLemma
<1> QED
  BY <1>1, <1>2, PTL DEF Spec

LEMMA CacheFromInv == Inv => CacheIsRight
<1> SUFFICES ASSUME Inv, cached # <<>>
             PROVE  /\ cachedIndex < finalized
                    /\ cached = SubSeq(Segment(CheckPoint(cachedIndex + 1),
                                    PointNumber(cachedIndex) + 1, PointNumber(cachedIndex + 1)),
                                    1, Len(cached))
  BY DEF CacheIsRight
<1> DEFINE P == PointNumber(cachedIndex)
           c == CheckPoint(cachedIndex + 1)
           n == Len(cached)
           s == Segment(c, P + 1, PointNumber(cachedIndex + 1))
<1>1. /\ cachedIndex \in Nat /\ cached \in Seq(Blocks) /\ n <= Interval /\ cachedIndex < finalized
      /\ \A j \in 1 .. n : cached[j] = At(HighestHead, P + j)
      /\ finalized \in Nat /\ PointNumber(finalized) + Interval <= Number[HighestHead]
  BY DEF Inv, CacheOK, PointOK
<1>2. n \in Nat /\ Interval \in Nat
  BY <1>1, FilterHashesAssumption
<1>3. P \in Nat /\ PointNumber(cachedIndex + 1) = P + Interval
  BY <1>1, PointLemma
<1>4. P + Interval <= PointNumber(finalized) /\ PointNumber(finalized) \in Nat
  <2>1. cachedIndex + 1 \in Nat /\ cachedIndex + 1 <= finalized
    BY <1>1
  <2>2. PointNumber(cachedIndex + 1) <= PointNumber(finalized) /\ PointNumber(finalized) \in Nat
    BY <1>1, <2>1, PointLemma
  <2> QED
    BY <1>3, <2>2
<1>5. HighestHead \in Blocks /\ Number[HighestHead] \in Nat
  BY HeadsLemma, ChainAssumption
<1>6. P + Interval \in 0 .. Number[HighestHead]
  BY ONLY <1>1, <1>2, <1>3, <1>4, <1>5
<1>7. c = At(HighestHead, P + Interval)
  BY <1>3 DEF CheckPoint
<1>8. c \in Ancestors[HighestHead] /\ Number[c] = P + Interval
  BY <1>5, <1>6, <1>7, AtLemma
<1>9. s = [i \in 1 .. ((P + Interval) - (P + 1)) + 1 |-> At(c, ((P + 1) + i) - 1)]
  BY <1>3 DEF Segment
<1> HIDE DEF P, c, n
<1>10. ((P + Interval) - (P + 1)) + 1 = Interval
  BY ONLY <1>2, <1>3
<1>11. s = [i \in 1 .. Interval |-> At(c, ((P + 1) + i) - 1)]
  BY <1>9, <1>10
<1> HIDE DEF s
<1>12. ASSUME NEW i \in 1 .. n PROVE s[i] = cached[i]
  <2>1. i \in 1 .. Interval /\ ((P + 1) + i) - 1 = P + i /\ P + i \in 0 .. P + Interval
    BY ONLY <1>1, <1>2, <1>3, i \in 1 .. n
  <2>2. s[i] = At(c, P + i)
    BY <1>11, <2>1
  <2>3. At(c, P + i) = At(HighestHead, P + i)
    BY <1>5, <1>8, <2>1, AtOfAncestor
  <2> QED
    BY <1>1, <2>2, <2>3
<1>13. \A i \in 1 .. n : s[i] \in Blocks
  BY <1>1, <1>12 DEF n
<1>14. /\ SubSeq(s, 1, n) \in Seq(Blocks) /\ Len(SubSeq(s, 1, n)) = n
       /\ \A i \in 1 .. n : SubSeq(s, 1, n)[i] = s[i]
  <2>1. /\ SubSeq(s, 1, n) \in Seq(Blocks)
        /\ Len(SubSeq(s, 1, n)) = IF 1 <= n THEN n - 1 + 1 ELSE 0
        /\ \A i \in 1 .. n - 1 + 1 : SubSeq(s, 1, n)[i] = s[1 + i - 1]
    <3>1. 1 \in Int /\ n \in Int
      BY <1>2
    <3> QED
      BY <1>13, <3>1, SubSeqProperties
  <2>2. n - 1 + 1 = n /\ (1 <= n \/ n = 0) /\ \A i \in 1 .. n : 1 + i - 1 = i
    BY <1>2
  <2> QED
    BY <2>1, <2>2
<1>15. SubSeq(s, 1, n) = cached
  <2> DEFINE t == SubSeq(s, 1, n)
  <2>1. t \in Seq(Blocks) /\ cached \in Seq(Blocks) /\ Len(t) = Len(cached)
    BY <1>1, <1>14 DEF n
  <2>2. \A i \in 1 .. Len(t) : t[i] = cached[i]
    BY <1>12, <1>14
  <2> HIDE DEF t
  <2>3. t = cached
    BY <2>1, <2>2
  <2> QED
    BY <2>3 DEF t
<1> QED
  BY <1>1, <1>15 DEF s, c, P, n

LEMMA AgreedFromInv == Inv => AgreedIsChain
<1> SUFFICES ASSUME Inv, NEW vs \in LatestHashes PROVE IsBehind(finalized, vs)
  BY DEF AgreedIsChain
<1>1. CASE vs = <<>>
  BY <1>1, EmptyIsBehind
<1>2. ASSUME NEW p \in PeersWithData, NEW n \in 0 .. Len(latest[p]), vs = SubSeq(latest[p], 1, n)
      PROVE  IsBehind(finalized, vs)
  <2> DEFINE l == latest[p]
  <2>1. l \in Seq(Blocks) /\ IsBehind(finalized, l)
    BY DEF Inv, ListOK, PeersWithData, ProvedPeers
  <2>2. n \in 0 .. Len(l) /\ vs = SubSeq(l, 1, n)
    BY <1>2
  <2> HIDE DEF l
  <2>3. vs \in Seq(Blocks) /\ Len(vs) = n /\ \A i \in 1 .. n : vs[i] = l[i]
    BY <2>1, <2>2
  <2>4. /\ l # <<>> => IsParentOf(CheckPoint(finalized), l[1])
        /\ \A j \in 1 .. Len(l) - 1 : IsParentOf(l[j], l[j + 1])
    BY <2>1 DEF IsBehind
  <2>5. n \in Nat /\ Len(l) \in Nat /\ n <= Len(l)
    BY <2>1, <2>2
  <2>6. vs # <<>> => IsParentOf(CheckPoint(finalized), vs[1])
    <3> SUFFICES ASSUME vs # <<>> PROVE IsParentOf(CheckPoint(finalized), vs[1])
      OBVIOUS
    <3>1. n > 0
      BY <2>3, <2>5
    <3>2. 1 \in 1 .. n /\ Len(l) > 0
      BY <2>5, <3>1
    <3>3. l # <<>>
      BY <3>2
    <3> QED
      BY <2>3, <2>4, <3>2, <3>3
  <2>7. ASSUME NEW j \in 1 .. Len(vs) - 1 PROVE IsParentOf(vs[j], vs[j + 1])
    <3>1. Len(vs) = n
      BY <2>3
    <3>2. j \in 1 .. n /\ j + 1 \in 1 .. n /\ j \in 1 .. Len(l) - 1
      BY ONLY <2>5, <3>1, j \in 1 .. Len(vs) - 1
    <3> QED
      BY <2>3, <2>4, <3>2
  <2> QED
    BY <2>6, <2>7 DEF IsBehind
<1> QED
  BY <1>1, <1>2, LatestHashesLemma DEF Inv

\* The cached filter hashes are those of the chain in the interval that the cache is
\* at, wherever set_scripts, rollbacks and late answers move the cursor and however
\* the messages cut the interval: update_min_filtered_block_number, and the slices of
\* update_cached_block_filter_hashes, put no hash at another number.
THEOREM CacheStaysRight == Spec => []CacheIsRight
BY InvariantHolds, CacheFromInv, PTL

\* Whatever the peers report and whoever wins the vote, the agreed hashes are one
\* chain that starts behind the finalized check point: a list is only continued on
\* the parent it ends in, and is emptied when its first check point moves.
THEOREM AgreedStaysChain == Spec => []AgreedIsChain
BY InvariantHolds, AgreedFromInv, PTL

=============================================================================
