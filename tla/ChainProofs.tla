---------------------------- MODULE ChainProofs ----------------------------
(***************************************************************************)
(* Facts about the block tree and the operators of Chain, for every tree    *)
(* that its assumptions allow.  The proofs about the modules that extend    *)
(* Chain rest on them.                                                      *)
(***************************************************************************)
EXTENDS Chain, TLAPS, WellFoundedInduction, FiniteSetTheorems, FunctionTheorems

-----------------------------------------------------------------------------
(* Numbers *)

\* A nonempty set of natural numbers has a least element.
LEMMA NatMin ==
    ASSUME NEW S \in SUBSET Nat, S # {}
    PROVE  \E x \in S : \A y \in S : x <= y
<1> DEFINE R == {ss \in Nat \X Nat : ss[1] < ss[2]}
<1>1. IsWellFoundedOn(R, Nat) BY NatLessThanWellFounded DEF OpToRel
<1>2. \A x, y \in Nat : x < y => <<x, y>> \in R OBVIOUS
<1> HIDE DEF R
<1>3. S \subseteq Nat OBVIOUS
<1>4. \E x \in S : \A y \in S : ~ (<<y, x>> \in R) BY <1>1, <1>3, WFMin
<1>5. PICK m \in S : \A y \in S : ~ (<<y, m>> \in R) BY <1>4
<1>6. \A y \in S : m <= y
  <2> TAKE y \in S
  <2>1. m \in Nat /\ y \in Nat BY <1>3
  <2>2. ~ (y < m) BY <1>2, <1>5, <2>1, Zenon
  <2> QED BY <2>1, <2>2
<1> QED BY <1>6

\* MaxOf, on a nonempty bounded set of natural numbers, is its greatest element.
LEMMA MaxOfIsMax ==
    ASSUME NEW S \in SUBSET Nat, S # {}, NEW n \in Nat, \A x \in S : x <= n
    PROVE  MaxOf(S) \in S /\ \A x \in S : x <= MaxOf(S)
<1> DEFINE T == {n - x : x \in S}
<1>1. T \in SUBSET Nat /\ T # {}
  <2>1. \A x \in S : x \in Nat /\ x <= n OBVIOUS
  <2>2. \A x \in S : n - x \in Nat BY <2>1
  <2>3. T \subseteq Nat BY <2>2
  <2>4. PICK x \in S : TRUE OBVIOUS
  <2>5. n - x \in T OBVIOUS
  <2> QED BY <2>3, <2>5
<1>2. PICK t \in T : \A u \in T : t <= u BY <1>1, NatMin
<1>3. PICK m \in S : t = n - m OBVIOUS
<1>4. \A x \in S : x <= m
  <2> TAKE x \in S
  <2>1. n - x \in T OBVIOUS
  <2> QED BY <1>2, <1>3, <2>1
<1> QED BY <1>4 DEF MaxOf

-----------------------------------------------------------------------------
(* The tree *)

USE ChainAssumption

\* An ancestor is lighter.
LEMMA AncestorIsLighter ==
    ASSUME NEW b \in Blocks, NEW a \in Ancestors[b], a # b
    PROVE  a \in Blocks /\ TotalDifficulty[a] < TotalDifficulty[b]
BY TreeAssumption

\* A chain has one block of every number up to its last one's.
LEMMA AncestorAt ==
    ASSUME NEW b \in Blocks, NEW n \in 0 .. Number[b]
    PROVE  \E a \in Ancestors[b] :
              /\ a \in Blocks /\ Number[a] = n
              /\ \A c \in Ancestors[b] : Number[c] = n => c = a
<1>1. PICK a \in Blocks : {c \in Ancestors[b] : Number[c] = n} = {a}
  BY TreeAssumption
<1> QED
  BY <1>1

\* On one chain the block with the lower number is an ancestor of the other, and
\* blocks with one number are one block.
LEMMA ChainOrder ==
    ASSUME NEW h \in Blocks, NEW x \in Ancestors[h], NEW y \in Ancestors[h],
           Number[x] <= Number[y]
    PROVE  /\ x \in Blocks /\ y \in Blocks /\ x \in Ancestors[y]
           /\ Number[x] = Number[y] => x = y
<1>1. x \in Blocks /\ y \in Blocks OBVIOUS
<1>2. Ancestors[y] = {c \in Ancestors[h] : Number[c] <= Number[y]} BY TreeAssumption
<1>3. x \in Ancestors[y] BY <1>2
<1>4. x # y => Number[x] < Number[y] BY <1>1, <1>3, TreeAssumption
<1>5. Number[x] \in Nat /\ Number[y] \in Nat BY <1>1
<1> QED BY <1>1, <1>3, <1>4, <1>5

\* The ancestors of an ancestor are ancestors.
LEMMA AncestorsNest ==
    ASSUME NEW h \in Blocks, NEW x \in Ancestors[h]
    PROVE  x \in Blocks /\ Ancestors[x] \subseteq Ancestors[h] /\ Number[x] <= Number[h]
<1>1. x \in Blocks /\ Ancestors[x] = {c \in Ancestors[h] : Number[c] <= Number[x]}
      BY TreeAssumption
<1>2. x # h => Number[x] < Number[h] BY TreeAssumption
<1>3. Number[x] \in Nat /\ Number[h] \in Nat BY <1>1
<1> QED BY <1>1, <1>2, <1>3

\* A chain that has n blocks from number `start` on has all of them.
LEMMA FullInterval ==
    ASSUME NEW h \in Blocks, NEW start \in Nat, NEW n \in Nat \ {0},
           Cardinality({b \in Ancestors[h] : start <= Number[b] /\ Number[b] < start + n}) = n
    PROVE  start + n <= Number[h] + 1
<1> DEFINE bs == {b \in Ancestors[h] : start <= Number[b] /\ Number[b] < start + n}
           f  == [b \in bs |-> Number[b]]
           top == Number[h]
<1>1. top \in Nat OBVIOUS
<1>2. \A b \in bs : Number[b] \in start .. top
  <2> TAKE b \in bs
  <2>1. b \in Blocks /\ Number[b] <= top BY AncestorsNest
  <2> QED BY <1>1, <2>1
<1>3. \A a, b \in bs : f[a] = f[b] => a = b
  <2> SUFFICES ASSUME NEW a \in bs, NEW b \in bs, Number[a] = Number[b] PROVE a = b OBVIOUS
  <2>1. a \in Ancestors[h] /\ b \in Ancestors[h] OBVIOUS
  <2>2. Number[a] <= Number[b] BY <2>1
  <2> QED BY <2>1, <2>2, ChainOrder
<1>4. f \in [bs -> start .. top] BY <1>2
<1>5. Cardinality(bs) = n OBVIOUS
<1> HIDE DEF f, bs, top
<1>6. f \in Injection(bs, start .. top) BY <1>3, <1>4, Fun_IsInj
<1>7. /\ IsFiniteSet(start .. top)
      /\ Cardinality(start .. top) = IF start > top THEN 0 ELSE top - start + 1
  <2>1. start \in Int /\ top \in Int BY <1>1
  <2> QED BY ONLY <2>1, FS_Interval
<1>8. n <= Cardinality(start .. top) BY <1>5, <1>6, <1>7, FS_Injection
<1>9. start + n <= top + 1 BY <1>1, <1>7, <1>8
<1> QED BY <1>9 DEF top

-----------------------------------------------------------------------------
(* The operators *)

\* The block a proof request starts from is a block of the tree.
LEMMA StartOfRequestType ==
    ASSUME NEW start \in Blocks, NEW last \in Blocks, NEW headers \in SUBSET Blocks
    PROVE  StartOfRequest(start, last, headers) \in Blocks
<1> DEFINE older == {h \in headers :
                       Number[h] < Number[start] /\ Number[last] <= Number[h] + LastN}
<1>1. ASSUME older # {}
      PROVE  \E h \in older : \A g \in older : Number[h] <= Number[g]
  <2> DEFINE numbers == {Number[h] : h \in older}
  <2>1. numbers \in SUBSET Nat /\ numbers # {} BY <1>1 
  <2>2. PICK n \in numbers : \A m \in numbers : n <= m BY <2>1, NatMin
  <2> QED BY <2>2
<1> QED BY <1>1 DEF StartOfRequest

\* The headers kept below a tip are blocks of the tree.
LEMMA LastHeadersType == \A b \in Blocks : LastHeaders(b) \in SUBSET Blocks
BY DEF LastHeaders

\* The fork number that commit_prove_state finds is the number of a block.
LEMMA ForkNumberType ==
    ASSUME NEW start \in Blocks, NEW last \in Blocks, NEW headers \in SUBSET Blocks,
           ForkNumbers(ReorgHeaders(start, last), headers) # {}
    PROVE  MaxOf(ForkNumbers(ReorgHeaders(start, last), headers)) \in Nat \ {0}
<1> DEFINE forks == ForkNumbers(ReorgHeaders(start, last), headers)
<1>1. forks \in SUBSET (Nat \ {0}) BY DEF ForkNumbers, ReorgHeaders
<1>2. \A n \in forks : n <= Number[start] BY DEF ForkNumbers, ReorgHeaders
<1>3. Number[start] \in Nat OBVIOUS
<1> HIDE DEF forks
<1>4. MaxOf(forks) \in forks
  <2> forks # {} BY DEF forks
  <2> QED BY <1>1, <1>2, <1>3, MaxOfIsMax
<1> QED BY <1>1, <1>4 DEF forks
=============================================================================
