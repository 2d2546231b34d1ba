------------------------------ MODULE PMMProofs ------------------------------
(***************************************************************************)
(* For every memory map, table size and number of processes: the table of  *)
(* the physical memory manager stays sorted and without collisions, and    *)
(* the manager implements the abstract store of frames.                    *)
(***************************************************************************)
EXTENDS PMM, FiniteSetTheorems, WellFoundedInduction, SequenceTheorems, TLAPS

n == Len(allocations)

Inv == TypeOK /\ NoCollision

-----------------------------------------------------------------------------
(* Extreme elements.                                                       *)

LEMMA MinOf ==
    ASSUME NEW S \in SUBSET Nat, S # {}
    PROVE  Min(S) \in S /\ \A y \in S : Min(S) <= y
<1> DEFINE R == {ss \in Nat \X Nat : ss[1] < ss[2]}
<1>1. IsWellFoundedOn(R, Nat)
  BY NatLessThanWellFounded DEF OpToRel
<1>2. PICK x \in S : \A y \in S : <<y, x>> \notin R
  BY <1>1, WFMin, Zenon
<1>3. ASSUME NEW y \in S PROVE x <= y
  <2>1. /\ <<y, x>> \in Nat \X Nat
        /\ <<y, x>>[1] = y /\ <<y, x>>[2] = x
    OBVIOUS
  <2>2. ~(y < x)
    BY <1>2, <2>1
  <2> QED
    BY <2>2
<1> QED
  BY <1>3 DEF Min

LEMMA MaxOf ==
    ASSUME NEW S, NEW x \in S, \A y \in S : x >= y
    PROVE  Max(S) \in S /\ \A y \in S : Max(S) >= y
  BY DEF Max

LEMMA EntryFacts ==
    ASSUME TypeOK
    PROVE  /\ n \in Nat /\ Entry = 1 .. n
           /\ \A k \in Entry : /\ allocations[k] \in FrameAllocation
                               /\ allocations[k].start \in Nat
                               /\ allocations[k].count \in Nat \ {0}
                               /\ End(allocations[k]) \in Nat
                               /\ End(allocations[k]) > allocations[k].start
<1>1. n \in Nat /\ Entry = 1 .. n
  BY DEF TypeOK, n, Entry
<1>2. \A k \in Entry : allocations[k] \in FrameAllocation
  BY DEF TypeOK, Entry
<1> QED
  BY <1>1, <1>2 DEF FrameAllocation, End

(* The search never stands in front of the end of an entry it has passed.  *)
LEMMA PrevEndFacts ==
    ASSUME Inv, NEW i \in 1 .. n + 1
    PROVE  /\ PrevEnd(i) \in Nat /\ PrevEnd(i) >= LOW
           /\ \A k \in Entry : k < i => End(allocations[k]) <= PrevEnd(i)
<1> USE EntryFacts, PMMAssumption DEF Inv
<1> DEFINE I == Entry \cap ({1} \cup 1 .. i - 1)
           S == {LOW} \cup {End(allocations[k]) : k \in I}
<1>1. \E x \in S : \A y \in S : x >= y
  <2>1. CASE I = {}
    BY <2>1
  <2>2. CASE I # {}
    <3> DEFINE m == IF i = 1 THEN 1 ELSE i - 1
    <3>1. m \in I /\ \A k \in I : k <= m
      BY <2>2
    <3>2. \A k \in I : End(allocations[k]) <= End(allocations[m])
      <4> SUFFICES ASSUME NEW k \in I, k # m
                   PROVE  End(allocations[k]) <= End(allocations[m])
        BY <3>1
      <4>1. k < m /\ k \in Entry /\ m \in Entry
        BY <3>1
      <4>2. End(allocations[k]) <= allocations[m].start
        BY <4>1 DEF NoCollision
      <4> QED
        BY <4>1, <4>2
    <3>3. End(allocations[m]) \in Nat
      BY <3>1
    <3>4. CASE End(allocations[m]) >= LOW
      <4>1. End(allocations[m]) \in S
        BY <3>1
      <4>2. \A y \in S : End(allocations[m]) >= y
        BY <3>2, <3>3, <3>4
      <4> QED
        BY <4>1, <4>2
    <3>5. CASE ~(End(allocations[m]) >= LOW)
      <4>1. \A y \in S : LOW >= y
        BY <3>1, <3>2, <3>3, <3>5
      <4> QED
        BY <4>1
    <3> QED
      BY <3>4, <3>5
  <2> QED
    BY <2>1, <2>2
<1>2. PrevEnd(i) \in S /\ \A y \in S : PrevEnd(i) >= y
  <2> DEFINE mx == Max(S)
  <2>1. mx \in S /\ \A y \in S : mx >= y
    <3> HIDE DEF S
    <3> QED
      BY <1>1, MaxOf
  <2>2. PrevEnd(i) = mx
    BY DEF PrevEnd
  <2> QED
    BY <2>1, <2>2, Zenon
<1>3. S \subseteq Nat
  OBVIOUS
<1>4. LOW \in S /\ \A k \in Entry : k < i => End(allocations[k]) \in S
  OBVIOUS
<1> QED
  BY <1>2, <1>3, <1>4

-----------------------------------------------------------------------------
(* Insertion.                                                              *)

(* The table with b at place i. *)
With(b, i) == [j \in 1 .. n + 1 |-> IF j < i THEN allocations[j]
                                    ELSE IF j = i THEN b
                                    ELSE allocations[j - 1]]

(* b ends before entry i begins, and all before i have ended when b begins.*)
FitsAt(b, i) ==
    /\ i \in 1 .. n + 1
    /\ \A k \in Entry : k < i => End(allocations[k]) <= b.start
    /\ i <= n => End(b) <= allocations[i].start

LEMMA InsertedAt ==
    ASSUME Inv, NEW b \in FrameAllocation, NEW i, FitsAt(b, i)
    PROVE  WithAllocation(b) = With(b, i)
<1> USE EntryFacts DEF Inv
<1> DEFINE later == {k \in Entry : allocations[k].start > b.start}
           S == later \cup {n + 1}
<1>1. S \in SUBSET Nat /\ S # {}
  OBVIOUS
<1>2. Min(S) \in S /\ \A y \in S : Min(S) <= y
  <2> HIDE DEF S
  <2> QED
    BY <1>1, MinOf
<1>3. b.start \in Nat /\ End(b) > b.start /\ End(b) \in Nat
  BY DEF FrameAllocation, End
<1>4. i \in S
  BY <1>3 DEF FitsAt
<1>5. \A k \in S : ~(k < i)
  BY <1>3 DEF FitsAt
<1>6. Min(S) = i
  <2> DEFINE m == Min(S)
  <2>1. m \in S /\ m <= i /\ ~(m < i)
    BY <1>2, <1>4, <1>5
  <2>2. m \in Nat /\ i \in Nat
    BY <1>1, <1>4, <2>1
  <2> HIDE DEF m
  <2>3. m = i
    BY <2>1, <2>2
  <2> QED
    BY <2>3 DEF m
<1> QED
  BY <1>6, Zenon DEF WithAllocation, With, n

LEMMA WithFacts ==
    ASSUME Inv, NEW b \in FrameAllocation, NEW i, FitsAt(b, i),
           allocations' = With(b, i)
    PROVE  /\ allocations' \in Seq(FrameAllocation)
           /\ Len(allocations') = n + 1
           /\ NoCollision'
           /\ Range(allocations') = Range(allocations) \cup {b}
           /\ \A a \in Range(allocations) : Store!Apart(a, b)
<1> USE EntryFacts DEF Inv
<1>1. i \in 1 .. n + 1 /\ n \in Nat
  BY DEF FitsAt
<1>2. allocations' \in [1 .. n + 1 -> FrameAllocation]
  <2>1. ASSUME NEW j \in 1 .. n + 1
        PROVE  (IF j < i THEN allocations[j] ELSE IF j = i THEN b
                ELSE allocations[j - 1]) \in FrameAllocation
    <3>1. CASE j < i
      BY <1>1, <3>1
    <3>2. CASE j > i
      <4>1. j - 1 \in Entry
        BY <1>1, <3>2
      <4> QED
        BY <1>1, <3>2, <4>1
    <3> QED
      BY <1>1, <3>1, <3>2
  <2> QED
    BY <2>1 DEF With
<1>3. allocations' \in Seq(FrameAllocation) /\ Len(allocations') = n + 1
  BY <1>1, <1>2
<1>4. Entry' = 1 .. n + 1
  BY <1>3 DEF Entry
<1>5. b.start \in Nat /\ End(b) \in Nat /\ End(b) > b.start
  BY DEF FrameAllocation, End
<1>6. \A j \in 1 .. n + 1 : allocations'[j] = IF j < i THEN allocations[j]
                                              ELSE IF j = i THEN b
                                              ELSE allocations[j - 1]
  BY DEF With
<1>7. \A k \in Entry : k >= i => End(b) <= allocations[k].start
  <2> SUFFICES ASSUME NEW k \in Entry, k >= i PROVE End(b) <= allocations[k].start
    OBVIOUS
  <2>1. i \in Entry /\ End(b) <= allocations[i].start
    BY <1>1 DEF FitsAt
  <2>2. k = i \/ End(allocations[i]) <= allocations[k].start
    BY <1>1, <2>1 DEF NoCollision
  <2>3. allocations[k].start \in Nat /\ allocations[i].start \in Nat
        /\ End(allocations[i]) > allocations[i].start /\ End(allocations[i]) \in Nat
    BY <2>1
  <2> QED
    BY <1>5, <2>1, <2>2, <2>3
<1>8. \A k \in Entry : k < i => End(allocations[k]) <= b.start
  BY DEF FitsAt
<1>9. ASSUME NEW j \in Entry', NEW k \in Entry', j < k
      PROVE  End(allocations'[j]) <= allocations'[k].start
  <2>1. CASE k < i
    <3>1. j \in Entry /\ k \in Entry
      BY <1>1, <1>4, <1>9, <2>1
    <3> QED
      BY <1>1, <1>4, <1>6, <1>9, <2>1, <3>1 DEF NoCollision
  <2>2. CASE k = i
    <3>1. j \in Entry /\ j < i
      BY <1>1, <1>4, <1>9, <2>2
    <3> QED
      BY <1>1, <1>4, <1>6, <1>8, <1>9, <2>2, <3>1
  <2>3. CASE k > i
    <3>1. k - 1 \in Entry /\ allocations'[k] = allocations[k - 1]
      BY <1>1, <1>4, <1>6, <2>3
    <3>2. CASE j < i
      <4>1. j \in Entry /\ j < k - 1 /\ allocations'[j] = allocations[j]
        BY <1>1, <1>4, <1>6, <2>3, <3>1, <3>2
      <4>2. End(allocations[j]) <= allocations[k - 1].start
        BY <3>1, <4>1 DEF NoCollision
      <4> QED
        BY <3>1, <4>1, <4>2
    <3>3. CASE j = i
      BY <1>1, <1>4, <1>6, <1>7, <2>3, <3>1, <3>3
    <3>4. CASE j > i
      <4>1. j - 1 \in Entry /\ allocations'[j] = allocations[j - 1]
        BY <1>1, <1>4, <1>6, <3>4
      <4>2. j - 1 < k - 1
        BY <1>4, <1>9
      <4>3. End(allocations[j - 1]) <= allocations[k - 1].start
        BY <3>1, <4>1, <4>2 DEF NoCollision
      <4> QED
        BY <3>1, <4>1, <4>3
    <3> QED
      BY <1>1, <1>4, <3>2, <3>3, <3>4
  <2> QED
    BY <1>1, <1>4, <2>1, <2>2, <2>3
<1>10. NoCollision'
  BY <1>9 DEF NoCollision, End
<1>11. Range(allocations') = Range(allocations) \cup {b}
  <2>1. DOMAIN allocations' = 1 .. n + 1 /\ DOMAIN allocations = Entry
    BY <1>2 DEF Entry, TypeOK
  <2>2. b \in Range(allocations')
    <3>1. i \in DOMAIN allocations' /\ allocations'[i] = b
      BY <1>1, <1>6, <2>1
    <3> QED
      BY <3>1, Zenon DEF Range
  <2>3. \A k \in Entry : allocations[k] \in Range(allocations')
    <3> SUFFICES ASSUME NEW k \in Entry PROVE allocations[k] \in Range(allocations')
      OBVIOUS
    <3>1. CASE k < i
      <4>1. k \in 1 .. n + 1 /\ allocations'[k] = allocations[k]
        BY <1>1, <1>6, <3>1
      <4> QED
        BY <2>1, <4>1 DEF Range
    <3>2. CASE k >= i
      <4>1. k + 1 \in 1 .. n + 1 /\ allocations'[k + 1] = allocations[k]
        BY <1>1, <1>6, <3>2
      <4> QED
        BY <2>1, <4>1 DEF Range
    <3> QED
      BY <1>1, <3>1, <3>2
  <2>4. \A j \in 1 .. n + 1 : allocations'[j] \in Range(allocations) \cup {b}
    <3> SUFFICES ASSUME NEW j \in 1 .. n + 1, j # i
                 PROVE  allocations'[j] \in Range(allocations)
      BY <1>6
    <3>1. CASE j < i
      <4>1. j \in Entry /\ allocations'[j] = allocations[j]
        BY <1>1, <1>6, <3>1
      <4> QED
        BY <2>1, <4>1 DEF Range
    <3>2. CASE j > i
      <4>1. j - 1 \in Entry /\ allocations'[j] = allocations[j - 1]
        BY <1>1, <1>6, <3>2
      <4> QED
        BY <2>1, <4>1 DEF Range
    <3> QED
      BY <1>1, <3>1, <3>2
  <2> QED
    BY <2>1, <2>2, <2>3, <2>4 DEF Range
<1>12. \A k \in Entry : Store!Apart(allocations[k], b)
  BY <1>1, <1>7, <1>8 DEF Store!Apart, Store!End, End
<1>13. \A a \in Range(allocations) : Store!Apart(a, b)
  BY <1>12 DEF Range, Entry, TypeOK
<1> QED
  BY <1>3, <1>10, <1>11, <1>13

-----------------------------------------------------------------------------
(* Removal.                                                                *)

(* The place of i in S, counted from its smallest member.                  *)
Rank(S, i) == Cardinality({j \in S : j <= i})

LEMMA RankFacts ==
    ASSUME NEW S \in SUBSET Nat, IsFiniteSet(S)
    PROVE  /\ \A i \in S : Rank(S, i) \in 1 .. Cardinality(S)
           /\ \A i, j \in S : i < j => Rank(S, i) < Rank(S, j)
<1>1. Cardinality(S) \in Nat
  BY FS_CardinalityType
<1>2. ASSUME NEW i \in S
      PROVE  /\ IsFiniteSet({j \in S : j <= i})
             /\ Rank(S, i) \in Nat /\ Rank(S, i) <= Cardinality(S)
             /\ Rank(S, i) # 0
  <2> DEFINE U == {j \in S : j <= i}
  <2>1. U \subseteq S /\ U # {}
    OBVIOUS
  <2> HIDE DEF U
  <2>2. IsFiniteSet(U) /\ Cardinality(U) \in Nat /\ Cardinality(U) <= Cardinality(S)
    BY <2>1, FS_Subset, FS_CardinalityType
  <2>3. Cardinality(U) # 0
    BY <2>1, <2>2, FS_EmptySet
  <2> QED
    BY <2>2, <2>3 DEF U, Rank
<1>3. ASSUME NEW i \in S, NEW j \in S, i < j
      PROVE  Rank(S, i) < Rank(S, j)
  <2> DEFINE U == {k \in S : k <= i}
             V == {k \in S : k <= j}
  <2>1. IsFiniteSet(V) /\ IsFiniteSet(U)
    BY <1>2
  <2>2. i \in Nat /\ j \in Nat /\ \A k \in S : k \in Nat
    OBVIOUS
  <2>3. U \subseteq V /\ j \in V /\ j \notin U
    <3>1. \A k \in S : k <= i => k <= j
      BY <1>3, <2>2
    <3>2. ~(j <= i) /\ j <= j
      BY <1>3, <2>2
    <3> QED
      BY <3>1, <3>2
  <2> HIDE DEF U, V
  <2>4. /\ Cardinality(U) \in Nat /\ Cardinality(V) \in Nat
        /\ Cardinality(U) <= Cardinality(V)
        /\ Cardinality(U) # Cardinality(V)
    <3>1. U # V
      BY <2>3
    <3> QED
      BY <2>1, <2>3, <3>1, FS_Subset, FS_CardinalityType
  <2>5. Cardinality(U) < Cardinality(V)
    BY <2>4
  <2> QED
    BY <2>5 DEF U, V, Rank
<1>4. ASSUME NEW i \in S PROVE Rank(S, i) \in 1 .. Cardinality(S)
  <2>1. Rank(S, i) \in Nat /\ Rank(S, i) <= Cardinality(S) /\ Rank(S, i) # 0
    BY <1>2, Zenon
  <2> QED
    BY <1>1, <2>1
<1> QED
  BY <1>3, <1>4

LEMMA RankReflects ==
    ASSUME NEW S \in SUBSET Nat, IsFiniteSet(S), NEW i \in S, NEW j \in S,
           Rank(S, j) <= Rank(S, i)
    PROVE  ~(i < j)
<1>1. Rank(S, i) \in Nat /\ Rank(S, j) \in Nat
  BY RankFacts, FS_CardinalityType
<1> QED
  BY <1>1, RankFacts

LEMMA UpTo ==
    ASSUME NEW m \in Nat
    PROVE  IsFiniteSet(1 .. m) /\ Cardinality(1 .. m) = m
  BY FS_Interval

LEMMA Injects ==
    ASSUME NEW S, NEW T, IsFiniteSet(T), NEW f \in [S -> T],
           \A a, b \in S : f[a] = f[b] => a = b
    PROVE  Cardinality(S) <= Cardinality(T)
<1>1. f \in Injection(S, T)
  BY DEF Injection, IsInjective
<1> QED
  BY <1>1, FS_Injection

(* A set whose members all rank below k has fewer than k members.          *)
LEMMA Fewer ==
    ASSUME NEW S \in SUBSET Nat, IsFiniteSet(S), NEW P \in SUBSET S,
           NEW k \in Nat \ {0}, \A i \in P : Rank(S, i) < k
    PROVE  Cardinality(P) <= k - 1
<1> DEFINE T == 1 .. k - 1
           f == [i \in P |-> Rank(S, i)]
<1>1. IsFiniteSet(T) /\ Cardinality(T) = k - 1
  BY FS_Interval
<1>2. f \in [P -> T]
  BY RankFacts, FS_CardinalityType
<1>3. ASSUME NEW a \in P, NEW b \in P, f[a] = f[b] PROVE a = b
  <2>1. a \in Nat /\ b \in Nat /\ a \in S /\ b \in S
    OBVIOUS
  <2>2. Rank(S, a) = Rank(S, b) /\ Rank(S, a) \in Nat
    BY <1>3, RankFacts, FS_CardinalityType
  <2>3. ~(a < b) /\ ~(b < a)
    BY <2>1, <2>2, RankFacts
  <2> QED
    BY <2>1, <2>3
<1> HIDE DEF f, T
<1>4. Cardinality(P) <= Cardinality(T)
  BY <1>1, <1>2, <1>3, Injects
<1> QED
  BY <1>1, <1>4

LEMMA NthOf ==
    ASSUME NEW S \in SUBSET Nat, IsFiniteSet(S), NEW k \in 1 .. Cardinality(S)
    PROVE  Nth(S, k) \in S /\ Rank(S, Nth(S, k)) = k
<1> DEFINE T == {i \in S : ~(Rank(S, i) < k)}
<1>1. Cardinality(S) \in Nat /\ k \in Nat \ {0}
  BY FS_CardinalityType
<1>2. T # {}
  <2> SUFFICES ASSUME T = {} PROVE FALSE
    OBVIOUS
  <2>1. \A i \in S : Rank(S, i) < k
    OBVIOUS
  <2>2. Cardinality(S) <= k - 1
    BY <1>1, <2>1, Fewer
  <2> QED
    BY <1>1, <2>2
<1>3. PICK m \in T : \A y \in T : m <= y
  <2>1. T \in SUBSET Nat
    OBVIOUS
  <2> HIDE DEF T
  <2> QED
    BY <1>2, <2>1, MinOf
<1> DEFINE P == {i \in S : i < m}
<1>4. m \in S /\ m \in Nat
  OBVIOUS
<1>5. Cardinality(P) <= k - 1
  <2>1. \A i \in P : Rank(S, i) < k
    BY <1>3, <1>4
  <2>2. P \in SUBSET S
    OBVIOUS
  <2> HIDE DEF P
  <2> QED
    BY <1>1, <2>1, <2>2, Fewer
<1>6. Rank(S, m) = Cardinality(P) + 1 /\ Cardinality(P) \in Nat
  <2>1. {j \in S : j <= m} = P \cup {m}
    <3>1. \A j \in S : j \in Nat /\ (j <= m <=> j < m \/ j = m)
      BY <1>4
    <3> QED
      BY <1>4, <3>1
  <2>2. P \subseteq S /\ m \notin P
    BY <1>4
  <2> HIDE DEF P
  <2>3. IsFiniteSet(P) /\ Cardinality(P) \in Nat
    BY <2>2, FS_Subset, FS_CardinalityType
  <2>4. Cardinality(P \cup {m}) = Cardinality(P) + 1
    BY <2>2, <2>3, FS_AddElement
  <2> QED
    BY <2>1, <2>3, <2>4 DEF Rank
<1>7. Rank(S, m) = k
  BY <1>1, <1>3, <1>5, <1>6
<1> HIDE DEF T, P
<1> QED
  BY <1>4, <1>7 DEF Nth, Rank

(* Keeping some entries in their order keeps the table in order.           *)
LEMMA Subsequence ==
    ASSUME Inv, NEW m \in Nat, NEW g \in [1 .. m -> Entry],
           \A j, k \in 1 .. m : j < k => g[j] < g[k],
           NEW K, K = {g[k] : k \in 1 .. m},
           allocations' = [k \in 1 .. m |-> allocations[g[k]]]
    PROVE  /\ allocations' \in Seq(FrameAllocation)
           /\ Len(allocations') <= n
           /\ NoCollision'
           /\ Range(allocations') = {allocations[i] : i \in K}
<1> USE EntryFacts DEF Inv
<1>1. allocations' \in [1 .. m -> FrameAllocation]
  OBVIOUS
<1>2. allocations' \in Seq(FrameAllocation) /\ Len(allocations') = m
  BY <1>1
<1>3. m <= n
  <2>1. /\ IsFiniteSet(1 .. n) /\ Cardinality(1 .. n) = n
        /\ Cardinality(1 .. m) = m
    BY UpTo
  <2>2. g \in [1 .. m -> 1 .. n]
    OBVIOUS
  <2>3. ASSUME NEW a \in 1 .. m, NEW b \in 1 .. m, g[a] = g[b] PROVE a = b
    <3>1. g[a] \in Int /\ a \in Int /\ b \in Int
      OBVIOUS
    <3>2. ~(a < b) /\ ~(b < a)
      BY <2>3, <3>1
    <3> QED
      BY <3>1, <3>2
  <2>4. Cardinality(1 .. m) <= Cardinality(1 .. n)
    BY <2>1, <2>2, <2>3, Injects
  <2> QED
    BY <2>1, <2>4
<1>4. Entry' = 1 .. m
  BY <1>2 DEF Entry
<1>5. ASSUME NEW j \in 1 .. m, NEW k \in 1 .. m, j < k
      PROVE  End(allocations'[j]) <= allocations'[k].start
  <2>1. g[j] \in Entry /\ g[k] \in Entry /\ g[j] < g[k]
    BY <1>5
  <2>2. allocations'[j] = allocations[g[j]] /\ allocations'[k] = allocations[g[k]]
    OBVIOUS
  <2> QED
    BY <2>1, <2>2 DEF NoCollision
<1>6. NoCollision'
  <2>1. \A j \in 1 .. m, k \in 1 .. m :
           j < k => End(allocations'[j]) <= allocations'[k].start
    BY <1>5
  <2> QED
    BY <1>4, <2>1 DEF NoCollision, End
<1>7. Range(allocations') = {allocations[i] : i \in K}
  <2>1. Range(allocations') = {allocations'[k] : k \in 1 .. m}
    BY <1>1 DEF Range
  <2> QED
    BY <2>1
<1> QED
  BY <1>2, <1>3, <1>6, <1>7

-----------------------------------------------------------------------------
(* The calls.                                                              *)

(* The address the search finds lies in usable memory and the block fits   *)
(* at some place of the table.                                             *)
LEMMA FirstFitFacts ==
    ASSUME Inv, NEW pid \in Pid, NEW pages \in 1 .. MaxPages, FirstFit(pages) # 0
    PROVE  /\ FirstFit(pages) \in Nat /\ FirstFit(pages) >= LOW
           /\ ValidRam(FirstFit(pages), pages)
           /\ \E i \in 1 .. n + 1 :
                 FitsAt([pid |-> pid, start |-> FirstFit(pages), count |-> pages], i)
<1> USE EntryFacts, PMMAssumption DEF Inv
<1> DEFINE b(s) == [pid |-> pid, start |-> s, count |-> pages]
           gaps == {i \in Entry : FitsBefore(i, pages)}
           tail == PrevEnd(n + 1)
<1>1. n \in Nat /\ n + 1 \in 1 .. n + 1 /\ pages \in Nat
  OBVIOUS
<1>2. CASE gaps # {}
  <2> DEFINE i == Min(gaps)
  <2>1. i \in gaps
    <3>1. gaps \in SUBSET Nat
      OBVIOUS
    <3> HIDE DEF gaps
    <3> QED
      BY <1>2, <3>1, MinOf
  <2>2. FirstFit(pages) = PrevEnd(i)
    BY <1>2 DEF FirstFit
  <2> HIDE DEF i
  <2>3. /\ i \in 1 .. n + 1 /\ i \in Entry
        /\ allocations[i].start >= PrevEnd(i) + pages
        /\ ValidRam(PrevEnd(i), pages)
    BY <1>1, <2>1 DEF FitsBefore
  <2>4. /\ PrevEnd(i) \in Nat /\ PrevEnd(i) >= LOW
        /\ \A k \in Entry : k < i => End(allocations[k]) <= PrevEnd(i)
    BY <2>3, PrevEndFacts
  <2>5. FitsAt(b(PrevEnd(i)), i)
    BY <2>3, <2>4 DEF FitsAt, End
  <2> QED
    BY <2>2, <2>3, <2>4, <2>5
<1>3. CASE gaps = {}
  <2>1. FirstFit(pages) = tail /\ ValidRam(tail, pages)
    BY <1>3 DEF FirstFit, n
  <2>2. /\ tail \in Nat /\ tail >= LOW
        /\ \A k \in Entry : k < n + 1 => End(allocations[k]) <= tail
    BY <1>1, PrevEndFacts
  <2>3. FitsAt(b(tail), n + 1)
    <3> HIDE DEF tail
    <3> QED
      BY <1>1, <2>2 DEF FitsAt
  <2> QED
    BY <1>1, <2>1, <2>2, <2>3
<1> QED
  BY <1>2, <1>3

LEMMA AllocateKeeps ==
    ASSUME Inv, NEW pid \in Pid, NEW pages \in 1 .. MaxPages, Allocate(pid, pages)
    PROVE  /\ Inv'
           /\ Store!Refuse \/ \E b \in Store!Places : Store!Grant(b)
<1> DEFINE s == FirstFit(pages)
           b == [pid |-> pid, start |-> s, count |-> pages]
<1>1. CASE s # 0 /\ Len(allocations) < MAX_ALLOCS
  <2>1. /\ s \in Nat /\ s >= LOW /\ ValidRam(s, pages)
        /\ \E i \in 1 .. n + 1 : FitsAt(b, i)
    BY <1>1, FirstFitFacts
  <2>2. PICK i \in 1 .. n + 1 : FitsAt(b, i)
    BY <2>1
  <2>3. allocations' = WithAllocation(b) /\ result' = s
    BY <1>1 DEF Allocate
  <2> HIDE DEF s
  <2>4. b \in FrameAllocation /\ pages \in Nat \ {0}
    BY <2>1, PMMAssumption DEF FrameAllocation
  <2>5. allocations' = With(b, i)
    BY <2>2, <2>3, <2>4, InsertedAt
  <2>6. /\ allocations' \in Seq(FrameAllocation)
        /\ Len(allocations') = n + 1
        /\ NoCollision'
        /\ Range(allocations') = Range(allocations) \cup {b}
        /\ \A a \in Range(allocations) : Store!Apart(a, b)
    BY <2>2, <2>4, <2>5, WithFacts
  <2>7. Len(allocations') <= MAX_ALLOCS
    BY <1>1, <2>6, PMMAssumption DEF n, Inv, TypeOK
  <2>8. Inv'
    BY <2>1, <2>3, <2>6, <2>7 DEF Inv, TypeOK
  <2>9. PICK r \in Ram : r.base <= s /\ s + pages <= r.end
    BY <2>1 DEF ValidRam
  <2>10. r.base \in Nat /\ r.end \in Nat
    BY PMMAssumption
  <2>11. s \in r.base .. r.end
    BY <2>1, <2>4, <2>9, <2>10
  <2>12. b \in Store!Places
    BY <2>11 DEF Store!Places
  <2>13. Store!Usable(b)
    BY <2>1, <2>9 DEF Store!Usable, Store!End
  <2>14. Store!Grant(b)
    BY <2>3, <2>6, <2>13 DEF Store!Grant
  <2> QED
    BY <2>8, <2>12, <2>14
<1>2. CASE ~(s # 0 /\ Len(allocations) < MAX_ALLOCS)
  <2>1. result' = 0 /\ allocations' = allocations
    BY <1>2 DEF Allocate
  <2>2. Inv'
    BY <2>1 DEF Inv, TypeOK, NoCollision, Entry, End
  <2>3. Store!Refuse
    BY <2>1 DEF Store!Refuse
  <2> QED
    BY <2>2, <2>3
<1> QED
  BY <1>1, <1>2

(* The starts of two entries differ.                                       *)
LEMMA StartsDiffer ==
    ASSUME Inv, NEW i \in Entry, NEW j \in Entry, i # j
    PROVE  allocations[i].start # allocations[j].start
<1>1. CASE i < j
  BY <1>1, EntryFacts DEF Inv, NoCollision
<1>2. CASE j < i
  BY <1>2, EntryFacts DEF Inv, NoCollision
<1> QED
  BY <1>1, <1>2, EntryFacts DEF Inv

LEMMA FreeFrameKeeps ==
    ASSUME Inv, NEW i \in 2 .. n, FreeFrame(allocations[i].start)
    PROVE  /\ Inv'
           /\ allocations[i] \in Range(allocations) \ {Store!KernelImage}
           /\ Store!Release(allocations[i].start)
<1> USE EntryFacts DEF Inv
<1> DEFINE found == {k \in Entry : allocations[k].start = allocations[i].start}
           m == n - 1
           g == [k \in 1 .. m |-> IF k < i THEN k ELSE k + 1]
           K == Entry \ {i}
<1>1. n \in Nat /\ i \in Entry /\ m \in Nat
  OBVIOUS
<1>2. found = {i}
  BY <1>1, StartsDiffer
<1>3. Max(found) = i
  <2>1. i \in Nat
    BY <1>1
  <2>2. \A y \in {i} : i >= y
    BY <2>1
  <2>3. Max({i}) \in {i}
    BY <2>2, MaxOf
  <2> QED
    BY <1>2, <2>3
<1>4. allocations' = WithoutEntry(i) /\ result' = result
  <2>1. found # {}
    BY <1>2
  <2> HIDE DEF found
  <2>2. allocations' = IF found = {} THEN allocations ELSE WithoutEntry(Max(found))
    BY DEF FreeFrame, found
  <2> QED
    BY <1>3, <2>1, <2>2 DEF FreeFrame
<1>5. /\ g \in [1 .. m -> Entry]
      /\ \A j, k \in 1 .. m : j < k => g[j] < g[k]
  BY <1>1
<1>6. K = {g[k] : k \in 1 .. m}
  <2>1. \A k \in 1 .. m : g[k] \in K
    BY <1>1
  <2>2. ASSUME NEW x \in K PROVE \E k \in 1 .. m : g[k] = x
    <3>1. CASE x < i
      <4>1. x \in 1 .. m /\ g[x] = x
        BY <1>1, <3>1
      <4> QED
        BY <4>1
    <3>2. CASE x > i
      <4>1. x - 1 \in 1 .. m /\ g[x - 1] = x
        BY <1>1, <3>2
      <4> QED
        BY <4>1
    <3> QED
      BY <1>1, <3>1, <3>2
  <2> QED
    BY <2>1, <2>2
<1>7. allocations' = [k \in 1 .. m |-> allocations[g[k]]]
  <2>1. WithoutEntry(i) = [k \in 1 .. m |-> IF k < i THEN allocations[k]
                                            ELSE allocations[k + 1]]
    BY DEF WithoutEntry, n
  <2>2. \A k \in 1 .. m : allocations[g[k]] = IF k < i THEN allocations[k]
                                              ELSE allocations[k + 1]
    OBVIOUS
  <2> QED
    BY <1>4, <2>1, <2>2
<1> HIDE DEF g, K, m
<1>8. /\ allocations' \in Seq(FrameAllocation) /\ Len(allocations') <= n
      /\ NoCollision'
      /\ Range(allocations') = {allocations[k] : k \in K}
  BY <1>1, <1>5, <1>6, <1>7, Subsequence
<1>9. Inv'
  <2>1. Len(allocations') \in Nat /\ Len(allocations') <= MAX_ALLOCS
    BY <1>1, <1>8, PMMAssumption DEF TypeOK, n
  <2> QED
    BY <1>4, <1>8, <2>1 DEF TypeOK
<1>10. Range(allocations) = {allocations[k] : k \in Entry}
  BY DEF Range, Entry, TypeOK
<1>11. Range(allocations')
         = {b \in Range(allocations) : b.start # allocations[i].start}
  <2>1. \A k \in Entry : k \in K <=> allocations[k].start # allocations[i].start
    BY <1>1, StartsDiffer DEF K
  <2>2. K \subseteq Entry
    BY DEF K
  <2> QED
    BY <1>8, <1>10, <2>1, <2>2
<1>12. allocations[i] # Store!KernelImage
  <2>1. 1 \in Entry /\ End(allocations[1]) <= allocations[i].start
    BY <1>1 DEF NoCollision
  <2>2. allocations[i].start # 0
    BY <1>1, <2>1
  <2> QED
    BY <2>2 DEF Store!KernelImage
<1> QED
  BY <1>1, <1>4, <1>9, <1>10, <1>11, <1>12 DEF Store!Release

LEMMA FreeFramesByPidKeeps ==
    ASSUME Inv, NEW pid \in Pid, FreeFramesByPid(pid)
    PROVE  Inv' /\ Store!ReleaseOwned(pid)
<1> USE EntryFacts DEF Inv
<1> DEFINE K == {i \in Entry : allocations[i].pid # pid}
           m == Cardinality(K)
           g == [k \in 1 .. m |-> Nth(K, k)]
<1>1. K \in SUBSET Nat /\ K \subseteq Entry /\ IsFiniteSet(K) /\ m \in Nat
  <2>1. IsFiniteSet(1 .. n)
    BY UpTo
  <2>2. K \subseteq 1 .. n
    OBVIOUS
  <2> QED
    BY <2>1, <2>2, FS_Subset, FS_CardinalityType
<1>2. allocations' = [k \in 1 .. m |-> allocations[Nth(K, k)]] /\ result' = result
  BY DEF FreeFramesByPid
<1>3. \A i \in Entry : i \in K <=> allocations[i].pid # pid
  OBVIOUS
<1> HIDE DEF K, m
<1>4. \A k \in 1 .. m : g[k] \in K /\ Rank(K, g[k]) = k
  BY <1>1, NthOf DEF m
<1>5. g \in [1 .. m -> Entry]
  BY <1>1, <1>4
<1>6. ASSUME NEW j \in 1 .. m, NEW k \in 1 .. m, j < k PROVE g[j] < g[k]
  <2>1. /\ g[j] \in K /\ Rank(K, g[j]) = j
        /\ g[k] \in K /\ Rank(K, g[k]) = k
    BY <1>4
  <2>2. ~(g[k] < g[j])
    <3>1. Rank(K, g[j]) <= Rank(K, g[k])
      BY <1>6, <2>1
    <3> HIDE DEF g
    <3> QED
      BY <1>1, <2>1, <3>1, RankReflects
  <2>3. g[k] # g[j]
    BY <1>6, <2>1
  <2>4. g[k] \in Nat /\ g[j] \in Nat
    BY <1>1, <2>1
  <2> HIDE DEF g
  <2> QED
    BY <2>2, <2>3, <2>4
<1>7. K = {g[k] : k \in 1 .. m}
  <2>1. ASSUME NEW x \in K PROVE \E k \in 1 .. m : g[k] = x
    <3> DEFINE k == Rank(K, x)
    <3>1. k \in 1 .. m
      BY <1>1, RankFacts DEF m
    <3>2. g[k] \in K /\ Rank(K, g[k]) = Rank(K, x)
      BY <1>4, <3>1
    <3>3. ~(g[k] < x) /\ ~(x < g[k])
      <4>1. Rank(K, x) \in Nat
        BY <1>1, <3>1
      <4> HIDE DEF k, g
      <4>2. Rank(K, x) <= Rank(K, g[k]) /\ Rank(K, g[k]) <= Rank(K, x)
        BY <3>2, <4>1
      <4> QED
        BY <1>1, <3>2, <4>2, RankReflects
    <3>4. x \in Nat /\ g[k] \in Nat
      BY <1>1, <3>2
    <3> HIDE DEF k, g
    <3> QED
      BY <3>1, <3>3, <3>4
  <2>2. \A k \in 1 .. m : g[k] \in K
    BY <1>4
  <2> HIDE DEF g
  <2> QED
    BY <2>1, <2>2
<1>8. allocations' = [k \in 1 .. m |-> allocations[g[k]]]
  BY <1>2
<1> HIDE DEF g
<1>9. /\ allocations' \in Seq(FrameAllocation) /\ Len(allocations') <= n
      /\ NoCollision'
      /\ Range(allocations') = {allocations[k] : k \in K}
  BY <1>1, <1>5, <1>6, <1>7, <1>8, Subsequence
<1>10. Inv'
  <2>1. Len(allocations') \in Nat /\ Len(allocations') <= MAX_ALLOCS
    BY <1>9, PMMAssumption DEF TypeOK, n
  <2> QED
    BY <1>2, <1>9, <2>1 DEF TypeOK
<1>11. Range(allocations) = {allocations[k] : k \in Entry}
  BY DEF Range, Entry, TypeOK
<1>12. Range(allocations') = {b \in Range(allocations) : b.pid # pid}
  BY <1>1, <1>3, <1>9, <1>11
<1> QED
  BY <1>2, <1>10, <1>12 DEF Store!ReleaseOwned

-----------------------------------------------------------------------------

LEMMA InitKeeps == Init => Inv /\ Store!Init
<1> SUFFICES ASSUME Init PROVE Inv /\ Store!Init
  OBVIOUS
<1> DEFINE image == [pid |-> 0, start |-> 0, count |-> LOW]
<1>1. allocations = <<image>> /\ result = 0
  BY DEF Init
<1>2. image \in FrameAllocation
  BY PMMAssumption DEF FrameAllocation
<1> HIDE DEF image
<1>3. /\ allocations \in Seq(FrameAllocation) /\ Len(allocations) = 1
      /\ allocations[1] = image /\ DOMAIN allocations = {1}
  BY <1>1, <1>2
<1>4. Inv
  BY <1>1, <1>3, PMMAssumption DEF Inv, TypeOK, NoCollision, Entry
<1>5. Range(allocations) = {image}
  BY <1>3 DEF Range
<1> QED
  BY <1>1, <1>4, <1>5 DEF Store!Init, Store!KernelImage, image

LEMMA StepKeeps == Inv /\ [Next]_mvars => Inv' /\ [Store!Next]_(Store!fvars)
<1> SUFFICES ASSUME Inv, [Next]_mvars PROVE Inv' /\ [Store!Next]_(Store!fvars)
  OBVIOUS
<1>1. CASE \E pid \in Pid, pages \in 1 .. MaxPages : Allocate(pid, pages)
  BY <1>1, AllocateKeeps DEF Store!Next
<1>2. CASE \E i \in 2 .. Len(allocations) : FreeFrame(allocations[i].start)
  BY <1>2, FreeFrameKeeps DEF Store!Next, n
<1>3. CASE \E pid \in Pid \ {0} : FreeFramesByPid(pid)
  BY <1>3, FreeFramesByPidKeeps DEF Store!Next
<1>4. CASE UNCHANGED mvars
  <2>1. allocations' = allocations /\ result' = result
    BY <1>4 DEF mvars
  <2> QED
    BY <2>1 DEF Inv, TypeOK, NoCollision, Entry, End, Store!fvars
<1> QED
  BY <1>1, <1>2, <1>3, <1>4 DEF Next

LEMMA Invariance == Spec => []Inv
<1> QED
  BY InitKeeps, StepKeeps, PTL DEF Spec

(* The table keeps its types and its size.                                 *)
THEOREM PMMTypes == Spec => []TypeOK
<1>1. Inv => TypeOK
  BY DEF Inv
<1> QED
  BY <1>1, Invariance, PTL

(* Allocations never overlap and stay sorted by address, whatever the      *)
(* order of requests, frees and deaths.                                    *)
THEOREM PMMNoCollision == Spec => []NoCollision
<1>1. Inv => NoCollision
  BY DEF Inv
<1> QED
  BY <1>1, Invariance, PTL

(* free_frame gives up the block it names and no other.                    *)
THEOREM PMMFreesTheNamed == Spec => FreesTheNamed
<1>1. ASSUME Inv, NEW i \in 2 .. Len(allocations), FreeFrame(allocations[i].start)
      PROVE  Range(allocations')
               = {b \in Range(allocations) : b.start # allocations[i].start}
  BY <1>1, FreeFrameKeeps DEF Store!Release, n
<1>2. Inv => \A i \in 2 .. Len(allocations) :
                FreeFrame(allocations[i].start) =>
                   Range(allocations') =
                      {b \in Range(allocations) : b.start # allocations[i].start}
  BY <1>1
<1> QED
  BY <1>2, Invariance, PTL DEF FreesTheNamed

(* First fit on the sorted table implements the abstract store: what is    *)
(* handed out was free usable memory, and what a process owned is given    *)
(* back entirely and nothing else is.                                      *)
THEOREM PMMImplementsStore == Spec => ImplementsStore
<1> QED
  BY InitKeeps, StepKeeps, Invariance, PTL DEF Spec, ImplementsStore, Store!Spec
=============================================================================
