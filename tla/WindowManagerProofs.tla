------------------------ MODULE WindowManagerProofs ------------------------
(***************************************************************************)
(* For any number of slots, processes and windows: the window list stays   *)
(* in stacking order, what the mouse handler remembers stays right, and    *)
(* windows outlive their process only where the killed process opens them. *)
(* For any size of the event ring, windows and events: the ring implements *)
(* the abstract log.                                                       *)
(***************************************************************************)
EXTENDS Desktop, EventQueue, FiniteSetTheorems, SequenceTheorems, WellFoundedInduction, TLAPS

-----------------------------------------------------------------------------
(* The stable sort.                                                        *)

Before(ws, i, j) == ws[i].z < ws[j].z \/ (ws[i].z = ws[j].z /\ i <= j)

AtOrBefore(ws, s) == {i \in Slot : Before(ws, i, s)}

Rank(ws) == [s \in Slot |-> Cardinality(AtOrBefore(ws, s))]

LEMMA SlotFacts == SLOTS \in Nat /\ IsFiniteSet(Slot) /\ Cardinality(Slot) = SLOTS
<1>1. SLOTS \in Nat /\ SLOTS >= 1
  BY ComposerAssumption
<1> QED
  BY <1>1, FS_Interval DEF Slot

LEMMA BeforeOrders ==
    ASSUME NEW ws \in [Slot -> WindowRecord], NEW i \in Slot, NEW j \in Slot, NEW k \in Slot
    PROVE  /\ Before(ws, i, i)
           /\ Before(ws, i, j) \/ Before(ws, j, i)
           /\ Before(ws, i, j) /\ Before(ws, j, i) => i = j
           /\ Before(ws, i, j) /\ Before(ws, j, k) => Before(ws, i, k)
<1>1. ws[i].z \in Nat /\ ws[j].z \in Nat /\ ws[k].z \in Nat
  BY DEF WindowRecord
<1>2. i \in Nat /\ j \in Nat /\ k \in Nat
  BY SlotFacts DEF Slot
<1> QED
  BY <1>1, <1>2 DEF Before

(* Whoever comes later has a higher rank. *)
LEMMA RankGrows ==
    ASSUME NEW ws \in [Slot -> WindowRecord], NEW i \in Slot, NEW j \in Slot,
           Before(ws, i, j), i # j
    PROVE  /\ Rank(ws)[i] \in Nat /\ Rank(ws)[j] \in Nat
           /\ Rank(ws)[i] < Rank(ws)[j]
<1> DEFINE A == AtOrBefore(ws, i)
           B == AtOrBefore(ws, j)
<1>1. B \subseteq Slot
  BY DEF AtOrBefore
<1>2. A \subseteq B
  BY BeforeOrders DEF AtOrBefore
<1>3. j \in B /\ j \notin A
  BY BeforeOrders DEF AtOrBefore
<1>4. Rank(ws)[i] = Cardinality(A) /\ Rank(ws)[j] = Cardinality(B)
  BY DEF Rank
<1> HIDE DEF A, B
<1>5. IsFiniteSet(B) /\ Cardinality(B) \in Nat
  BY <1>1, SlotFacts, FS_Subset, FS_CardinalityType
<1>6. /\ IsFiniteSet(A) /\ Cardinality(A) \in Nat
      /\ Cardinality(A) <= Cardinality(B) /\ Cardinality(A) # Cardinality(B)
  BY <1>2, <1>3, <1>5, FS_Subset, FS_CardinalityType
<1> QED
  BY <1>4, <1>5, <1>6

(* Every slot of the sorted array is the rank of exactly one window.       *)
LEMMA RankOnto ==
    ASSUME NEW ws \in [Slot -> WindowRecord]
    PROVE  /\ Rank(ws) \in [Slot -> Slot]
           /\ \A i, j \in Slot : Rank(ws)[i] = Rank(ws)[j] => i = j
           /\ \A k \in Slot : \E s \in Slot : Rank(ws)[s] = k
<1>1. ASSUME NEW s \in Slot PROVE Rank(ws)[s] \in Slot
  <2> DEFINE A == AtOrBefore(ws, s)
  <2>1. A \subseteq Slot /\ s \in A
    BY BeforeOrders DEF AtOrBefore
  <2>2. Rank(ws)[s] = Cardinality(A)
    BY DEF Rank
  <2> HIDE DEF A
  <2>3. IsFiniteSet(A) /\ Cardinality(A) \in Nat /\ Cardinality(A) <= SLOTS
    BY <2>1, SlotFacts, FS_Subset, FS_CardinalityType
  <2>4. Cardinality(A) # 0
    BY <2>1, <2>3, FS_EmptySet
  <2> QED
    BY <2>2, <2>3, <2>4, SlotFacts DEF Slot
<1>2. Rank(ws) \in [Slot -> Slot]
  BY <1>1 DEF Rank
<1>3. ASSUME NEW i \in Slot, NEW j \in Slot, Rank(ws)[i] = Rank(ws)[j] PROVE i = j
  <2>1. Before(ws, i, j) \/ Before(ws, j, i)
    BY BeforeOrders
  <2>2. CASE Before(ws, i, j) /\ i # j
    BY <1>3, <2>2, RankGrows
  <2>3. CASE Before(ws, j, i) /\ i # j
    BY <1>3, <2>3, RankGrows
  <2> QED
    BY <2>1, <2>2, <2>3
<1> DEFINE f == Rank(ws)
<1> HIDE DEF f
<1>4. f \in Injection(Slot, Slot)
  BY <1>2, <1>3 DEF f, Injection, IsInjective
<1>5. f \in Surjection(Slot, Slot)
  BY <1>4, SlotFacts, FS_Injection
<1>6. \A k \in Slot : \E s \in Slot : f[s] = k
  BY <1>5 DEF Surjection
<1> QED
  BY <1>2, <1>3, <1>6 DEF f

(* The slot whose window the sort puts in slot k. *)
Source(ws, k) == CHOOSE s \in Slot : Rank(ws)[s] = k

(* The sort is a permutation that puts the windows in order. *)
LEMMA SortPermutes ==
    ASSUME NEW ws \in [Slot -> WindowRecord]
    PROVE  /\ SortedByZ(ws) = [k \in Slot |-> ws[Source(ws, k)]]
           /\ \A k \in Slot : Source(ws, k) \in Slot
           /\ \A i, j \in Slot : Source(ws, i) = Source(ws, j) => i = j
           /\ \A i, j \in Slot : i < j => SortedByZ(ws)[i].z <= SortedByZ(ws)[j].z
<1>1. SortedByZ(ws) = [k \in Slot |-> ws[Source(ws, k)]]
  BY DEF SortedByZ, Source, Rank, AtOrBefore, Before
<1>2. \A k \in Slot : Source(ws, k) \in Slot /\ Rank(ws)[Source(ws, k)] = k
  BY RankOnto DEF Source
<1>3. ASSUME NEW i \in Slot, NEW j \in Slot, i < j
      PROVE  SortedByZ(ws)[i].z <= SortedByZ(ws)[j].z
  <2> DEFINE a == Source(ws, i)
             b == Source(ws, j)
  <2>1. a \in Slot /\ b \in Slot /\ Rank(ws)[a] = i /\ Rank(ws)[b] = j
    BY <1>2
  <2> HIDE DEF a, b
  <2>2. ~(Before(ws, b, a) /\ a # b)
    BY <1>3, <2>1, RankGrows, SlotFacts DEF Slot
  <2>3. a # b
    BY <1>3, <2>1, SlotFacts DEF Slot
  <2>4. Before(ws, a, b)
    BY <2>1, <2>2, <2>3, BeforeOrders
  <2>5. ws[a].z <= ws[b].z
    BY <2>1, <2>4 DEF Before, WindowRecord
  <2> QED
    BY <1>1, <2>5 DEF a, b
<1> QED
  BY <1>1, <1>2, <1>3

-----------------------------------------------------------------------------
(* The inductive invariant of the window list.  The order of the windows   *)
(* follows from what each may have for a z: a bar 0, every other window at *)
(* least 1, and no two windows the same.  An identifier, also one left in  *)
(* an emptied slot, is in one slot only.                                   *)

Sound(ws, n) ==
    /\ ws \in [Slot -> WindowRecord]
    /\ \A s \in Slot :
          /\ ws[s].id < n
          /\ ws[s].id = 0 => ws[s].w_type = "Null"
          /\ ws[s].id # 0 => ws[s].pid \in Pid
          /\ ws[s].w_type = "Bar" => ws[s].z = 0
          /\ ws[s].w_type \in {"Window", "Wallpaper"} => ws[s].z >= 1
    /\ \A s, t \in Slot : s # t =>
          /\ ws[s].id = ws[t].id => ws[s].id = 0
          /\ ws[s].w_type = "Window" /\ ws[t].w_type = "Window" => ws[s].z # ws[t].z

CInv == /\ TypeOK
        /\ Sound(windows, next_id)
        /\ clicked < next_id
        /\ \A i, j \in Slot : i < j => windows[i].z <= windows[j].z

(* A window keeps its identity, its owner and, while it lives, its type.   *)
Kept(w, v) == w.id = v.id /\ w.pid = v.pid /\ w.w_type \in {v.w_type, "Null"}

LEMMA SortKeepsSound ==
    ASSUME NEW ws, NEW n, Sound(ws, n)
    PROVE  /\ Sound(SortedByZ(ws), n)
           /\ \A i, j \in Slot : i < j => SortedByZ(ws)[i].z <= SortedByZ(ws)[j].z
           /\ \A k \in Slot : \E s \in Slot : SortedByZ(ws)[k] = ws[s]
<1>1. ws \in [Slot -> WindowRecord]
  BY DEF Sound
<1>2. /\ SortedByZ(ws) = [k \in Slot |-> ws[Source(ws, k)]]
      /\ \A k \in Slot : Source(ws, k) \in Slot
      /\ \A i, j \in Slot : Source(ws, i) = Source(ws, j) => i = j
      /\ \A i, j \in Slot : i < j => SortedByZ(ws)[i].z <= SortedByZ(ws)[j].z
  BY <1>1, SortPermutes
<1> DEFINE r == SortedByZ(ws)
<1>3. \A k \in Slot : r[k] = ws[Source(ws, k)]
  BY <1>2
<1>4. r \in [Slot -> WindowRecord]
  BY <1>1, <1>2
<1> HIDE DEF r
<1>5. ASSUME NEW s \in Slot
      PROVE  /\ r[s].id < n
             /\ r[s].id = 0 => r[s].w_type = "Null"
             /\ r[s].id # 0 => r[s].pid \in Pid
             /\ r[s].w_type = "Bar" => r[s].z = 0
             /\ r[s].w_type \in {"Window", "Wallpaper"} => r[s].z >= 1
  BY <1>2, <1>3 DEF Sound
<1>6. ASSUME NEW s \in Slot, NEW t \in Slot, s # t
      PROVE  /\ r[s].id = r[t].id => r[s].id = 0
             /\ r[s].w_type = "Window" /\ r[t].w_type = "Window" => r[s].z # r[t].z
  <2>1. Source(ws, s) \in Slot /\ Source(ws, t) \in Slot /\ Source(ws, s) # Source(ws, t)
    BY <1>2, <1>6
  <2> QED
    BY <1>3, <2>1 DEF Sound
<1>7. Sound(r, n)
  BY <1>4, <1>5, <1>6 DEF Sound
<1> QED
  BY <1>2, <1>3, <1>7 DEF r

-----------------------------------------------------------------------------
(* The operations of the window list.                                      *)

LEMMA MadeRoomFacts ==
    ASSUME NEW w \in WindowRecord, NEW w_type \in Items
    PROVE  LET m == MadeRoom(w, w_type)
           IN  /\ m \in WindowRecord
               /\ m.id = w.id /\ m.pid = w.pid /\ m.w_type = w.w_type
               /\ w.w_type = "Bar" => m.z = 0
               /\ w.w_type \in {"Window", "Wallpaper"} =>
                     m.z = IF w_type # "Bar" THEN w.z + 1
                           ELSE IF w.z = 0 THEN 1 ELSE w.z
<1>1. w.z \in Nat /\ w.w_type \in {"Null", "Bar", "Window", "Wallpaper"}
  BY DEF WindowRecord, Items
<1>2. CASE w.w_type = "Null"
  BY <1>1, <1>2 DEF MadeRoom
<1>3. CASE w.w_type = "Bar"
  BY <1>1, <1>3 DEF MadeRoom, WindowRecord
<1>4. CASE w.w_type \in {"Window", "Wallpaper"}
  BY <1>1, <1>4 DEF MadeRoom, WindowRecord
<1> QED
  BY <1>1, <1>2, <1>3, <1>4

(* A new window comes before those of its kind, which have stepped back.   *)
LEMMA AddKeeps ==
    ASSUME CInv, NEW pid \in Pid, NEW w_type \in Items, AddWindow(pid, w_type)
    PROVE  /\ CInv'
           /\ \A k \in Slot :
                 \/ \E s \in Slot : Kept(windows'[k], windows[s])
                 \/ windows'[k].id = next_id /\ windows'[k].pid = pid
           /\ next_id' = next_id + 1 /\ clicked' = clicked
<1> USE ComposerAssumption
<1> DEFINE w   == [id |-> next_id, pid |-> pid, z |-> FirstZ(w_type), w_type |-> w_type]
           pre == [s \in Slot |-> IF FirstEmpty(s) THEN w ELSE MadeRoom(windows[s], w_type)]
           n   == next_id + 1
<1>1. /\ windows' = SortedByZ(pre) /\ next_id' = n /\ clicked' = clicked
      /\ next_id <= MaxId
  BY DEF AddWindow, Arrived
<1>2. /\ windows \in [Slot -> WindowRecord] /\ next_id \in 1 .. MaxId + 1
      /\ clicked \in 0 .. MaxId /\ clicked < next_id /\ Sound(windows, next_id)
  BY DEF CInv, TypeOK
<1>3. /\ w \in WindowRecord
      /\ w.id = next_id /\ w.pid = pid /\ w.w_type = w_type
      /\ w_type = "Bar" => w.z = 0
      /\ w_type = "Window" => w.z = 1
      /\ w_type = "Wallpaper" => w.z = REAR_Z
  BY <1>2 DEF WindowRecord, Items, FirstZ
<1>4. ASSUME NEW s \in Slot
      PROVE  /\ pre[s] = IF FirstEmpty(s) THEN w ELSE MadeRoom(windows[s], w_type)
             /\ windows[s] \in WindowRecord
             /\ windows[s].z \in Nat /\ windows[s].id \in Nat
             /\ windows[s].w_type \in {"Null", "Bar", "Window", "Wallpaper"}
  BY <1>2 DEF WindowRecord, Items
<1>5. ASSUME NEW s \in Slot, NEW t \in Slot, FirstEmpty(s), FirstEmpty(t) PROVE s = t
  <2>1. s \in Nat /\ t \in Nat /\ s >= 1 /\ t >= 1
    BY SlotFacts DEF Slot
  <2>2. ~(s \in 1 .. t - 1) /\ ~(t \in 1 .. s - 1)
    BY <1>5 DEF FirstEmpty
  <2> QED
    BY <2>1, <2>2
<1> HIDE DEF w, pre, n
<1>6. ASSUME NEW s \in Slot, ~FirstEmpty(s)
      PROVE  /\ pre[s] \in WindowRecord
             /\ pre[s].id = windows[s].id /\ pre[s].pid = windows[s].pid
             /\ pre[s].w_type = windows[s].w_type
             /\ windows[s].w_type = "Bar" => pre[s].z = 0
             /\ windows[s].w_type \in {"Window", "Wallpaper"} =>
                   pre[s].z = IF w_type # "Bar" THEN windows[s].z + 1
                              ELSE IF windows[s].z = 0 THEN 1 ELSE windows[s].z
  BY <1>4, <1>6, MadeRoomFacts
<1>7. Sound(pre, n)
  <2>1. pre \in [Slot -> WindowRecord]
    <3>1. \A s \in Slot : pre[s] \in WindowRecord
      BY <1>3, <1>4, <1>6
    <3> QED
      BY <3>1 DEF pre
  <2>2. ASSUME NEW s \in Slot
        PROVE  /\ pre[s].id < n
               /\ pre[s].id = 0 => pre[s].w_type = "Null"
               /\ pre[s].id # 0 => pre[s].pid \in Pid
               /\ pre[s].w_type = "Bar" => pre[s].z = 0
               /\ pre[s].w_type \in {"Window", "Wallpaper"} => pre[s].z >= 1
    <3>1. CASE FirstEmpty(s)
      BY <1>2, <1>3, <1>4, <3>1 DEF n
    <3>2. CASE ~FirstEmpty(s)
      BY <1>2, <1>4, <1>6, <3>2 DEF n, Sound
    <3> QED
      BY <3>1, <3>2
  <2>3. ASSUME NEW s \in Slot, NEW t \in Slot, s # t
        PROVE  /\ pre[s].id = pre[t].id => pre[s].id = 0
               /\ pre[s].w_type = "Window" /\ pre[t].w_type = "Window"
                     => pre[s].z # pre[t].z
    <3>1. CASE ~FirstEmpty(s) /\ ~FirstEmpty(t)
      <4>1. pre[s].id = pre[t].id => pre[s].id = 0
        BY <1>2, <1>6, <2>3, <3>1 DEF Sound
      <4>2. ASSUME windows[s].w_type = "Window", windows[t].w_type = "Window"
            PROVE  pre[s].z # pre[t].z
        <5>1. windows[s].z # windows[t].z /\ windows[s].z >= 1 /\ windows[t].z >= 1
          BY <1>2, <2>3, <4>2 DEF Sound
        <5>2. windows[s].z \in Nat /\ windows[t].z \in Nat
          BY <1>4
        <5>3. /\ pre[s].z = IF w_type # "Bar" THEN windows[s].z + 1 ELSE windows[s].z
              /\ pre[t].z = IF w_type # "Bar" THEN windows[t].z + 1 ELSE windows[t].z
          BY <1>6, <3>1, <4>2, <5>1, <5>2
        <5> QED
          BY <5>1, <5>2, <5>3
      <4> QED
        BY <1>6, <3>1, <4>1, <4>2
    <3>2. ASSUME NEW a \in Slot, NEW b \in Slot, FirstEmpty(a), ~FirstEmpty(b)
          PROVE  /\ pre[a].id # pre[b].id
                 /\ pre[a].w_type = "Window" /\ pre[b].w_type = "Window"
                       => pre[a].z # pre[b].z
      <4>1. pre[a] = w
        BY <1>4, <3>2
      <4>2. pre[b].id < next_id
        BY <1>2, <1>6, <3>2 DEF Sound
      <4>3. w_type = "Window" /\ windows[b].w_type = "Window" => pre[b].z >= 2
        BY <1>2, <1>4, <1>6, <3>2 DEF Sound
      <4> QED
        BY <1>2, <1>3, <1>6, <3>2, <4>1, <4>2, <4>3
    <3> QED
      BY <1>5, <2>3, <3>1, <3>2
  <2> QED
    BY <2>1, <2>2, <2>3 DEF Sound
<1>8. /\ Sound(windows', next_id')
      /\ \A i, j \in Slot : i < j => windows'[i].z <= windows'[j].z
      /\ \A k \in Slot : \E s \in Slot : windows'[k] = pre[s]
  BY <1>1, <1>7, SortKeepsSound
<1>9. CInv'
  <2>1. TypeOK'
    BY <1>1, <1>2, <1>8 DEF TypeOK, Sound, n
  <2>2. clicked' < next_id'
    BY <1>1, <1>2 DEF n
  <2> QED
    BY <1>8, <2>1, <2>2 DEF CInv
<1>10. ASSUME NEW k \in Slot
       PROVE  \/ \E s \in Slot : Kept(windows'[k], windows[s])
              \/ windows'[k].id = next_id /\ windows'[k].pid = pid
  <2>1. PICK s \in Slot : windows'[k] = pre[s]
    BY <1>8
  <2>2. CASE FirstEmpty(s)
    BY <1>3, <1>4, <2>1, <2>2
  <2>3. CASE ~FirstEmpty(s)
    BY <1>6, <2>1, <2>3 DEF Kept
  <2> QED
    BY <2>2, <2>3
<1> QED
  BY <1>1, <1>9, <1>10 DEF n

(* A window that is focused is the only one that comes to the front.       *)
LEMMA FocusKeeps ==
    ASSUME CInv, NEW id \in Nat \ {0}
    PROVE  /\ Sound(Focused(id), next_id)
           /\ \A i, j \in Slot : i < j => Focused(id)[i].z <= Focused(id)[j].z
           /\ \A k \in Slot : \E s \in Slot : Kept(Focused(id)[k], windows[s])
<1> DEFINE here == {s \in Live(windows) : windows[s].id = id /\ windows[s].w_type = "Window"}
           pre  == [s \in Slot |->
                      IF s \in here THEN [windows[s] EXCEPT !.z = 1]
                      ELSE IF windows[s].w_type = "Window"
                           THEN [windows[s] EXCEPT !.z = @ + 1]
                           ELSE windows[s]]
<1>1. Focused(id) = IF here = {} THEN windows ELSE SortedByZ(pre)
  BY Zenon DEF Focused
<1>2. windows \in [Slot -> WindowRecord] /\ Sound(windows, next_id)
  BY DEF CInv, TypeOK
<1>3. \A s \in here : s \in Slot /\ windows[s].id = id /\ windows[s].w_type = "Window"
  BY DEF Live
<1>4. CASE here = {}
  BY <1>1, <1>4 DEF CInv, Kept
<1>5. CASE here # {}
  <2>1. ASSUME NEW s \in Slot
        PROVE  /\ pre[s] \in WindowRecord /\ windows[s].z \in Nat /\ pre[s].z \in Nat
               /\ pre[s].id = windows[s].id /\ pre[s].pid = windows[s].pid
               /\ pre[s].w_type = windows[s].w_type
               /\ windows[s].w_type = "Window" =>
                     pre[s].z = IF s \in here THEN 1 ELSE windows[s].z + 1
               /\ windows[s].w_type # "Window" => pre[s].z = windows[s].z
    <3>1. windows[s] \in WindowRecord /\ windows[s].z \in Nat
      BY <1>2 DEF WindowRecord
    <3>2. CASE s \in here
      <4>1. pre[s] = [windows[s] EXCEPT !.z = 1]
        BY <3>2
      <4> HIDE DEF pre, here
      <4> QED
        BY <1>3, <3>1, <3>2, <4>1 DEF WindowRecord
    <3>3. CASE s \notin here /\ windows[s].w_type = "Window"
      <4>1. pre[s] = [windows[s] EXCEPT !.z = @ + 1]
        BY <3>3
      <4> HIDE DEF pre, here
      <4> QED
        BY <3>1, <3>3, <4>1 DEF WindowRecord
    <3>4. CASE windows[s].w_type # "Window"
      <4>1. pre[s] = windows[s]
        BY <1>3, <3>4
      <4> HIDE DEF pre, here
      <4> QED
        BY <3>1, <3>4, <4>1 DEF WindowRecord
    <3> QED
      BY <3>2, <3>3, <3>4
  <2>2. pre \in [Slot -> WindowRecord]
    BY <2>1
  <2> HIDE DEF pre, here
  <2>3. ASSUME NEW s \in Slot
        PROVE  /\ pre[s].id < next_id
               /\ pre[s].id = 0 => pre[s].w_type = "Null"
               /\ pre[s].id # 0 => pre[s].pid \in Pid
               /\ pre[s].w_type = "Bar" => pre[s].z = 0
               /\ pre[s].w_type \in {"Window", "Wallpaper"} => pre[s].z >= 1
    BY <1>2, <2>1 DEF Sound
  <2>4. ASSUME NEW s \in Slot, NEW t \in Slot, s # t
        PROVE  /\ pre[s].id = pre[t].id => pre[s].id = 0
               /\ pre[s].w_type = "Window" /\ pre[t].w_type = "Window"
                     => pre[s].z # pre[t].z
    <3>1. pre[s].id = pre[t].id => pre[s].id = 0
      BY <1>2, <2>1, <2>4 DEF Sound
    <3>2. ASSUME windows[s].w_type = "Window", windows[t].w_type = "Window"
          PROVE  pre[s].z # pre[t].z
      <4>1. /\ windows[s].z # windows[t].z /\ windows[s].z >= 1 /\ windows[t].z >= 1
            /\ windows[s].id = windows[t].id => windows[s].id = 0
        BY <1>2, <2>4, <3>2 DEF Sound
      <4>2. ~(s \in here /\ t \in here)
        BY <1>3, <4>1
      <4> QED
        BY <2>1, <3>2, <4>1, <4>2
    <3> QED
      BY <2>1, <3>1, <3>2
  <2>5. Sound(pre, next_id)
    BY <2>2, <2>3, <2>4 DEF Sound
  <2>6. Focused(id) = SortedByZ(pre)
    BY <1>1, <1>5
  <2>7. \A k \in Slot : \E s \in Slot : Focused(id)[k] = pre[s]
    <3>1. \A k \in Slot : \E s \in Slot : SortedByZ(pre)[k] = pre[s]
      BY ONLY <2>5, SortKeepsSound
    <3> QED
      BY ONLY <2>6, <3>1
  <2>8. \A s \in Slot : Kept(pre[s], windows[s])
    BY <2>1 DEF Kept
  <2> QED
    BY <2>5, <2>6, <2>7, <2>8, SortKeepsSound
<1> QED
  BY <1>4, <1>5

LEMMA ClickKeeps ==
    ASSUME CInv, NEW s \in Slot, Click(s)
    PROVE  /\ CInv'
           /\ \A k \in Slot : \E t \in Slot : Kept(windows'[k], windows[t])
           /\ next_id' = next_id /\ clicked' = windows[s].id
           /\ windows[s].w_type # "Window" => windows' = windows
<1>1. /\ windows[s].w_type # "Null" /\ clicked' = windows[s].id /\ next_id' = next_id
      /\ windows' = IF windows[s].id # clicked THEN Focused(windows[s].id) ELSE windows
  BY DEF Click, Exposed
<1>2. /\ windows \in [Slot -> WindowRecord] /\ Sound(windows, next_id)
      /\ next_id \in 1 .. MaxId + 1
  BY DEF CInv, TypeOK
<1>3. windows[s].id \in Nat \ {0} /\ windows[s].id < next_id
  BY <1>1, <1>2 DEF Sound, WindowRecord
<1>4. /\ Sound(windows', next_id)
      /\ \A i, j \in Slot : i < j => windows'[i].z <= windows'[j].z
      /\ \A k \in Slot : \E t \in Slot : Kept(windows'[k], windows[t])
  <2>1. CASE windows[s].id # clicked
    BY <1>1, <1>3, <2>1, FocusKeeps
  <2>2. CASE windows[s].id = clicked
    BY <1>1, <2>2 DEF CInv, Kept
  <2> QED
    BY <2>1, <2>2
<1>5. CInv'
  <2>1. clicked' \in 0 .. MaxId
    BY <1>1, <1>2, <1>3, ComposerAssumption
  <2> QED
    BY <1>1, <1>2, <1>3, <1>4, <2>1 DEF CInv, TypeOK, Sound
<1>6. ASSUME windows[s].w_type # "Window" PROVE Focused(windows[s].id) = windows
  <2> DEFINE here == {t \in Live(windows) : /\ windows[t].id = windows[s].id
                                            /\ windows[t].w_type = "Window"}
  <2>1. here = {}
    <3> SUFFICES ASSUME NEW t \in here PROVE FALSE
      OBVIOUS
    <3>1. /\ t \in Slot /\ windows[t].id = windows[s].id
          /\ windows[t].w_type = "Window" /\ t # s
      BY <1>6 DEF Live
    <3> QED
      BY <1>2, <1>3, <3>1 DEF Sound
  <2> QED
    BY <2>1, Zenon DEF Focused
<1> QED
  BY <1>1, <1>4, <1>5, <1>6

LEMMA RemoveKeeps ==
    ASSUME CInv, NEW p \in Pid, OwnerDies(p)
    PROVE  /\ CInv'
           /\ \A k \in Slot : \E s \in Slot : Kept(windows'[k], windows[s])
           /\ \A k \in Slot : windows'[k].w_type # "Null" => windows'[k].pid # p
           /\ next_id' = next_id /\ clicked' = clicked
<1> DEFINE gone == {s \in Live(windows) : windows[s].pid = p}
           pre  == [s \in Slot |->
                      IF s \in gone THEN [windows[s] EXCEPT !.w_type = "Null", !.z = REAR_Z]
                      ELSE windows[s]]
<1>1. /\ windows' = IF gone = {} THEN windows ELSE SortedByZ(pre)
      /\ next_id' = next_id /\ clicked' = clicked
  BY Zenon DEF OwnerDies, RemovedByPid
<1>2. windows \in [Slot -> WindowRecord] /\ Sound(windows, next_id)
  BY DEF CInv, TypeOK
<1>3. \A s \in Slot : s \in gone <=> windows[s].w_type # "Null" /\ windows[s].pid = p
  BY DEF Live
<1>4. CASE gone = {}
  <2> HIDE DEF gone
  <2>1. windows' = windows
    BY <1>1, <1>4
  <2>2. CInv'
    BY <1>1, <2>1 DEF CInv, TypeOK
  <2> QED
    BY <1>1, <1>3, <1>4, <2>1, <2>2 DEF Kept
<1>5. CASE gone # {}
  <2>1. ASSUME NEW s \in Slot
        PROVE  /\ pre[s] \in WindowRecord
               /\ pre[s].id = windows[s].id /\ pre[s].pid = windows[s].pid
               /\ s \in gone => pre[s].w_type = "Null"
               /\ s \notin gone => pre[s] = windows[s]
    <3>1. windows[s] \in WindowRecord
      BY <1>2
    <3>2. CASE s \in gone
      <4>1. pre[s] = [windows[s] EXCEPT !.w_type = "Null", !.z = REAR_Z]
        BY <3>2
      <4> HIDE DEF pre, gone
      <4> QED
        BY <3>1, <3>2, <4>1, ComposerAssumption DEF WindowRecord, Items
    <3>3. CASE s \notin gone
      BY <3>1, <3>3
    <3> QED
      BY <3>2, <3>3
  <2>2. pre \in [Slot -> WindowRecord]
    BY <2>1
  <2> HIDE DEF pre, gone
  <2>3. ASSUME NEW s \in Slot
        PROVE  /\ pre[s].id < next_id
               /\ pre[s].id = 0 => pre[s].w_type = "Null"
               /\ pre[s].id # 0 => pre[s].pid \in Pid
               /\ pre[s].w_type = "Bar" => pre[s].z = 0
               /\ pre[s].w_type \in {"Window", "Wallpaper"} => pre[s].z >= 1
    BY <1>2, <2>1 DEF Sound
  <2>4. ASSUME NEW s \in Slot, NEW t \in Slot, s # t
        PROVE  /\ pre[s].id = pre[t].id => pre[s].id = 0
               /\ pre[s].w_type = "Window" /\ pre[t].w_type = "Window"
                     => pre[s].z # pre[t].z
    BY <1>2, <2>1, <2>4 DEF Sound
  <2>5. Sound(pre, next_id)
    BY <2>2, <2>3, <2>4 DEF Sound
  <2>6. /\ Sound(windows', next_id)
        /\ \A i, j \in Slot : i < j => windows'[i].z <= windows'[j].z
        /\ \A k \in Slot : \E s \in Slot : windows'[k] = pre[s]
    BY <1>1, <1>5, <2>5, SortKeepsSound
  <2>7. CInv'
    BY <1>1, <2>6 DEF CInv, TypeOK, Sound
  <2>8. ASSUME NEW k \in Slot
        PROVE  /\ \E s \in Slot : Kept(windows'[k], windows[s])
               /\ windows'[k].w_type # "Null" => windows'[k].pid # p
    <3>1. PICK s \in Slot : windows'[k] = pre[s]
      BY <2>6
    <3>2. Kept(pre[s], windows[s])
      BY <2>1 DEF Kept
    <3>3. pre[s].w_type # "Null" => pre[s].pid # p
      BY <1>3, <2>1
    <3> QED
      BY <3>1, <3>2, <3>3
  <2> QED
    BY <1>1, <2>7, <2>8
<1> QED
  BY <1>4, <1>5

-----------------------------------------------------------------------------
(* The desktop.  The mouse handler remembers identifiers that have been    *)
(* given out, so that no later window can take the place of a dead one; a  *)
(* drag can only begin on a window that may move.                          *)

NotWallpaper(id) == \A s \in Slot : windows[s].id = id => windows[s].w_type # "Wallpaper"

DInv == /\ CInv
        /\ DesktopTypeOK
        /\ dragging < next_id
        /\ DragEnds
        /\ WallpaperStays
        /\ titlebar => NotWallpaper(clicked)

(* What the list may do between two states: windows move, lose their life  *)
(* or are new.                                                             *)
Evolves == \A k \in Slot : \/ \E s \in Slot : Kept(windows'[k], windows[s])
                           \/ windows'[k].id = next_id

LEMMA EvolvesSafely ==
    ASSUME CInv, CInv', Evolves, NEW d \in Nat, d < next_id
    PROVE  /\ NotWallpaper(d) => NotWallpaper(d)'
           /\ ~IsLive(d) => ~IsLive(d)'
<1>1. next_id \in Nat
  BY ComposerAssumption DEF CInv, TypeOK
<1>2. ASSUME NEW k \in Slot, windows'[k].id = d
      PROVE  \E s \in Slot : Kept(windows'[k], windows[s])
  BY <1>1, <1>2 DEF Evolves
<1>3. ASSUME NotWallpaper(d), NEW k \in Slot, windows'[k].id = d
      PROVE  windows'[k].w_type # "Wallpaper"
  <2>1. PICK s \in Slot : Kept(windows'[k], windows[s])
    BY <1>2, <1>3
  <2> QED
    BY <1>3, <2>1 DEF Kept, NotWallpaper
<1>4. ASSUME NEW k \in Slot, windows'[k].w_type # "Null", windows'[k].id = d
      PROVE  IsLive(d)
  <2>1. PICK s \in Slot : Kept(windows'[k], windows[s])
    BY <1>2, <1>4
  <2> QED
    BY <1>4, <2>1 DEF Kept, IsLive, Live
<1>5. IsLive(d)' => IsLive(d)
  BY <1>4 DEF IsLive, Live
<1> QED
  BY <1>3, <1>5 DEF NotWallpaper

LEMMA MouseRests ==
    ASSUME DInv, CInv', Evolves, next_id' >= next_id, clicked' = clicked, UNCHANGED mvars,
           life' \in [Pid -> Life], running' \in Pid \cup {0}
    PROVE  DInv'
<1>1. /\ left' = left /\ drags' = drags /\ titlebar' = titlebar /\ dragging' = dragging
  BY DEF mvars
<1>2. DesktopTypeOK'
  BY <1>1 DEF DInv, DesktopTypeOK, CInv
<1>3. /\ dragging \in Nat /\ dragging < next_id /\ clicked \in Nat /\ clicked < next_id
      /\ next_id \in Nat /\ next_id' \in Nat
  BY ComposerAssumption DEF DInv, DesktopTypeOK, CInv, TypeOK
<1>4. /\ NotWallpaper(dragging) => NotWallpaper(dragging)'
      /\ ~IsLive(dragging) => ~IsLive(dragging)'
  <2>1. \A d \in Nat : d < next_id => /\ NotWallpaper(d) => NotWallpaper(d)'
                                      /\ ~IsLive(d) => ~IsLive(d)'
    BY EvolvesSafely DEF DInv
  <2> QED
    BY <1>1, <1>3, <2>1 DEF NotWallpaper, IsLive
<1>5. NotWallpaper(clicked) => NotWallpaper(clicked)'
  <2>1. \A d \in Nat : d < next_id => (NotWallpaper(d) => NotWallpaper(d)')
    BY EvolvesSafely DEF DInv
  <2> QED
    BY <1>3, <2>1 DEF NotWallpaper
<1>6. DragEnds'
  BY <1>1, <1>4 DEF DInv, DragEnds
<1>7. WallpaperStays'
  BY <1>4 DEF DInv, WallpaperStays, NotWallpaper
<1> QED
  BY <1>1, <1>2, <1>3, <1>5, <1>6, <1>7 DEF DInv

LEMMA StandsStill ==
    ASSUME CInv, UNCHANGED cvars
    PROVE  CInv' /\ Evolves /\ next_id' >= next_id /\ clicked' = clicked /\ windows' = windows
<1>1. windows' = windows /\ next_id' = next_id /\ clicked' = clicked
  BY DEF cvars
<1>2. CInv'
  BY <1>1 DEF CInv, TypeOK, Sound
<1>3. next_id \in Nat
  BY ComposerAssumption DEF CInv, TypeOK
<1> QED
  BY <1>1, <1>2, <1>3 DEF Evolves, Kept

LEMMA Dies ==
    ASSUME CInv, NEW p \in Pid, OwnerDies(p)
    PROVE  CInv' /\ Evolves /\ next_id' >= next_id /\ clicked' = clicked
<1>1. next_id \in Nat
  BY ComposerAssumption DEF CInv, TypeOK
<1> QED
  BY <1>1, RemoveKeeps DEF Evolves

LEMMA KillKeeps ==
    ASSUME DInv, NEW p \in Pid, Kill(p)
    PROVE  DInv'
<1>1. CInv' /\ Evolves /\ next_id' >= next_id /\ clicked' = clicked
  BY Dies DEF DInv, Kill
<1>2. life' \in [Pid -> Life] /\ running' \in Pid \cup {0} /\ UNCHANGED mvars
  BY DEF Kill, DInv, DesktopTypeOK, Life
<1> QED
  BY <1>1, <1>2, MouseRests

(* The slot that Super+X finds still names a process.                      *)
LEMMA ShortcutVictim ==
    ASSUME DInv, Shortcut
    PROVE  \E p \in Pid : Kill(p)
<1>1. PICK s \in Slot : windows[s].id = clicked /\ Kill(windows[s].pid)
  BY DEF Shortcut
<1>2. windows[s].pid \in Pid
  BY <1>1 DEF Shortcut, DInv, CInv, Sound
<1> QED
  BY <1>1, <1>2

LEMMA PressKeeps ==
    ASSUME DInv, NEW s \in Slot \cup {0}, NEW super \in BOOLEAN, Press(s, super)
    PROVE  DInv'
<1>1. /\ left' = TRUE /\ drags' = 1 /\ life' = life /\ running' = running
      /\ dragging' = dragging
  BY DEF Press, ovars
<1>2. DragEnds'
  BY <1>1 DEF DragEnds
<1>3. CASE s = 0
  <2>1. titlebar' = FALSE /\ UNCHANGED cvars
    BY <1>3 DEF Press
  <2>2. CInv' /\ windows' = windows /\ clicked' = clicked /\ next_id' = next_id
    BY <2>1, StandsStill DEF DInv, cvars
  <2>3. DesktopTypeOK'
    <3>1. left' \in BOOLEAN /\ titlebar' \in BOOLEAN
      BY <1>1, <2>1, Zenon
    <3> QED
      BY <1>1, <2>2, <3>1 DEF DInv, DesktopTypeOK, CInv
  <2>4. WallpaperStays'
    BY <1>1, <2>2 DEF DInv, WallpaperStays
  <2> QED
    BY <1>1, <1>2, <2>1, <2>2, <2>3, <2>4 DEF DInv
<1>4. CASE s # 0
  <2>1. /\ s \in Slot /\ Click(s)
        /\ \E w \in {windows[s], windows'[s]} : titlebar' = (super /\ CanMove(w))
    BY <1>4 DEF Press
  <2>2. /\ CInv' /\ next_id' = next_id /\ clicked' = windows[s].id
        /\ \A k \in Slot : \E t \in Slot : Kept(windows'[k], windows[t])
        /\ windows[s].w_type # "Window" => windows' = windows
    BY <2>1, ClickKeeps DEF DInv
  <2>3. Evolves
    BY <2>2 DEF Evolves
  <2>4. /\ windows[s].id \in Nat \ {0} /\ windows[s].id < next_id
        /\ \A t \in Slot : windows[t].id = windows[s].id => t = s
    BY <2>1 DEF DInv, CInv, Sound, WindowRecord, Click, Exposed
  <2>5. titlebar' \in BOOLEAN
    BY <2>1 DEF CanMove
  <2>6. titlebar' => windows[s].w_type # "Wallpaper"
    BY <2>1, <2>2 DEF CanMove
  <2>7. titlebar' => NotWallpaper(clicked)'
    <3>1. titlebar' => NotWallpaper(windows[s].id)
      BY <2>4, <2>6 DEF NotWallpaper
    <3>2. \A d \in Nat : d < next_id => (NotWallpaper(d) => NotWallpaper(d)')
      BY <2>2, <2>3, EvolvesSafely DEF DInv
    <3>3. NotWallpaper(windows[s].id) =>
             \A k \in Slot : windows'[k].id = windows[s].id => windows'[k].w_type # "Wallpaper"
      <4> DEFINE d == windows[s].id
      <4>1. d \in Nat /\ d < next_id
        BY <2>4
      <4> HIDE DEF d
      <4>2. NotWallpaper(d) =>
               \A k \in Slot : windows'[k].id = d => windows'[k].w_type # "Wallpaper"
        BY <3>2, <4>1 DEF NotWallpaper
      <4> QED
        BY <4>2 DEF d
    <3> QED
      BY <2>2, <3>1, <3>3 DEF NotWallpaper
  <2>8. /\ dragging \in Nat /\ dragging < next_id
    BY ComposerAssumption DEF DInv, DesktopTypeOK
  <2>9. WallpaperStays'
    <3>1. \A d \in Nat : d < next_id => (NotWallpaper(d) => NotWallpaper(d)')
      BY <2>2, <2>3, EvolvesSafely DEF DInv
    <3>2. NotWallpaper(dragging) =>
             \A k \in Slot : windows'[k].id = dragging => windows'[k].w_type # "Wallpaper"
      BY <2>8, <3>1 DEF NotWallpaper
    <3> QED
      BY <1>1, <3>2 DEF DInv, WallpaperStays, NotWallpaper
  <2>10. DesktopTypeOK'
    BY <1>1, <2>2, <2>5 DEF DInv, DesktopTypeOK, CInv
  <2> QED
    BY <1>1, <1>2, <2>2, <2>7, <2>8, <2>9, <2>10 DEF DInv
<1> QED
  BY <1>3, <1>4

LEMMA MoveKeeps ==
    ASSUME DInv, Move
    PROVE  DInv'
<1>1. /\ left /\ left' = left /\ titlebar' = titlebar /\ UNCHANGED cvars
      /\ life' = life /\ running' = running
      /\ drags' = IF drags < 3 THEN drags + 1 ELSE 3
      /\ dragging' = IF drags' = 3 /\ titlebar /\ dragging = 0 THEN clicked ELSE dragging
  BY DEF Move, ovars
<1>2. CInv' /\ windows' = windows /\ clicked' = clicked /\ next_id' = next_id
  BY <1>1, StandsStill DEF DInv, cvars
<1>3. \/ dragging' = dragging
      \/ titlebar /\ dragging' = clicked
  BY <1>1
<1>4. drags' \in 0 .. 3
  BY <1>1 DEF DInv, DesktopTypeOK
<1>5. DesktopTypeOK'
  BY <1>1, <1>2, <1>3, <1>4 DEF DInv, DesktopTypeOK, CInv, TypeOK
<1>6. WallpaperStays'
  BY <1>2, <1>3 DEF DInv, WallpaperStays, NotWallpaper
<1>7. DragEnds'
  BY <1>1 DEF DragEnds
<1>8. dragging' < next_id'
  BY <1>2, <1>3 DEF DInv, CInv
<1>9. titlebar' => NotWallpaper(clicked)'
  BY <1>1, <1>2 DEF DInv, NotWallpaper
<1> QED
  BY <1>2, <1>5, <1>6, <1>7, <1>8, <1>9 DEF DInv

LEMMA ReleaseKeeps ==
    ASSUME DInv, Release
    PROVE  DInv'
<1>1. /\ left' = FALSE /\ titlebar' = FALSE /\ drags' = 0 /\ UNCHANGED cvars
      /\ life' = life /\ running' = running
      /\ dragging' = IF IsLive(dragging) THEN 0 ELSE dragging
  BY DEF Release, ovars, Dropped
<1>2. CInv' /\ windows' = windows /\ clicked' = clicked /\ next_id' = next_id
  BY <1>1, StandsStill DEF DInv, cvars
<1>3. DesktopTypeOK'
  <2>1. left' \in BOOLEAN /\ titlebar' \in BOOLEAN
    BY <1>1, Zenon
  <2>2. dragging' \in 0 .. MaxId
    BY <1>1, ComposerAssumption DEF DInv, DesktopTypeOK
  <2> QED
    BY <1>1, <1>2, <2>1, <2>2 DEF DInv, DesktopTypeOK, CInv
<1>4. DragEnds'
  <2>1. ASSUME dragging' # 0 PROVE dragging' = dragging /\ ~IsLive(dragging)
    BY <1>1, <2>1
  <2> QED
    BY <1>2, <2>1 DEF DragEnds, IsLive, Live
<1>5. WallpaperStays'
  <2>1. \A s \in Slot : windows[s].id = 0 => windows[s].w_type # "Wallpaper"
    BY DEF DInv, CInv, Sound
  <2> QED
    BY <1>1, <1>2, <2>1 DEF DInv, WallpaperStays
<1>6. dragging' < next_id'
  <2>1. next_id \in Nat /\ next_id > 0
    BY ComposerAssumption DEF DInv, CInv, TypeOK
  <2> QED
    BY <1>1, <1>2, <2>1 DEF DInv
<1> QED
  BY <1>1, <1>2, <1>3, <1>4, <1>5, <1>6 DEF DInv

LEMMA InitDInv == DInit => DInv
<1> SUFFICES ASSUME DInit PROVE DInv
  OBVIOUS
<1> USE ComposerAssumption DEF DInit, Init
<1>1. NULL_WINDOW \in WindowRecord
  BY DEF NULL_WINDOW, WindowRecord
<1>2. \A s \in Slot : windows[s] = NULL_WINDOW
  OBVIOUS
<1>3. windows \in [Slot -> WindowRecord]
  BY <1>1
<1>4. Sound(windows, next_id)
  BY <1>2, <1>3 DEF Sound, NULL_WINDOW
<1>5. TypeOK
  BY <1>3 DEF TypeOK
<1>6. CInv
  BY <1>2, <1>4, <1>5 DEF CInv, NULL_WINDOW
<1>7. DesktopTypeOK
  <2>1. left \in BOOLEAN /\ titlebar \in BOOLEAN
    BY Zenon
  <2>2. life \in [Pid -> Life]
    BY DEF Life
  <2> QED
    BY <1>5, <2>1, <2>2 DEF DesktopTypeOK
<1>8. WallpaperStays
  BY <1>2 DEF WallpaperStays, NULL_WINDOW
<1> QED
  BY <1>6, <1>7, <1>8 DEF DInv, DragEnds

(* Steps that leave the mouse alone. *)
LEMMA ProcessKeeps ==
    ASSUME DInv,
           \/ \E p \in Pid : Start(p) \/ Reap(p)
           \/ \E p \in Pid \cup {0}, signalled \in BOOLEAN : Resume(p, signalled)
           \/ \E w_type \in Items : Open(w_type)
           \/ Doze
           \/ Exit
           \/ UNCHANGED dvars
    PROVE  DInv'
<1>1. life \in [Pid -> Life] /\ running \in Pid \cup {0} /\ CInv
  BY DEF DInv, DesktopTypeOK
<1>2. CASE \E p \in Pid : Start(p) \/ Reap(p)
  <2>1. /\ life' \in [Pid -> Life] /\ running' = running
        /\ UNCHANGED cvars /\ UNCHANGED mvars
    BY <1>1, <1>2 DEF Start, Reap, Life
  <2> QED
    BY <1>1, <2>1, StandsStill, MouseRests
<1>3. CASE \E p \in Pid \cup {0}, signalled \in BOOLEAN : Resume(p, signalled)
  <2>1. PICK p \in Pid \cup {0}, signalled \in BOOLEAN : Resume(p, signalled)
    BY <1>3
  <2>2. CASE signalled
    <3>1. /\ p \in Pid /\ OwnerDies(p) /\ running' = p /\ UNCHANGED mvars
          /\ life' = [life EXCEPT ![p] = "Zombie"]
      BY <2>1, <2>2 DEF Resume
    <3>2. life' \in [Pid -> Life]
      BY <1>1, <3>1 DEF Life
    <3> QED
      BY <1>1, <3>1, <3>2, Dies, MouseRests
  <2>3. CASE ~signalled
    <3>1. UNCHANGED cvars /\ life' = life /\ running' = p /\ UNCHANGED mvars
      BY <2>1, <2>3 DEF Resume
    <3> QED
      BY <1>1, <3>1, StandsStill, MouseRests
  <2> QED
    BY <2>2, <2>3
<1>4. CASE \E w_type \in Items : Open(w_type)
  <2>1. PICK w_type \in Items : Open(w_type)
    BY <1>4
  <2>2. /\ running \in Pid /\ AddWindow(running, w_type)
        /\ life' = life /\ running' = running /\ UNCHANGED mvars
    BY <1>1, <2>1 DEF Open, ovars
  <2>3. CInv' /\ Evolves /\ next_id' = next_id + 1 /\ clicked' = clicked
    BY <1>1, <2>2, AddKeeps DEF Evolves
  <2>4. next_id' >= next_id
    BY <1>1, <2>3, ComposerAssumption DEF CInv, TypeOK
  <2> QED
    BY <1>1, <2>2, <2>3, <2>4, MouseRests
<1>5. CASE Doze
  <2>1. life' \in [Pid -> Life] /\ running' = running /\ UNCHANGED cvars /\ UNCHANGED mvars
    BY <1>1, <1>5 DEF Doze, Life
  <2> QED
    BY <1>1, <2>1, StandsStill, MouseRests
<1>6. CASE Exit
  <2>1. /\ running \in Pid /\ OwnerDies(running) /\ running' = 0 /\ UNCHANGED mvars
        /\ life' \in [Pid -> Life]
    BY <1>1, <1>6 DEF Exit, Life
  <2> QED
    BY <1>1, <2>1, Dies, MouseRests
<1>7. CASE UNCHANGED dvars
  <2>1. UNCHANGED cvars /\ UNCHANGED mvars /\ life' = life /\ running' = running
    BY <1>7 DEF dvars, ovars
  <2> QED
    BY <1>1, <2>1, StandsStill, MouseRests
<1> QED
  BY <1>2, <1>3, <1>4, <1>5, <1>6, <1>7

LEMMA DNextKeeps == DInv /\ [DNext]_dvars => DInv'
<1> SUFFICES ASSUME DInv, [DNext]_dvars PROVE DInv'
  OBVIOUS
<1>1. CASE Shortcut
  BY <1>1, ShortcutVictim, KillKeeps
<1> QED
  BY <1>1, KillKeeps, PressKeeps, MoveKeeps, ReleaseKeeps, ProcessKeeps DEF DNext

LEMMA DInvariance == DSpec => []DInv
  BY InitDInv, DNextKeeps, PTL DEF DSpec

(* Whatever is opened, clicked and closed, by whomever and in whichever    *)
(* order, the array is in stacking order: sorted by z, no two windows      *)
(* level, the bars in front (add_window, focus_window,                     *)
(* remove_windows_by_pid).                                                 *)
THEOREM DesktopStackingOrder == DSpec => []StackingOrder
<1>1. ASSUME CInv PROVE StackingOrder
  <2>1. ASSUME NEW s \in Slot PROVE windows[s].z \in Nat /\ s \in Nat
    BY <1>1, SlotFacts DEF CInv, TypeOK, WindowRecord, Slot
  <2>2. FrontToBack
    BY <1>1, <2>1 DEF CInv, Sound, FrontToBack
  <2>3. ASSUME NEW i \in Slot, NEW j \in Slot,
               windows[i].w_type \in {"Window", "Wallpaper"}, windows[j].w_type = "Bar"
        PROVE  j < i
    <3>1. windows[i].z >= 1 /\ windows[j].z = 0 /\ i # j
      BY <1>1, <2>3 DEF CInv, Sound
    <3>2. i < j => windows[i].z <= windows[j].z
      BY <1>1 DEF CInv
    <3> QED
      BY <2>1, <3>1, <3>2
  <2> QED
    BY <2>2, <2>3 DEF StackingOrder, BarsInFront
<1>2. DInv => StackingOrder
  BY <1>1 DEF DInv
<1> QED
  BY <1>2, DInvariance, PTL

(* What the mouse handler remembers between two interrupts stays right     *)
(* while windows come, go and change their slots: it drags a window that   *)
(* may be moved, and nothing but a dead window once the button is up.      *)
THEOREM DesktopDragsRight == DSpec => []DragsRight
<1>1. DInv => DragsRight
  BY DEF DInv, DragsRight
<1> QED
  BY <1>1, DInvariance, PTL

-----------------------------------------------------------------------------
(* Orphans.                                                                *)

(* No orphan appears if the windows stay with their owners and the owners  *)
(* of those that remain do not die.                                        *)
LEMMA NoNewOrphans ==
    ASSUME \A k \in Slot : windows'[k].w_type # "Null" =>
              /\ \E s \in Slot : Kept(windows'[k], windows[s])
              /\ life'[windows'[k].pid] \in {"Free", "Zombie"} =>
                    life[windows'[k].pid] \in {"Free", "Zombie"}
    PROVE  Orphans' \subseteq Orphans
<1> SUFFICES ASSUME NEW k \in Slot, windows'[k].w_type # "Null",
                    life'[windows'[k].pid] \in {"Free", "Zombie"}
             PROVE  windows'[k].id \in Orphans
  BY DEF Orphans, Live
<1>1. PICK s \in Slot : Kept(windows'[k], windows[s])
  OBVIOUS
<1>2. life[windows'[k].pid] \in {"Free", "Zombie"}
  OBVIOUS
<1>3. /\ windows[s].w_type # "Null" /\ windows[s].id = windows'[k].id
      /\ windows[s].pid = windows'[k].pid
  BY <1>1 DEF Kept
<1> QED
  BY <1>2, <1>3 DEF Orphans, Live

LEMMA OwnersKnown ==
    ASSUME CInv, NEW s \in Slot, windows[s].w_type # "Null"
    PROVE  windows[s].pid \in Pid
  BY DEF CInv, Sound

LEMMA DyingOrphans ==
    ASSUME DInv, NEW p \in Pid, OwnerDies(p), life' = [life EXCEPT ![p] = "Zombie"]
    PROVE  Orphans' \subseteq Orphans
<1>1. /\ CInv' /\ CInv
      /\ \A k \in Slot : \E s \in Slot : Kept(windows'[k], windows[s])
      /\ \A k \in Slot : windows'[k].w_type # "Null" => windows'[k].pid # p
  BY RemoveKeeps DEF DInv
<1>2. ASSUME NEW k \in Slot, windows'[k].w_type # "Null"
      PROVE  windows'[k].pid \in Pid
  BY <1>1, <1>2 DEF CInv, Sound
<1>3. ASSUME NEW k \in Slot, windows'[k].w_type # "Null"
      PROVE  life'[windows'[k].pid] = life[windows'[k].pid]
  BY <1>1, <1>2, <1>3 DEF DInv, DesktopTypeOK
<1> QED
  BY <1>1, <1>3, NoNewOrphans

LEMMA StillOrphans ==
    ASSUME DInv, UNCHANGED cvars,
           \A q \in Pid : life'[q] \in {"Free", "Zombie"} => life[q] \in {"Free", "Zombie"}
    PROVE  Orphans' \subseteq Orphans
<1>1. windows' = windows /\ CInv
  BY DEF cvars, DInv
<1>2. \A k \in Slot : windows[k].w_type # "Null" => windows[k].pid \in Pid
  BY <1>1, OwnersKnown
<1> QED
  BY <1>1, <1>2, NoNewOrphans DEF Kept

Grieves == \/ Orphans' \subseteq Orphans
           \/ /\ running # 0 /\ life[running] \in {"Free", "Zombie"}
              /\ \E w_type \in Items : Open(w_type)

LEMMA StepGrieves == DInv /\ [DNext]_dvars => Grieves
<1> SUFFICES ASSUME DInv, [DNext]_dvars PROVE Grieves
  OBVIOUS
<1>1. life \in [Pid -> Life] /\ running \in Pid \cup {0} /\ CInv
  BY DEF DInv, DesktopTypeOK
<1>2. CASE \E p \in Pid : Start(p) \/ Reap(p)
  <2>1. /\ UNCHANGED cvars
        /\ \A q \in Pid : life'[q] \in {"Free", "Zombie"} => life[q] \in {"Free", "Zombie"}
    BY <1>1, <1>2 DEF Start, Reap
  <2> QED
    BY <2>1, StillOrphans DEF Grieves
<1>3. CASE \E p \in Pid \cup {0}, signalled \in BOOLEAN : Resume(p, signalled)
  <2>1. PICK p \in Pid \cup {0}, signalled \in BOOLEAN : Resume(p, signalled)
    BY <1>3
  <2>2. CASE signalled
    BY <2>1, <2>2, DyingOrphans DEF Resume, Grieves
  <2>3. CASE ~signalled
    BY <2>1, <2>3, StillOrphans DEF Resume, Grieves
  <2> QED
    BY <2>2, <2>3
<1>4. CASE \E w_type \in Items : Open(w_type)
  <2>1. PICK w_type \in Items : Open(w_type)
    BY <1>4
  <2>2. /\ running \in Pid /\ running # 0 /\ AddWindow(running, w_type) /\ life' = life
    BY <1>1, <2>1, ComposerAssumption DEF Open, ovars
  <2>3. CASE life[running] \in {"Free", "Zombie"}
    BY <1>4, <2>2, <2>3 DEF Grieves
  <2>4. CASE life[running] \notin {"Free", "Zombie"}
    <3>1. \A k \in Slot : \/ \E s \in Slot : Kept(windows'[k], windows[s])
                          \/ windows'[k].pid = running
      BY <1>1, <2>2, AddKeeps
    <3> SUFFICES ASSUME NEW k \in Slot, windows'[k].w_type # "Null",
                        life'[windows'[k].pid] \in {"Free", "Zombie"}
                 PROVE  windows'[k].id \in Orphans
      BY DEF Orphans, Live, Grieves
    <3>2. PICK s \in Slot : Kept(windows'[k], windows[s])
      BY <2>2, <2>4, <3>1
    <3> QED
      BY <2>2, <3>2 DEF Kept, Orphans, Live
  <2> QED
    BY <2>3, <2>4
<1>5. CASE Doze
  <2>1. \A q \in Pid : life'[q] \in {"Free", "Zombie"} => life[q] \in {"Free", "Zombie"}
    BY <1>1, <1>5 DEF Doze
  <2> QED
    BY <1>5, <2>1, StillOrphans DEF Doze, Grieves
<1>6. CASE Exit
  BY <1>1, <1>6, DyingOrphans DEF Exit, Grieves
<1>7. CASE (\E p \in Pid : Kill(p)) \/ Shortcut
  <2>1. PICK p \in Pid : Kill(p)
    BY <1>7, ShortcutVictim
  <2> QED
    BY <2>1, DyingOrphans DEF Kill, Grieves
<1>8. CASE \E s \in Slot \cup {0}, super \in BOOLEAN : Press(s, super)
  <2>1. PICK s \in Slot \cup {0}, super \in BOOLEAN : Press(s, super)
    BY <1>8
  <2>2. life' = life
    BY <2>1 DEF Press, ovars
  <2>3. CASE s = 0
    BY <2>1, <2>2, <2>3, StillOrphans DEF Press, Grieves
  <2>4. CASE s # 0
    <3>1. \A k \in Slot : \E t \in Slot : Kept(windows'[k], windows[t])
      BY <1>1, <2>1, <2>4, ClickKeeps DEF Press
    <3> QED
      BY <2>2, <3>1, NoNewOrphans DEF Grieves
  <2> QED
    BY <2>3, <2>4
<1>9. CASE Move \/ Release \/ UNCHANGED dvars
  <2>1. UNCHANGED cvars /\ life' = life
    BY <1>9 DEF Move, Release, dvars, ovars
  <2> QED
    BY <2>1, StillOrphans DEF Grieves
<1> QED
  BY <1>2, <1>3, <1>4, <1>5, <1>6, <1>7, <1>8, <1>9 DEF DNext

(* A window outlives its process only if the process opened it after it    *)
(* had been killed, in the rest of its time slice: exit, kill, signals and *)
(* the shortcut take the windows along, and no reuse of a pid, click or    *)
(* drag makes an orphan.                                                   *)
THEOREM DesktopOrphansOnlyFromTheDead == DSpec => OrphansOnlyFromTheDead
<1>1. DInv /\ [DNext]_dvars =>
        [Orphans' \subseteq Orphans
         \/ (running # 0 /\ life[running] \in {"Free", "Zombie"}
             /\ \E w_type \in Items : Open(w_type))]_dvars
  BY StepGrieves DEF Grieves
<1> QED
  BY <1>1, DInvariance, PTL DEF DSpec, OrphansOnlyFromTheDead

-----------------------------------------------------------------------------
(* The event ring.  Positions in a set of natural numbers, which the       *)
(* abstract log counts.                                                    *)

LEMMA LeastOf ==
  ASSUME NEW S \in SUBSET Nat, S # {}
  PROVE  \E x \in S : \A y \in S : x <= y
<1> DEFINE R == {ss \in Nat \X Nat : ss[1] < ss[2]}
<1>1. IsWellFoundedOn(R, Nat)
  BY NatLessThanWellFounded DEF OpToRel
<1>2. PICK x \in S : \A y \in S : <<y, x>> \notin R
  BY <1>1, WFMin, Zenon
<1>3. ASSUME NEW y \in S PROVE x <= y
  <2>1. /\ <<y, x>> \in Nat \X Nat
        /\ <<y, x>>[1] = y /\ <<y, x>>[2] = x
    OBVIOUS
  <2>2. ~(y < x)
    BY <1>2, <2>1
  <2> QED
    BY <2>2
<1> QED
  BY <1>3

UpTo(P, i) == {j \in P : j <= i}

(* In a set of numbers up to k each rank is taken once.                    *)
Ranked(P, k) ==
    /\ P \in SUBSET (1 .. k) /\ Cardinality(P) \in Nat /\ Cardinality(P) <= k
    /\ \A i \in P : Cardinality(UpTo(P, i)) \in 1 .. Cardinality(P)
    /\ \A n \in 1 .. Cardinality(P) : \E i \in P : Cardinality(UpTo(P, i)) = n
    /\ \A i, j \in P : Cardinality(UpTo(P, i)) = Cardinality(UpTo(P, j)) => i = j

LEMMA NoneRanked == Ranked({}, 0)
  BY FS_EmptySet DEF Ranked

LEMMA FinitePositions ==
    ASSUME NEW k \in Nat, NEW P \in SUBSET (1 .. k)
    PROVE  IsFiniteSet(P) /\ Cardinality(P) \in Nat
<1>1. IsFiniteSet(1 .. k)
  BY FS_Interval
<1> QED
  BY <1>1, FS_Subset, FS_CardinalityType

(* A next, greater number takes the next rank and leaves the others.       *)
LEMMA OneMoreRanked ==
    ASSUME NEW k \in Nat, NEW P, Ranked(P, k)
    PROVE  LET Q == P \cup {k + 1}
           IN  /\ Ranked(Q, k + 1) /\ Cardinality(Q) = Cardinality(P) + 1
               /\ Cardinality(UpTo(Q, k + 1)) = Cardinality(P) + 1
               /\ \A i \in P : UpTo(Q, i) = UpTo(P, i)
<1> DEFINE Q == P \cup {k + 1}
<1>1. P \in SUBSET (1 .. k) /\ Cardinality(P) \in Nat /\ Cardinality(P) <= k
  BY DEF Ranked
<1>2. IsFiniteSet(P) /\ \A i \in P : i \in Nat /\ i < k + 1
  <2>1. \A i \in P : i \in 1 .. k
    BY <1>1
  <2>2. \A i \in 1 .. k : i \in Nat /\ i < k + 1
    OBVIOUS
  <2>3. IsFiniteSet(P)
    BY <1>1, FinitePositions
  <2> QED
    BY <2>1, <2>2, <2>3
<1>3. Cardinality(Q) = Cardinality(P) + 1
  BY <1>1, <1>2, FS_AddElement
<1>4. UpTo(Q, k + 1) = Q
  BY <1>2 DEF UpTo
<1>5. \A i \in P : UpTo(Q, i) = UpTo(P, i)
  BY <1>2 DEF UpTo
<1>6. Q \in SUBSET (1 .. k + 1)
  BY <1>1
<1>7. \A i \in P : Cardinality(UpTo(P, i)) \in 1 .. Cardinality(P)
  BY DEF Ranked
<1>8. \A i \in Q : Cardinality(UpTo(Q, i)) \in 1 .. Cardinality(Q)
  <2>1. ASSUME NEW i \in P PROVE Cardinality(UpTo(Q, i)) \in 1 .. Cardinality(Q)
    BY <1>1, <1>3, <1>5, <1>7
  <2>2. Cardinality(UpTo(Q, k + 1)) \in 1 .. Cardinality(Q)
    BY <1>1, <1>3, <1>4
  <2> QED
    BY <2>1, <2>2
<1>9. \A n \in 1 .. Cardinality(Q) : \E i \in Q : Cardinality(UpTo(Q, i)) = n
  <2> SUFFICES ASSUME NEW n \in 1 .. Cardinality(Q)
               PROVE  \E i \in Q : Cardinality(UpTo(Q, i)) = n
    OBVIOUS
  <2>1. CASE n = Cardinality(Q)
    BY <2>1, <1>4
  <2>2. CASE n # Cardinality(Q)
    <3>1. n \in 1 .. Cardinality(P)
      BY <2>2, <1>1, <1>3
    <3>2. PICK i \in P : Cardinality(UpTo(P, i)) = n
      BY <3>1 DEF Ranked
    <3> QED
      BY <3>2, <1>5
  <2> QED
    BY <2>1, <2>2
<1>10. ASSUME NEW i \in Q, NEW j \in Q, Cardinality(UpTo(Q, i)) = Cardinality(UpTo(Q, j))
       PROVE  i = j
  <2>1. CASE i \in P /\ j \in P
    BY <2>1, <1>5, <1>10 DEF Ranked
  <2>2. \A x \in P : Cardinality(UpTo(Q, x)) # Cardinality(UpTo(Q, k + 1))
    BY <1>1, <1>3, <1>4, <1>5, <1>7
  <2> QED
    BY <2>1, <2>2, <1>10
<1>11. Cardinality(Q) \in Nat /\ Cardinality(Q) <= k + 1
  BY <1>1, <1>3
<1>12. Cardinality(UpTo(Q, k + 1)) = Cardinality(P) + 1
  BY <1>3, <1>4
<1> HIDE DEF Q
<1>13. Ranked(Q, k + 1)
  BY <1>6, <1>8, <1>9, <1>10, <1>11 DEF Ranked
<1> QED
  BY <1>3, <1>5, <1>12, <1>13, Zenon DEF Q

(* The n-th position, as the log finds it.                                 *)
Nth(P, n) == CHOOSE i \in P : Cardinality({j \in P : j <= i}) = n

LEMMA NthIs ==
    ASSUME NEW k \in Nat, NEW P, Ranked(P, k), NEW i \in P
    PROVE  Nth(P, Cardinality(UpTo(P, i))) = i
<1> DEFINE n == Cardinality(UpTo(P, i))
<1>1. Nth(P, n) \in P /\ Cardinality(UpTo(P, Nth(P, n))) = n
  BY DEF Nth, UpTo
<1> QED
  BY <1>1 DEF Ranked

LEMMA NthExists ==
    ASSUME NEW k \in Nat, NEW P, Ranked(P, k), NEW n \in 1 .. Cardinality(P)
    PROVE  Nth(P, n) \in P /\ Cardinality(UpTo(P, Nth(P, n))) = n
<1>1. \E i \in P : Cardinality(UpTo(P, i)) = n
  BY DEF Ranked
<1> QED
  BY <1>1 DEF Nth, UpTo

LEMMA NthOfMore ==
    ASSUME NEW k \in Nat, NEW P, Ranked(P, k)
    PROVE  LET Q == P \cup {k + 1}
           IN  /\ \A n \in 1 .. Cardinality(P) : Nth(Q, n) = Nth(P, n)
               /\ Nth(Q, Cardinality(P) + 1) = k + 1
<1> DEFINE Q == P \cup {k + 1}
<1>1. /\ Ranked(Q, k + 1) /\ k + 1 \in Nat
      /\ Cardinality(UpTo(Q, k + 1)) = Cardinality(P) + 1
      /\ \A i \in P : UpTo(Q, i) = UpTo(P, i)
  BY OneMoreRanked
<1>2. Nth(Q, Cardinality(P) + 1) = k + 1
  BY <1>1, NthIs
<1>3. ASSUME NEW n \in 1 .. Cardinality(P) PROVE Nth(Q, n) = Nth(P, n)
  <2>1. Nth(P, n) \in P /\ Cardinality(UpTo(P, Nth(P, n))) = n
    BY NthExists
  <2> QED
    BY <2>1, <1>1, NthIs
<1> QED
  BY <1>2, <1>3

(* What the log takes out of the events s at the positions P.              *)
Taken(s, P) == [n \in 1 .. Cardinality(P) |-> s[Nth(P, n)]]

LEMMA TakenIsAt == ASSUME NEW s, NEW P PROVE Log!At(s, P) = Taken(s, P)
<1>1. \A S : Log!Cardinality(S) = Cardinality(S)
  BY Zenon DEF Log!Cardinality, Cardinality
<1> DEFINE L(n) == CHOOSE i \in P : Log!Cardinality({j \in P : j <= i}) = n
<1>2. \A n : L(n) = Nth(P, n)
  BY <1>1 DEF Nth
<1>3. Log!At(s, P) = [n \in 1 .. Log!Cardinality(P) |-> s[L(n)]]
  BY Zenon DEF Log!At
<1> HIDE DEF L
<1> QED
  BY <1>1, <1>2, <1>3 DEF Taken

LEMMA TakenMore ==
    ASSUME NEW k \in Nat, NEW P, Ranked(P, k), NEW S, NEW s,
           \A i \in P \cup {k + 1} : s[i] \in S
    PROVE  /\ Taken(s, P) \in Seq(S) /\ Len(Taken(s, P)) = Cardinality(P)
           /\ Taken(s, P \cup {k + 1}) = Append(Taken(s, P), s[k + 1])
<1> DEFINE Q == P \cup {k + 1}
           c == Cardinality(P)
<1>1. c \in Nat /\ Cardinality(Q) = c + 1
  BY OneMoreRanked DEF Ranked
<1>2. \A n \in 1 .. c : Nth(P, n) \in P /\ Nth(Q, n) = Nth(P, n)
  BY NthExists, NthOfMore
<1>3. Nth(Q, c + 1) = k + 1
  BY NthOfMore
<1> HIDE DEF Q
<1>4. \A n \in 1 .. c : s[Nth(P, n)] \in S
  BY <1>2
<1>5. Taken(s, P) = [n \in 1 .. c |-> s[Nth(P, n)]]
  BY DEF Taken
<1>6. Taken(s, Q) = [n \in 1 .. c + 1 |-> s[Nth(Q, n)]]
  BY <1>1 DEF Taken
<1> HIDE DEF c
<1>7. Taken(s, P) \in Seq(S) /\ Len(Taken(s, P)) = c
  BY <1>1, <1>4, <1>5
<1>8. Append(Taken(s, P), s[k + 1])
        = [n \in 1 .. c + 1 |-> IF n = c + 1 THEN s[k + 1] ELSE Taken(s, P)[n]]
  BY <1>1, <1>7
<1>9. ASSUME NEW n \in 1 .. c + 1
      PROVE  s[Nth(Q, n)] = IF n = c + 1 THEN s[k + 1] ELSE Taken(s, P)[n]
  <2>1. CASE n = c + 1
    BY <2>1, <1>3 DEF c
  <2>2. CASE n # c + 1
    <3>1. n \in 1 .. c
      BY <2>2, <1>1
    <3> QED
      BY <2>2, <3>1, <1>2, <1>5
  <2> QED
    BY <2>1, <2>2
<1> QED
  BY <1>6, <1>7, <1>8, <1>9 DEF Q, c

-----------------------------------------------------------------------------
(* The cell of the i-th event of a ring whose oldest event is at t.        *)

Cell(t, i) == Wrap(t + i - 1)

LEMMA WrapOnce ==
    \A x \in 0 .. (2 * QUEUE_SIZE - 1) :
        x % QUEUE_SIZE = IF x < QUEUE_SIZE THEN x ELSE x - QUEUE_SIZE
<1> SUFFICES ASSUME NEW x \in 0 .. (2 * QUEUE_SIZE - 1)
             PROVE  x % QUEUE_SIZE = IF x < QUEUE_SIZE THEN x ELSE x - QUEUE_SIZE
  OBVIOUS
<1> USE EventQueueAssumption
<1>1. CASE x \in 0 .. (QUEUE_SIZE - 1)
  BY <1>1, SMTT(20)
<1>2. CASE x \in QUEUE_SIZE .. (2 * QUEUE_SIZE - 1)
  BY <1>2, SMTT(20)
<1> QED
  BY <1>1, <1>2

LEMMA CellIs ==
    ASSUME NEW t \in Place, NEW i \in 1 .. QUEUE_SIZE + 1
    PROVE  /\ Cell(t, i) \in Place
           /\ t + i - 1 < QUEUE_SIZE => Cell(t, i) = t + i - 1
           /\ t + i - 1 < QUEUE_SIZE \/ Cell(t, i) = t + i - 1 - QUEUE_SIZE
<1> DEFINE z == t + i - 1
<1>1. CASE t + i - 1 <= 2 * QUEUE_SIZE - 1
  <2>1. z \in 0 .. (2 * QUEUE_SIZE - 1)
    BY <1>1, EventQueueAssumption DEF Place
  <2>2. Cell(t, i) = z % QUEUE_SIZE
    BY DEF Cell, Wrap
  <2> HIDE DEF z
  <2>3. z % QUEUE_SIZE = IF z < QUEUE_SIZE THEN z ELSE z - QUEUE_SIZE
    BY ONLY <2>1, WrapOnce, Zenon
  <2>4. Cell(t, i) = IF z < QUEUE_SIZE THEN z ELSE z - QUEUE_SIZE
    BY ONLY <2>2, <2>3, Zenon
  <2> QED
    BY <2>1, <2>4, EventQueueAssumption DEF z, Place
<1>2. t + i - 1 <= 2 * QUEUE_SIZE - 1
  BY EventQueueAssumption DEF Place
<1> QED
  BY <1>1, <1>2

LEMMA CellsOf ==
    ASSUME NEW t \in Place
    PROVE  /\ QUEUE_SIZE \in Nat /\ QUEUE_SIZE > 0
           /\ Cell(t, 1) = t /\ Cell(t, QUEUE_SIZE + 1) = t
           /\ \A i, j \in 1 .. QUEUE_SIZE : Cell(t, i) = Cell(t, j) => i = j
           /\ \A i \in 1 .. QUEUE_SIZE : Wrap(Cell(t, i) + 1) = Cell(t, i + 1)
           /\ \A i \in 1 .. QUEUE_SIZE : Cell(Cell(t, 2), i) = Cell(t, i + 1)
<1>1. QUEUE_SIZE \in Nat /\ QUEUE_SIZE > 0
  BY EventQueueAssumption
<1>2. t \in Nat /\ t < QUEUE_SIZE
  BY <1>1 DEF Place
<1>3. \A u \in Place, i \in 1 .. QUEUE_SIZE + 1 :
         /\ Cell(u, i) \in Place
         /\ u + i - 1 < QUEUE_SIZE => Cell(u, i) = u + i - 1
         /\ u + i - 1 < QUEUE_SIZE \/ Cell(u, i) = u + i - 1 - QUEUE_SIZE
  BY CellIs
<1>4. Cell(t, 1) = t
  BY <1>1, <1>2, <1>3
<1>5. Cell(t, QUEUE_SIZE + 1) = t
  BY <1>1, <1>2, <1>3
<1>6. ASSUME NEW i \in 1 .. QUEUE_SIZE, NEW j \in 1 .. QUEUE_SIZE, Cell(t, i) = Cell(t, j)
      PROVE  i = j
  BY <1>1, <1>2, <1>3, <1>6
<1>7. ASSUME NEW i \in 1 .. QUEUE_SIZE PROVE Wrap(Cell(t, i) + 1) = Cell(t, i + 1)
  <2> DEFINE c == Cell(t, i)
             z == c + 1
  <2>1. /\ c \in Nat /\ c < QUEUE_SIZE
        /\ t + i - 1 < QUEUE_SIZE => c = t + i - 1
        /\ t + i - 1 < QUEUE_SIZE \/ c = t + i - 1 - QUEUE_SIZE
    BY <1>1, <1>3 DEF Place
  <2>2. /\ t + (i + 1) - 1 < QUEUE_SIZE => Cell(t, i + 1) = t + (i + 1) - 1
        /\ t + (i + 1) - 1 < QUEUE_SIZE \/ Cell(t, i + 1) = t + (i + 1) - 1 - QUEUE_SIZE
    BY <1>1, <1>3
  <2> HIDE DEF c
  <2>3. z \in 0 .. (2 * QUEUE_SIZE - 1)
    BY <1>1, <2>1
  <2> HIDE DEF z
  <2>4. Wrap(z) = IF z < QUEUE_SIZE THEN z ELSE z - QUEUE_SIZE
    BY <2>3, WrapOnce, Zenon DEF Wrap
  <2>5. i \in Nat
    BY <1>1
  <2>6. Wrap(z) = Cell(t, i + 1)
    BY ONLY <1>1, <1>2, <2>1, <2>2, <2>4, <2>5 DEF z
  <2> QED
    BY <2>6 DEF z, c
<1>8. ASSUME NEW i \in 1 .. QUEUE_SIZE PROVE Cell(Cell(t, 2), i) = Cell(t, i + 1)
  <2> DEFINE u == Cell(t, 2)
  <2>1. u \in Place /\ u = IF t + 1 < QUEUE_SIZE THEN t + 1 ELSE t + 1 - QUEUE_SIZE
    BY <1>1, <1>2, <1>3
  <2> HIDE DEF u
  <2>2. /\ u + i - 1 < QUEUE_SIZE => Cell(u, i) = u + i - 1
        /\ u + i - 1 < QUEUE_SIZE \/ Cell(u, i) = u + i - 1 - QUEUE_SIZE
    BY <1>1, <1>3, <2>1
  <2>3. /\ t + (i + 1) - 1 < QUEUE_SIZE => Cell(t, i + 1) = t + (i + 1) - 1
        /\ t + (i + 1) - 1 < QUEUE_SIZE \/ Cell(t, i + 1) = t + (i + 1) - 1 - QUEUE_SIZE
    BY <1>1, <1>3
  <2>4. Cell(u, i) = Cell(t, i + 1)
    <3>1. i \in Nat /\ i >= 1 /\ i <= QUEUE_SIZE
      BY <1>1
    <3>2. CASE t + 1 < QUEUE_SIZE
      BY ONLY <1>1, <1>2, <2>1, <2>2, <2>3, <3>1, <3>2
    <3>3. CASE ~(t + 1 < QUEUE_SIZE)
      BY ONLY <1>1, <1>2, <2>1, <2>2, <2>3, <3>1, <3>3
    <3> QED
      BY <3>2, <3>3
  <2> QED
    BY <2>4 DEF u
<1> QED
  BY <1>1, <1>4, <1>5, <1>6, <1>7, <1>8

-----------------------------------------------------------------------------
(* The ring between two calls.                                             *)

QInv ==
    /\ QTypeOK
    /\ head = Cell(tail, count + 1)
    /\ \A i \in 1 .. count : queue[Cell(tail, i)] \in Event

LEMMA PendingIs ==
    ASSUME QInv
    PROVE  /\ count \in Nat /\ count <= QUEUE_SIZE /\ tail \in Place
           /\ Pending \in Seq(Event) /\ Len(Pending) = count
           /\ \A i \in 1 .. count : Pending[i] = queue[Cell(tail, i)] /\ Pending[i] \in Event
<1>1. count \in Nat /\ count <= QUEUE_SIZE /\ tail \in Place
  BY EventQueueAssumption DEF QInv, QTypeOK
<1>2. Pending = [i \in 1 .. count |-> queue[Cell(tail, i)]]
  BY DEF Pending, Cell
<1>3. \A i \in 1 .. count : queue[Cell(tail, i)] \in Event
  BY DEF QInv
<1> QED
  BY <1>1, <1>2, <1>3

LEMMA AppendIs ==
    ASSUME NEW S, NEW s \in Seq(S), NEW e \in S, NEW c \in Nat, Len(s) = c
    PROVE  Append(s, e) = [n \in 1 .. c + 1 |-> IF n = c + 1 THEN e ELSE s[n]]
<1> DEFINE a == Append(s, e)
<1>1. a \in Seq(S) /\ Len(a) = c + 1 /\ \A n \in 1 .. c : a[n] = s[n]
  BY AppendProperties
<1>2. a[c + 1] = e
  BY AppendProperties
<1> HIDE DEF a
<1>3. a = [n \in 1 .. c + 1 |-> a[n]]
  BY <1>1
<1>4. \A n \in 1 .. c + 1 : n # c + 1 => n \in 1 .. c
  OBVIOUS
<1>5. \A n \in 1 .. c + 1 : a[n] = IF n = c + 1 THEN e ELSE s[n]
  BY <1>1, <1>2, <1>4
<1> QED
  BY <1>3, <1>5 DEF a

LEMMA AddPosts ==
    ASSUME QInv, NEW e \in Event, AddEvent(e)
    PROVE  QInv' /\ Log!Post(e)
<1>1. /\ count \in Nat /\ count <= QUEUE_SIZE /\ tail \in Place /\ head \in Place
      /\ queue \in [Place -> Event \cup {NoEvent}] /\ head = Cell(tail, count + 1)
  BY PendingIs DEF QInv, QTypeOK
<1>2. /\ QUEUE_SIZE \in Nat /\ QUEUE_SIZE > 0
      /\ Cell(tail, 1) = tail /\ Cell(tail, QUEUE_SIZE + 1) = tail
      /\ \A i, j \in 1 .. QUEUE_SIZE : Cell(tail, i) = Cell(tail, j) => i = j
      /\ \A i \in 1 .. QUEUE_SIZE : Wrap(Cell(tail, i) + 1) = Cell(tail, i + 1)
      /\ \A i \in 1 .. QUEUE_SIZE : Cell(Cell(tail, 2), i) = Cell(tail, i + 1)
  BY <1>1, CellsOf
<1>3. \A i \in 1 .. QUEUE_SIZE + 1 : Cell(tail, i) \in Place
  BY <1>1, CellIs
<1>4. /\ queue' = [queue EXCEPT ![head] = e] /\ head' = Wrap(head + 1) /\ fetched' = <<>>
  BY DEF AddEvent
<1>5. /\ Pending \in Seq(Event) /\ Len(Pending) = count
      /\ \A i \in 1 .. count : Pending[i] = queue[Cell(tail, i)] /\ Pending[i] \in Event
  BY PendingIs
<1>6. queue' \in [Place -> Event \cup {NoEvent}]
  BY <1>1, <1>4
<1>7. fetched' \in Seq(Event)
  BY <1>4
<1>8. CASE count < QUEUE_SIZE
  <2>1. tail' = tail /\ count' = count + 1
    BY <1>1, <1>2, <1>8 DEF AddEvent
  <2>2. count + 1 \in 1 .. QUEUE_SIZE
    BY <1>1, <1>2, <1>8
  <2>3. head' = Cell(tail, (count + 1) + 1)
    BY <1>1, <1>2, <1>4, <2>2
  <2>4. ASSUME NEW i \in 1 .. count + 1
        PROVE  queue'[Cell(tail, i)] = IF i <= count THEN Pending[i] ELSE e
    <3>1. i \in 1 .. QUEUE_SIZE /\ i <= count => Cell(tail, i) # head
      BY <1>1, <1>2, <2>2
    <3>2. i \in 1 .. QUEUE_SIZE /\ Cell(tail, i) \in Place
      BY <1>1, <1>2, <1>3, <2>2
    <3>3. CASE i <= count
      <4>1. i \in 1 .. count
        BY <3>3, <1>1
      <4> QED
        BY <3>1, <3>2, <3>3, <4>1, <1>1, <1>4, <1>5
    <3>4. CASE ~(i <= count)
      <4>1. i = count + 1
        BY <3>4, <1>1
      <4> QED
        BY <3>2, <3>4, <4>1, <1>1, <1>4
    <3> QED
      BY <3>3, <3>4
  <2>5. \A i \in 1 .. count + 1 : queue'[Cell(tail, i)] \in Event
    <3>1. \A i \in 1 .. count + 1 : i <= count => i \in 1 .. count
      BY <1>1
    <3> QED
      BY <2>4, <3>1, <1>5
  <2>6. QInv'
    <3>1. count + 1 \in 0 .. QUEUE_SIZE /\ head' \in Place
      BY <1>1, <1>2, <1>3, <1>8, <2>3
    <3> QED
      BY <3>1, <1>1, <1>6, <1>7, <2>1, <2>3, <2>5 DEF QInv, QTypeOK
  <2>7. Pending' = [i \in 1 .. count + 1 |-> queue'[Cell(tail, i)]]
    BY <2>1 DEF Pending, Cell
  <2>8. Append(Pending, e) = [i \in 1 .. count + 1 |-> IF i = count + 1 THEN e ELSE Pending[i]]
    BY <1>1, <1>5, AppendIs
  <2>9. Pending' = Append(Pending, e)
    <3>1. \A i \in 1 .. count + 1 : i <= count <=> i # count + 1
      BY <1>1
    <3> QED
      BY <2>4, <2>7, <2>8, <3>1
  <2>10. Len(Pending) # QUEUE_SIZE
    BY <1>1, <1>2, <1>5, <1>8
  <2> QED
    BY <2>6, <2>9, <2>10, <1>4 DEF Log!Post
<1>9. CASE count = QUEUE_SIZE
  <2>1. tail' = Wrap(tail + 1) /\ count' = count
    BY <1>1, <1>2, <1>9 DEF AddEvent
  <2>2. head = tail /\ tail' = Cell(tail, 2) /\ head' = tail'
    BY <1>1, <1>2, <1>4, <1>9, <2>1
  <2>3. tail' \in Place /\ \A i \in 1 .. count : Cell(tail', i) = Cell(tail, i + 1)
    BY <1>2, <1>3, <1>9, <2>2
  <2>4. head' = Cell(tail', count' + 1)
    BY <1>9, <2>1, <2>2, <2>3, CellsOf
  <2>5. ASSUME NEW i \in 1 .. count
        PROVE  queue'[Cell(tail', i)] = IF i = count THEN e ELSE Pending[i + 1]
    <3>1. Cell(tail', i) = Cell(tail, i + 1) /\ Cell(tail, i + 1) \in Place
      <4>1. i + 1 \in 1 .. QUEUE_SIZE + 1
        BY <1>2, <1>9
      <4> QED
        BY <1>3, <2>3, <4>1
    <3>2. CASE i = count
      BY <1>1, <1>2, <1>4, <1>9, <2>2, <3>1, <3>2
    <3>3. CASE i # count
      <4>1. i + 1 \in 1 .. count /\ i + 1 # 1 /\ 1 \in 1 .. QUEUE_SIZE
        BY <1>1, <1>2, <3>3
      <4>2. Cell(tail, i + 1) # head
        BY <1>2, <1>9, <2>2, <4>1
      <4> QED
        BY <1>1, <1>4, <1>5, <3>1, <3>3, <4>1, <4>2
    <3> QED
      BY <3>2, <3>3
  <2>6. \A i \in 1 .. count : queue'[Cell(tail', i)] \in Event
    <3>1. \A i \in 1 .. count : i # count => i + 1 \in 1 .. count
      BY <1>1
    <3> QED
      BY <1>5, <2>5, <3>1
  <2>7. QInv'
    BY <1>1, <1>2, <1>6, <1>7, <1>9, <2>1, <2>2, <2>3, <2>4, <2>6 DEF QInv, QTypeOK
  <2>8. Pending' = [i \in 1 .. count |-> queue'[Cell(tail', i)]]
    BY <2>1 DEF Pending, Cell
  <2>9. /\ Tail(Pending) \in Seq(Event) /\ Len(Tail(Pending)) = count - 1
        /\ \A i \in 1 .. count - 1 : Tail(Pending)[i] = Pending[i + 1]
    <3>1. Pending # <<>>
      BY <1>2, <1>5, <1>9
    <3> QED
      BY <1>5, <3>1, HeadTailProperties
  <2>10. Append(Tail(Pending), e)
           = [i \in 1 .. count |-> IF i = count THEN e ELSE Pending[i + 1]]
    <3> DEFINE tl == Tail(Pending)
    <3>1. tl \in Seq(Event) /\ Len(tl) = count - 1
      BY <2>9
    <3>2. \A i \in 1 .. count : i # count => tl[i] = Pending[i + 1]
      BY <1>1, <2>9
    <3> HIDE DEF tl
    <3>3. count - 1 \in Nat /\ (count - 1) + 1 = count
      BY <1>1, <1>2, <1>9
    <3>4. Append(tl, e)
            = [i \in 1 .. (count - 1) + 1 |-> IF i = (count - 1) + 1 THEN e ELSE tl[i]]
      BY <3>1, <3>3, AppendIs
    <3> QED
      BY <3>2, <3>3, <3>4 DEF tl
  <2>11. Pending' = Append(Tail(Pending), e)
    BY <2>5, <2>8, <2>10
  <2> QED
    BY <2>7, <2>11, <1>4, <1>5, <1>9 DEF Log!Post
<1> QED
  BY <1>1, <1>2, <1>8, <1>9

-----------------------------------------------------------------------------
(* The loop of a fetch.                                                    *)

Mine(w) == {i \in 1 .. count : Pending[i].wid = w}
Takes(w, max) == {i \in Mine(w) : Cardinality(UpTo(Mine(w), i)) <= max}

(* What of the first k events is taken, and what stays.                    *)
Gone(w, max, k) == Takes(w, max) \cap (1 .. k)
Stay(w, max, k) == (1 .. k) \ Takes(w, max)

LEMMA OldestAre ==
    ASSUME QInv, NEW w, NEW max
    PROVE  /\ Log!Oldest(w, max) = Takes(w, max)
           /\ DOMAIN Pending = 1 .. count
<1>1. DOMAIN Pending = 1 .. count
  BY DEF Pending
<1>2. \A S : Log!Cardinality(S) = Cardinality(S)
  BY Zenon DEF Log!Cardinality, Cardinality
<1> QED
  BY <1>1, <1>2 DEF Log!Oldest, Takes, Mine, UpTo

LEMMA MineGrows ==
    ASSUME QInv, NEW w, NEW k \in Nat, k < count
    PROVE  /\ Cardinality(UpTo(Mine(w), k)) \in Nat
           /\ k + 1 \in Mine(w) => Cardinality(UpTo(Mine(w), k + 1))
                                     = Cardinality(UpTo(Mine(w), k)) + 1
           /\ k + 1 \notin Mine(w) => UpTo(Mine(w), k + 1) = UpTo(Mine(w), k)
<1> DEFINE M == Mine(w)
<1>1. \A j \in M : j \in Nat /\ j >= 1
  BY PendingIs DEF Mine
<1> HIDE DEF M
<1>2. UpTo(M, k) \in SUBSET (1 .. k)
  BY <1>1 DEF UpTo
<1>3. IsFiniteSet(UpTo(M, k)) /\ Cardinality(UpTo(M, k)) \in Nat
  BY <1>2, FinitePositions
<1>4. ASSUME k + 1 \in M
      PROVE  Cardinality(UpTo(M, k + 1)) = Cardinality(UpTo(M, k)) + 1
  <2>1. UpTo(M, k + 1) = UpTo(M, k) \cup {k + 1}
    BY <1>1, <1>4 DEF UpTo
  <2>2. k + 1 \notin UpTo(M, k)
    BY DEF UpTo
  <2> QED
    BY <1>3, <2>1, <2>2, FS_AddElement
<1>5. ASSUME k + 1 \notin M PROVE UpTo(M, k + 1) = UpTo(M, k)
  <2>1. \A j \in M : j <= k + 1 <=> j <= k
    BY <1>1, <1>5
  <2> QED
    BY <2>1 DEF UpTo
<1> QED
  BY <1>3, <1>4, <1>5 DEF M

LEMMA StillRanked ==
    ASSUME NEW k \in Nat, NEW P, Ranked(P, k)
    PROVE  Ranked(P, k + 1)
<1>1. P \in SUBSET (1 .. k) /\ Cardinality(P) \in Nat /\ Cardinality(P) <= k
  BY DEF Ranked
<1>2. P \in SUBSET (1 .. k + 1) /\ Cardinality(P) <= k + 1
  BY <1>1
<1> QED
  BY <1>1, <1>2 DEF Ranked

Passing == [ring : [Place -> Event \cup {NoEvent}], write_ptr : Place, kept : Nat,
            result : Seq(Event)]

(* After k rounds: the ring holds what stays of the first k events, and    *)
(* the others where they were.                                             *)
Loop(s, k, w, max) ==
    /\ s \in Passing
    /\ Ranked(Gone(w, max, k), k) /\ Ranked(Stay(w, max, k), k)
    /\ s.result = Taken(Pending, Gone(w, max, k))
    /\ Len(s.result) = LET m == Cardinality(UpTo(Mine(w), k)) IN IF m <= max THEN m ELSE max
    /\ s.kept = Cardinality(Stay(w, max, k))
    /\ s.write_ptr = Cell(tail, s.kept + 1)
    /\ \A i \in 1 .. s.kept : s.ring[Cell(tail, i)] = Taken(Pending, Stay(w, max, k))[i]
    /\ \A i \in k + 1 .. count : s.ring[Cell(tail, i)] = Pending[i]

LEMMA RoundKeeps ==
    ASSUME QInv, NEW w, NEW max \in Nat, NEW k \in Nat, k < count, NEW s, Loop(s, k, w, max)
    PROVE  Loop(Round(s, k + 1, w, max), k + 1, w, max)
<1> DEFINE evt == s.ring[Cell(tail, k + 1)]
           m == Cardinality(UpTo(Mine(w), k))
           G == Gone(w, max, k)
           T == Stay(w, max, k)
           r == Round(s, k + 1, w, max)
<1>1. /\ count \in Nat /\ count <= QUEUE_SIZE /\ tail \in Place /\ QUEUE_SIZE \in Nat
      /\ Len(Pending) = count
      /\ \A i \in 1 .. count : Pending[i] = queue[Cell(tail, i)] /\ Pending[i] \in Event
  BY PendingIs, EventQueueAssumption
<1>2. k + 1 \in 1 .. count /\ k + 1 \in k + 1 .. count
  BY <1>1
<1>3. evt = Pending[k + 1] /\ evt \in Event
  BY <1>1, <1>2 DEF Loop
<1>4. /\ s \in Passing /\ Ranked(G, k) /\ Ranked(T, k)
      /\ s.result = Taken(Pending, G) /\ Len(s.result) = IF m <= max THEN m ELSE max
      /\ s.kept = Cardinality(T) /\ s.write_ptr = Cell(tail, s.kept + 1)
      /\ \A i \in 1 .. s.kept : s.ring[Cell(tail, i)] = Taken(Pending, T)[i]
      /\ \A i \in k + 1 .. count : s.ring[Cell(tail, i)] = Pending[i]
  BY DEF Loop
<1>5. s.kept \in Nat /\ s.kept <= k
  BY <1>4 DEF Ranked
<1>6. /\ m \in Nat
      /\ k + 1 \in Mine(w) => Cardinality(UpTo(Mine(w), k + 1)) = m + 1
      /\ k + 1 \notin Mine(w) => Cardinality(UpTo(Mine(w), k + 1)) = m
  BY MineGrows
<1>7. k + 1 \in Mine(w) <=> evt.wid = w
  BY <1>2, <1>3 DEF Mine
<1>8. k + 1 \in Takes(w, max) <=> evt.wid = w /\ Len(s.result) < max
  <2>1. k + 1 \in Takes(w, max) <=> k + 1 \in Mine(w) /\ m + 1 <= max
    BY <1>6 DEF Takes
  <2>2. m + 1 <= max <=> Len(s.result) < max
    BY <1>4, <1>6
  <2> QED
    BY <1>7, <2>1, <2>2
<1>9. r = IF evt.wid = w /\ Len(s.result) < max
          THEN [s EXCEPT !.result = Append(s.result, evt)]
          ELSE [s EXCEPT !.ring = [s.ring EXCEPT ![s.write_ptr] = evt],
                         !.write_ptr = Wrap(s.write_ptr + 1), !.kept = s.kept + 1]
  BY DEF Round, Cell
<1>10. \A i \in G \cup T \cup {k + 1} : Pending[i] \in Event
  <2>1. \A i \in 1 .. k : i \in 1 .. count
    BY <1>1
  <2>2. G \cup T \subseteq 1 .. k
    BY DEF Gone, Stay
  <2> QED
    BY <1>1, <1>2, <2>1, <2>2
<1>11. CASE k + 1 \in Takes(w, max)
  <2>1. Gone(w, max, k + 1) = G \cup {k + 1} /\ Stay(w, max, k + 1) = T
    BY <1>11 DEF Gone, Stay
  <2>2. r = [s EXCEPT !.result = Append(s.result, evt)]
    BY <1>8, <1>9, <1>11
  <2> HIDE DEF evt, m, G, T, r
  <2>3. Ranked(G \cup {k + 1}, k + 1) /\ Ranked(T, k + 1)
    BY <1>4, OneMoreRanked, StillRanked
  <2>4. Taken(Pending, G \cup {k + 1}) = Append(s.result, evt)
    <3>1. /\ Ranked(G, k) /\ s.result = Taken(Pending, G) /\ evt = Pending[k + 1]
          /\ \A i \in G \cup {k + 1} : Pending[i] \in Event
      BY <1>3, <1>4, <1>10
    <3>2. Taken(Pending, G \cup {k + 1}) = Append(Taken(Pending, G), Pending[k + 1])
      BY <3>1, TakenMore
    <3> QED
      BY <3>1, <3>2
  <2>5. s.result \in Seq(Event) /\ Append(s.result, evt) \in Seq(Event)
        /\ Len(Append(s.result, evt)) = Len(s.result) + 1
    BY <1>3, <1>4 DEF Passing
  <2>6. /\ r \in Passing /\ r.result = Append(s.result, evt) /\ r.kept = s.kept
        /\ r.write_ptr = s.write_ptr /\ r.ring = s.ring
    BY <1>4, <2>2, <2>5 DEF Passing
  <2>7. Len(s.result) + 1 = IF m + 1 <= max THEN m + 1 ELSE max
    BY <1>4, <1>6, <1>8, <1>11
  <2>8. Cardinality(UpTo(Mine(w), k + 1)) = m + 1
    BY <1>6, <1>7, <1>8, <1>11
  <2>9. \A i \in (k + 1) + 1 .. count : i \in k + 1 .. count
    BY <1>1
  <2>10. Loop(r, k + 1, w, max)
    BY <1>4, <2>1, <2>3, <2>4, <2>5, <2>6, <2>7, <2>8, <2>9 DEF Loop
  <2> QED
    BY <2>10 DEF r
<1>12. CASE k + 1 \notin Takes(w, max)
  <2>1. Gone(w, max, k + 1) = G /\ Stay(w, max, k + 1) = T \cup {k + 1}
    BY <1>12 DEF Gone, Stay
  <2>2. r = [s EXCEPT !.ring = [s.ring EXCEPT ![s.write_ptr] = evt],
                      !.write_ptr = Wrap(s.write_ptr + 1), !.kept = s.kept + 1]
    BY <1>8, <1>9, <1>12
  <2>3. Len(s.result) = LET n == Cardinality(UpTo(Mine(w), k + 1)) IN IF n <= max THEN n ELSE max
    <3>1. CASE evt.wid = w
      <4>1. ~(Len(s.result) < max) /\ Cardinality(UpTo(Mine(w), k + 1)) = m + 1
        BY <1>6, <1>7, <1>8, <1>12, <3>1
      <4> HIDE DEF m, evt
      <4> QED
        BY <1>4, <1>6, <4>1
    <3>2. CASE evt.wid # w
      BY <1>4, <1>6, <1>7, <3>2
    <3> QED
      BY <3>1, <3>2
  <2> HIDE DEF evt, m, G, T, r
  <2>4. Ranked(G, k + 1) /\ Ranked(T \cup {k + 1}, k + 1)
        /\ Cardinality(T \cup {k + 1}) = s.kept + 1
    <3>1. Ranked(T, k) /\ Ranked(G, k) /\ s.kept = Cardinality(T)
      BY <1>4
    <3>2. Ranked(T \cup {k + 1}, k + 1) /\ Cardinality(T \cup {k + 1}) = Cardinality(T) + 1
      BY <3>1, OneMoreRanked
    <3>3. Ranked(G, k + 1)
      BY <3>1, StillRanked
    <3> QED
      BY <3>1, <3>2, <3>3
  <2>5. /\ Taken(Pending, T) \in Seq(Event) /\ Len(Taken(Pending, T)) = s.kept
        /\ Taken(Pending, T \cup {k + 1}) = Append(Taken(Pending, T), evt)
    <3>1. Ranked(T, k) /\ s.kept = Cardinality(T) /\ evt = Pending[k + 1]
          /\ \A i \in T \cup {k + 1} : Pending[i] \in Event
      BY <1>3, <1>4, <1>10
    <3> DEFINE chosen == T
               log == Pending
    <3>2. k \in Nat /\ Ranked(chosen, k) /\ \A i \in chosen \cup {k + 1} : log[i] \in Event
      BY <3>1
    <3> HIDE DEF chosen, log
    <3>3. /\ Taken(log, chosen) \in Seq(Event) /\ Len(Taken(log, chosen)) = Cardinality(chosen)
          /\ Taken(log, chosen \cup {k + 1}) = Append(Taken(log, chosen), log[k + 1])
      BY <3>2, TakenMore, ZenonT(60)
    <3> QED
      BY <3>1, <3>3 DEF chosen, log
  <2>6. Taken(Pending, T \cup {k + 1})
          = [i \in 1 .. s.kept + 1 |-> IF i = s.kept + 1 THEN evt ELSE Taken(Pending, T)[i]]
    <3> DEFINE tk == Taken(Pending, T)
               kp == s.kept
    <3>1. tk \in Seq(Event) /\ kp \in Nat /\ Len(tk) = kp /\ evt \in Event
      BY <1>3, <1>5, <2>5
    <3> HIDE DEF tk, kp
    <3>2. Append(tk, evt) = [i \in 1 .. kp + 1 |-> IF i = kp + 1 THEN evt ELSE tk[i]]
      BY <3>1, AppendIs
    <3> QED
      BY <2>5, <3>2 DEF tk, kp
  <2>7. /\ \A i, j \in 1 .. QUEUE_SIZE : Cell(tail, i) = Cell(tail, j) => i = j
        /\ \A i \in 1 .. QUEUE_SIZE : Wrap(Cell(tail, i) + 1) = Cell(tail, i + 1)
        /\ \A i \in 1 .. QUEUE_SIZE + 1 : Cell(tail, i) \in Place
    BY <1>1, CellsOf, CellIs
  <2>8. s.kept + 1 \in 1 .. QUEUE_SIZE /\ (s.kept + 1) + 1 \in 1 .. QUEUE_SIZE + 1
    BY <1>1, <1>5
  <2>9. Wrap(s.write_ptr + 1) = Cell(tail, (s.kept + 1) + 1)
    BY <1>4, <2>7, <2>8
  <2>10. /\ r \in Passing /\ r.result = s.result /\ r.kept = s.kept + 1
         /\ r.write_ptr = Cell(tail, (s.kept + 1) + 1)
         /\ r.ring = [s.ring EXCEPT ![s.write_ptr] = evt]
    <3>1. [s.ring EXCEPT ![s.write_ptr] = evt] \in [Place -> Event \cup {NoEvent}]
      BY <1>3, <1>4 DEF Passing
    <3>2. Cell(tail, (s.kept + 1) + 1) \in Place
      BY <2>7, <2>8
    <3>3. s.kept + 1 \in Nat /\ s.result \in Seq(Event)
      BY <1>4, <1>5 DEF Passing
    <3>4. s = [ring |-> s.ring, write_ptr |-> s.write_ptr, kept |-> s.kept, result |-> s.result]
      BY <1>4 DEF Passing
    <3>5. r = [ring |-> [s.ring EXCEPT ![s.write_ptr] = evt],
               write_ptr |-> Cell(tail, (s.kept + 1) + 1), kept |-> s.kept + 1,
               result |-> s.result]
      BY <2>2, <2>9, <3>4
    <3> QED
      BY <3>1, <3>2, <3>3, <3>5 DEF Passing
  <2>11. ASSUME NEW i \in 1 .. QUEUE_SIZE
         PROVE  r.ring[Cell(tail, i)] = IF i = s.kept + 1 THEN evt ELSE s.ring[Cell(tail, i)]
    <3>1. Cell(tail, i) \in Place /\ s.ring \in [Place -> Event \cup {NoEvent}]
      BY <1>1, <1>4, <2>7 DEF Passing
    <3>2. Cell(tail, i) = s.write_ptr <=> i = s.kept + 1
      BY <1>4, <2>7, <2>8
    <3> QED
      BY <2>10, <3>1, <3>2
  <2>12. ASSUME NEW i \in 1 .. s.kept + 1
         PROVE  r.ring[Cell(tail, i)] = Taken(Pending, T \cup {k + 1})[i]
    <3> DEFINE kp == s.kept
    <3>0. kp \in Nat /\ kp + 1 \in 1 .. QUEUE_SIZE /\ i \in 1 .. kp + 1
      BY <1>5, <2>8
    <3> HIDE DEF kp
    <3>1. i \in 1 .. QUEUE_SIZE /\ (i # kp + 1 => i \in 1 .. kp)
      BY <1>1, <3>0
    <3> QED
      BY <1>4, <2>6, <2>11, <3>1 DEF kp
  <2>13. ASSUME NEW i \in (k + 1) + 1 .. count
         PROVE  r.ring[Cell(tail, i)] = Pending[i]
    <3>1. i \in 1 .. QUEUE_SIZE /\ i # s.kept + 1 /\ i \in k + 1 .. count
      BY <1>1, <1>5
    <3> QED
      BY <1>4, <2>11, <3>1
  <2>14. Loop(r, k + 1, w, max)
    BY <1>4, <2>1, <2>3, <2>4, <2>10, <2>12, <2>13 DEF Loop
  <2> QED
    BY <2>14 DEF r
<1> QED
  BY <1>11, <1>12

Rounds(W, n, w, max) ==
    [k \in 0 .. n |-> IF k = 0 THEN Begin ELSE Round(W[k - 1], k, w, max)]

(* The loop has any number of rounds: none is the least without.           *)
LEMMA RoundsExist ==
    ASSUME NEW n \in Nat, NEW w, NEW max
    PROVE  \E W : W = Rounds(W, n, w, max)
<1> DEFINE Without == {m \in Nat : ~\E W : W = Rounds(W, m, w, max)}
<1>1. SUFFICES ASSUME Without # {} PROVE FALSE
  OBVIOUS
<1>2. PICK m \in Without : \A y \in Without : m <= y
  BY <1>1, LeastOf
<1>3. m # 0
  <2> DEFINE W == [k \in 0 .. 0 |-> Begin]
  <2>1. W = Rounds(W, 0, w, max)
    BY DEF Rounds
  <2> QED
    BY <2>1, <1>2
<1>4. m - 1 \in Nat /\ m - 1 \notin Without /\ m \in Nat
  BY <1>2, <1>3
<1>5. PICK W : W = Rounds(W, m - 1, w, max)
  BY <1>4
<1> DEFINE V == [k \in 0 .. m |-> IF k < m THEN W[k] ELSE Round(W[m - 1], m, w, max)]
<1>6. ASSUME NEW k \in 0 .. m
      PROVE  V[k] = IF k = 0 THEN Begin ELSE Round(V[k - 1], k, w, max)
  <2>1. \A e \in 0 .. m - 1 : W[e] = IF e = 0 THEN Begin ELSE Round(W[e - 1], e, w, max)
    BY <1>5 DEF Rounds
  <2>2. CASE k = m
    <3>1. V[k - 1] = W[m - 1] /\ V[k] = Round(W[m - 1], k, w, max) /\ k # 0
      BY <2>2, <1>3, <1>4
    <3> QED
      BY <3>1
  <2>3. CASE k < m
    <3>1. V[k] = W[k] /\ k \in 0 .. m - 1
      BY <2>3, <1>4
    <3>2. k # 0 => V[k - 1] = W[k - 1]
      BY <2>3, <1>4
    <3> QED
      BY <3>1, <3>2, <2>1
  <2> QED
    BY <2>2, <2>3, <1>4
<1>7. V = Rounds(V, m, w, max)
  BY <1>6 DEF Rounds
<1> QED
  BY <1>7, <1>2

LEMMA BeginLoops ==
    ASSUME QInv, NEW w, NEW max \in Nat
    PROVE  Loop(Begin, 0, w, max)
<1> DEFINE G == Gone(w, max, 0)
           T == Stay(w, max, 0)
<1>1. G = {} /\ T = {}
  BY DEF Gone, Stay
<1>2. Ranked({}, 0) /\ Cardinality({}) = 0
  BY NoneRanked, FS_EmptySet
<1>3. Taken(Pending, {}) = <<>>
  BY <1>2 DEF Taken
<1>4. UpTo(Mine(w), 0) = {}
  BY PendingIs DEF UpTo, Mine
<1>5. /\ tail \in Place /\ queue \in [Place -> Event \cup {NoEvent}]
      /\ \A i \in 1 .. count : queue[Cell(tail, i)] = Pending[i]
  BY PendingIs DEF QInv, QTypeOK
<1>6. Begin \in Passing
  BY <1>5 DEF Begin, Passing
<1>7. tail = Cell(tail, 0 + 1)
  BY <1>5, CellsOf
<1> HIDE DEF G, T
<1>8. /\ Begin.result = <<>> /\ Begin.kept = 0 /\ Begin.write_ptr = tail /\ Begin.ring = queue
      /\ Len(Begin.result) = 0
  BY DEF Begin
<1>9. /\ Begin.result = Taken(Pending, G) /\ Begin.kept = Cardinality(T)
      /\ Begin.write_ptr = Cell(tail, Begin.kept + 1)
      /\ Ranked(G, 0) /\ Ranked(T, 0)
  BY <1>1, <1>2, <1>3, <1>7, <1>8
<1>10. Len(Begin.result) = LET m == Cardinality(UpTo(Mine(w), 0)) IN IF m <= max THEN m ELSE max
  <2>1. Cardinality(UpTo(Mine(w), 0)) = 0
    BY <1>2, <1>4
  <2> QED
    BY <1>8, <2>1
<1>11. \A i \in 1 .. Begin.kept : Begin.ring[Cell(tail, i)] = Taken(Pending, T)[i]
  BY <1>8
<1>12. \A i \in 0 + 1 .. count : Begin.ring[Cell(tail, i)] = Pending[i]
  BY <1>5, <1>8
<1> QED
  BY <1>6, <1>9, <1>10, <1>11, <1>12 DEF Loop, G, T

LEMMA PassIs ==
    ASSUME QInv, NEW w, NEW max \in Nat
    PROVE  Loop(Pass(w, max), count, w, max)
<1> DEFINE Step == CHOOSE W : W = Rounds(W, count, w, max)
<1>1. count \in Nat
  BY PendingIs
<1>2. Pass(w, max) = Step[count]
  BY Zenon DEF Pass, Rounds
<1>3. Step = Rounds(Step, count, w, max)
  BY <1>1, RoundsExist, Zenon
<1> HIDE DEF Step
<1>4. \A k \in 0 .. count : Step[k] = IF k = 0 THEN Begin ELSE Round(Step[k - 1], k, w, max)
  BY <1>3, Zenon DEF Rounds
<1> DEFINE Bad == {k \in 0 .. count : ~Loop(Step[k], k, w, max)}
<1>5. Bad = {}
  <2>1. SUFFICES ASSUME Bad # {} PROVE FALSE
    OBVIOUS
  <2>2. Bad \in SUBSET Nat
    BY <1>1
  <2>3. PICK m \in Bad : \A y \in Bad : m <= y
    BY <2>1, <2>2, LeastOf
  <2>4. m \in Nat /\ m <= count /\ m \in 0 .. count
    BY <1>1, <2>3
  <2>5. m # 0
    BY <1>4, <2>3, <2>4, BeginLoops
  <2> DEFINE j == m - 1
  <2>6. j \in Nat /\ j < count /\ j + 1 = m /\ j \in 0 .. count /\ ~(m <= j)
    BY <1>1, <2>4, <2>5
  <2> HIDE DEF j
  <2>7. Loop(Step[j], j, w, max)
    BY <2>3, <2>6
  <2>8. Step[m] = Round(Step[j], m, w, max)
    BY <1>4, <2>4, <2>5 DEF j
  <2>9. Loop(Round(Step[j], j + 1, w, max), j + 1, w, max)
    BY <2>6, <2>7, RoundKeeps
  <2> QED
    BY <2>3, <2>6, <2>8, <2>9
<1>6. count \in 0 .. count
  BY <1>1
<1> QED
  BY <1>2, <1>5, <1>6

LEMMA FetchFetches ==
    ASSUME QInv, NEW w \in Window, NEW max \in 0 .. MaxFetch, GetAndRemoveEvents(w, max)
    PROVE  QInv' /\ Log!Fetch(w, max)
<1> DEFINE s == Pass(w, max)
           G == Gone(w, max, count)
           T == Stay(w, max, count)
<1>1. max \in Nat
  BY EventQueueAssumption
<1>2. /\ s \in Passing /\ Ranked(G, count) /\ Ranked(T, count)
      /\ s.result = Taken(Pending, G) /\ s.kept = Cardinality(T)
      /\ s.write_ptr = Cell(tail, s.kept + 1)
      /\ \A i \in 1 .. s.kept : s.ring[Cell(tail, i)] = Taken(Pending, T)[i]
  BY <1>1, PassIs DEF Loop
<1>3. /\ queue' = s.ring /\ head' = s.write_ptr /\ count' = s.kept /\ fetched' = s.result
      /\ tail' = tail
  BY DEF GetAndRemoveEvents
<1>4. /\ count \in Nat /\ count <= QUEUE_SIZE /\ tail \in Place /\ QUEUE_SIZE \in Nat
      /\ \A i \in 1 .. count : Pending[i] \in Event
  BY PendingIs, EventQueueAssumption
<1>5. Takes(w, max) \in SUBSET (1 .. count)
  BY DEF Takes, Mine
<1>6. G = Takes(w, max) /\ T = (1 .. count) \ Takes(w, max)
  BY <1>5 DEF Gone, Stay
<1> HIDE DEF s, G, T
<1>7. s.kept \in Nat /\ s.kept <= QUEUE_SIZE
  BY <1>2, <1>4 DEF Ranked
<1>8. Taken(Pending, T) = [n \in 1 .. s.kept |-> Taken(Pending, T)[n]]
  BY <1>2 DEF Taken
<1>9. ASSUME NEW n \in 1 .. s.kept PROVE Taken(Pending, T)[n] \in Event
  <2>1. Taken(Pending, T)[n] = Pending[Nth(T, n)]
    BY <1>2 DEF Taken
  <2>2. Nth(T, n) \in T
    BY <1>2, <1>4, NthExists
  <2>3. T \subseteq 1 .. count
    BY <1>6
  <2> QED
    BY <1>4, <2>1, <2>2, <2>3
<1>10. QInv'
  <2>1. \A i \in 1 .. count' : queue'[Cell(tail', i)] \in Event
    BY <1>2, <1>3, <1>9
  <2>2. head' = Cell(tail', count' + 1)
    BY <1>2, <1>3
  <2>3. QTypeOK'
    BY <1>2, <1>3, <1>4, <1>7 DEF QTypeOK, Passing
  <2> QED
    BY <2>1, <2>2, <2>3 DEF QInv
<1>11. Pending' = Taken(Pending, T)
  <2>1. Pending' = [n \in 1 .. s.kept |-> s.ring[Cell(tail, n)]]
    BY <1>3 DEF Pending, Cell
  <2> QED
    BY <1>2, <1>8, <2>1
<1>12. /\ Log!Oldest(w, max) = G /\ DOMAIN Pending \ G = T
       /\ Log!At(Pending, G) = Taken(Pending, G) /\ Log!At(Pending, T) = Taken(Pending, T)
  BY <1>6, OldestAre, TakenIsAt
<1>13. Log!Fetch(w, max)
  BY <1>2, <1>3, <1>11, <1>12 DEF Log!Fetch
<1> QED
  BY <1>10, <1>13

LEMMA QInitLogs == QInit => QInv /\ Log!Init
<1> SUFFICES ASSUME QInit PROVE QInv /\ Log!Init
  OBVIOUS
<1>1. 0 \in Place /\ 0 \in 0 .. QUEUE_SIZE
  BY EventQueueAssumption DEF Place
<1>2. Cell(0, 0 + 1) = 0
  BY <1>1, CellsOf
<1>3. QTypeOK
  BY <1>1 DEF QInit, QTypeOK
<1>4. QInv
  BY <1>2, <1>3 DEF QInit, QInv
<1>5. Pending = <<>>
  BY DEF QInit, Pending
<1> QED
  BY <1>4, <1>5 DEF QInit, Log!Init

LEMMA QStepLogs == QInv /\ [QNext]_qvars => QInv' /\ [Log!Next]_(Log!lvars)
<1> SUFFICES ASSUME QInv, [QNext]_qvars PROVE QInv' /\ [Log!Next]_(Log!lvars)
  OBVIOUS
<1>1. ASSUME NEW e \in Event, AddEvent(e) PROVE QInv' /\ Log!Next
  <2>1. e \in Log!Event
    BY DEF Event, Log!Event
  <2> QED
    BY <1>1, <2>1, AddPosts DEF Log!Next
<1>2. ASSUME NEW w \in Window, NEW max \in 0 .. MaxFetch, GetAndRemoveEvents(w, max)
      PROVE  QInv' /\ Log!Next
  BY <1>2, FetchFetches DEF Log!Next
<1>3. CASE UNCHANGED qvars
  BY <1>3 DEF qvars, QInv, QTypeOK, Cell, Wrap, Pending, Log!lvars
<1> QED
  BY <1>1, <1>2, <1>3 DEF QNext

(* Indices, events and results keep their types (EventQueue).              *)
THEOREM EventQueueTypes == QSpec => []QTypeOK
<1>1. QInv => QTypeOK
  BY DEF QInv
<1> QED
  BY <1>1, QInitLogs, QStepLogs, PTL DEF QSpec

(* Whatever is compacted in place, also across the end of the ring, a      *)
(* fetch hands out the oldest events of its window in their order and      *)
(* leaves all others in theirs, and only a full ring forgets an event, its *)
(* oldest (add_event, get_and_remove_events).                              *)
THEOREM EventQueueImplementsLog == QSpec => ImplementsLog
  BY QInitLogs, QStepLogs, PTL DEF QSpec, ImplementsLog, Log!Spec
=============================================================================
