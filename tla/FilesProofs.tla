----------------------------- MODULE FilesProofs -----------------------------
(***************************************************************************)
(* For any number of tasks, descriptors and handles, no descriptor dangles *)
(* and a pipe is marked closed exactly when one of its handles is gone.    *)
(***************************************************************************)
EXTENDS Files, FiniteSetTheorems, WellFoundedInduction, TLAPS

-----------------------------------------------------------------------------
(* Operators.                                                              *)

LEMMA LowestIn ==
    ASSUME NEW S \in SUBSET Nat, S # {}
    PROVE  Lowest(S) \in S
<1> DEFINE R == {ss \in Nat \X Nat : ss[1] < ss[2]}
<1>1. IsWellFoundedOn(R, Nat)
  BY NatLessThanWellFounded DEF OpToRel
<1>2. PICK x \in S : \A y \in S : <<y, x>> \notin R
  BY <1>1, WFMin, Zenon
<1>3. ASSUME NEW y \in S PROVE x <= y
  <2>1. /\ <<y, x>> \in Nat \X Nat
        /\ <<y, x>>[1] = y /\ <<y, x>>[2] = x
    OBVIOUS
  <2>2. ~(y < x)
    BY <1>2, <2>1
  <2> QED
    BY <2>2
<1> QED
  BY <1>3 DEF Lowest

(* A descriptor set is finite, and so is the part of it that names g. *)
LEMMA NamingFinite ==
    ASSUME NEW S \in SUBSET Descriptor, NEW g
    PROVE  /\ IsFiniteSet(Naming(S, g))
           /\ Cardinality(Naming(S, g)) \in Nat
<1>1. IsFiniteSet(Task) /\ IsFiniteSet(Fd)
  BY FilesAssumption, FS_Interval DEF Task, Fd
<1>2. IsFiniteSet(Descriptor)
  BY <1>1, FS_Product DEF Descriptor
<1>3. Naming(S, g) \in SUBSET Descriptor
  BY DEF Naming
<1> QED
  BY <1>2, <1>3, FS_Subset, FS_CardinalityType

(* Bounds on the size of a set that grew. *)
LEMMA SingletonBound ==
    ASSUME NEW x, NEW S \in SUBSET {x}
    PROVE  Cardinality(S) \in Nat /\ Cardinality(S) <= 1
<1>1. IsFiniteSet({x}) /\ Cardinality({x}) = 1
  BY FS_Singleton
<1> QED
  BY <1>1, FS_Subset, FS_CardinalityType

LEMMA AtLeastTwo ==
    ASSUME NEW S, Cardinality(S) >= 2, NEW x
    PROVE  S # {} /\ S \ {x} # {}
<1>1. Cardinality({}) = 0 /\ Cardinality({x}) = 1
  BY FS_EmptySet, FS_Singleton
<1>2. S # {} /\ S # {x}
  BY <1>1
<1> QED
  BY <1>2

LEMMA UnionBound ==
    ASSUME NEW A, NEW B, IsFiniteSet(A), IsFiniteSet(B),
           NEW S \in SUBSET (A \cup B)
    PROVE  /\ Cardinality(S) \in Nat
           /\ Cardinality(S) <= Cardinality(A) + Cardinality(B)
<1>1. /\ Cardinality(A) \in Nat /\ Cardinality(B) \in Nat
      /\ Cardinality(A \cap B) \in Nat
  BY FS_CardinalityType, FS_Intersection
<1>2. /\ IsFiniteSet(A \cup B)
      /\ Cardinality(A \cup B)
           = Cardinality(A) + Cardinality(B) - Cardinality(A \cap B)
  BY FS_Union
<1>3. Cardinality(S) \in Nat /\ Cardinality(S) <= Cardinality(A \cup B)
  BY <1>2, FS_Subset, FS_CardinalityType
<1> QED
  BY <1>1, <1>2, <1>3

-----------------------------------------------------------------------------
(* The inductive invariant: besides the properties themselves it says that *)
(* a handle of a pipe is one of the two the pipe is known by.              *)

EndsKnown ==
    \A g \in Global, p \in Pipes :
        file[g] = p => /\ p[1] # p[2]
                       /\ g \in {p[1], p[2]}

IInv == TypeOK /\ RefsCounted /\ EndsKnown /\ ClosedIffEndGone

(* close_file on a set of descriptors takes each count down by the number  *)
(* of those descriptors.                                                   *)
LEMMA CloseCounts ==
    ASSUME IInv, NEW S \in SUBSET Descriptor, CloseDescriptors(S),
           NEW g \in Global
    PROVE  /\ refcount'[g] = refcount[g] - Cardinality(Naming(S, g))
           /\ Refs(g)' = Refs(g) - Cardinality(Naming(S, g))
           /\ Cardinality(Naming(S, g)) <= Refs(g)
           /\ g \in Dropped(S) => refcount'[g] = 0
           /\ g \notin Dropped(S) /\ refcount[g] > 0 => refcount'[g] > 0
<1> DEFINE N == Naming(S, g)
           A == Naming(Descriptor, g)
<1>1. N \subseteq A /\ A \cap N = N
  BY DEF Naming
<1>2. /\ IsFiniteSet(A) /\ IsFiniteSet(N)
      /\ Cardinality(A) \in Nat /\ Cardinality(N) \in Nat
  BY NamingFinite
<1>3. Cardinality(N) <= Cardinality(A)
  BY <1>1, <1>2, FS_Subset
<1>4. Cardinality(A) <= refcount[g] /\ refcount[g] \in Nat
  BY DEF IInv, RefsCounted, Refs, TypeOK
<1>5. refcount'[g] = refcount[g] - Cardinality(N)
  <2>1. refcount'[g] = IF Cardinality(N) >= refcount[g] THEN 0
                       ELSE refcount[g] - Cardinality(N)
    BY DEF CloseDescriptors
  <2> QED
    BY <1>2, <1>3, <1>4, <2>1
<1>6. Naming(Descriptor, g)' = A \ N
  <2>1. \A d \in Descriptor :
            fd_table'[d[1]][d[2]] = IF d \in S THEN None
                                    ELSE fd_table[d[1]][d[2]]
    BY DEF CloseDescriptors, Descriptor
  <2>2. g # None
    BY FilesAssumption DEF Global, None
  <2> QED
    BY <2>1, <2>2 DEF Naming
<1>7. Cardinality(A \ N) = Cardinality(A) - Cardinality(N)
  BY <1>1, <1>2, FS_Difference
<1> QED
  BY <1>2, <1>3, <1>4, <1>5, <1>6, <1>7 DEF Refs, Dropped
(* Closing descriptors keeps every part of the invariant that is about the *)
(* open-file table; what Inv says of the tasks is left to the caller.      *)
LEMMA CloseKeeps ==
    ASSUME IInv, NEW S \in SUBSET Descriptor, CloseDescriptors(S)
    PROVE  /\ fd_table' \in [Task -> [Fd -> Global \cup {None}]]
           /\ file' \in [Global -> {NoFile, Regular} \cup Pipes]
           /\ refcount' \in [Global -> 0 .. MaxRef]
           /\ closed' \subseteq Pipes
           /\ RefsCounted' /\ EndsKnown' /\ ClosedIffEndGone'
<1> USE DEF IInv
<1>1. fd_table' \in [Task -> [Fd -> Global \cup {None}]]
  BY DEF CloseDescriptors, TypeOK
<1>2. file' \in [Global -> {NoFile, Regular} \cup Pipes]
  BY DEF CloseDescriptors, TypeOK
<1>3. refcount' \in [Global -> 0 .. MaxRef]
  <2>1. refcount' = [g \in Global |-> refcount'[g]]
    BY DEF CloseDescriptors
  <2>2. ASSUME NEW g \in Global PROVE refcount'[g] \in 0 .. MaxRef
    <3>1. /\ refcount'[g] = refcount[g] - Cardinality(Naming(S, g))
          /\ Cardinality(Naming(S, g)) <= Refs(g)
      BY CloseCounts
    <3>2. Cardinality(Naming(S, g)) \in Nat /\ Refs(g) \in Nat
      BY NamingFinite DEF Refs
    <3>3. refcount[g] \in 0 .. MaxRef /\ Refs(g) <= refcount[g]
      BY DEF TypeOK, RefsCounted
    <3> QED
      BY <3>1, <3>2, <3>3, FilesAssumption
  <2> QED
    BY <2>1, <2>2
<1>4. closed' \subseteq Pipes
  BY DEF CloseDescriptors, ShutBy, TypeOK
<1>5. \A g \in Global : file'[g] = IF g \in Dropped(S) THEN NoFile ELSE file[g]
  BY DEF CloseDescriptors
<1>6. RefsCounted'
  <2> SUFFICES ASSUME NEW g \in Global
               PROVE  /\ Refs(g)' <= refcount'[g]
                      /\ file'[g] = NoFile <=> refcount'[g] = 0
    BY DEF RefsCounted
  <2>1. Refs(g) \in Nat /\ Cardinality(Naming(S, g)) \in Nat
    BY NamingFinite DEF Refs
  <2>2. /\ Refs(g) <= refcount[g] /\ refcount[g] \in Nat
        /\ file[g] = NoFile <=> refcount[g] = 0
    BY DEF RefsCounted, TypeOK
  <2>3. Refs(g)' <= refcount'[g]
    BY <2>1, <2>2, CloseCounts
  <2>4. file'[g] = NoFile <=> refcount'[g] = 0
    <3>1. CASE g \in Dropped(S)
      BY <1>5, <3>1, CloseCounts
    <3>2. CASE g \notin Dropped(S) /\ refcount[g] = 0
      BY <1>5, <2>1, <2>2, <3>2, CloseCounts
    <3>3. CASE g \notin Dropped(S) /\ refcount[g] > 0
      BY <1>5, <2>2, <3>3, CloseCounts
    <3> QED
      BY <2>2, <3>1, <3>2, <3>3
  <2> QED
    BY <2>3, <2>4
<1>7. EndsKnown'
  BY <1>5, FilesAssumption DEF EndsKnown
<1>8. ClosedIffEndGone'
  <2> SUFFICES ASSUME NEW p \in Pipes
               PROVE  p \in closed' <=> (file'[p[1]] = p) # (file'[p[2]] = p)
    BY DEF ClosedIffEndGone
  <2> DEFINE kept == \E g \in Global \ Dropped(S) : file[g] = p
             lost == \E g \in Dropped(S) : file[g] = p
  <2>1. p[1] \in Global /\ p[2] \in Global /\ p # NoFile
    BY FilesAssumption DEF Pipes
  <2>2. p \in closed' <=> kept /\ (lost \/ p \in closed)
    BY DEF CloseDescriptors, ShutBy
  <2>3. p \in closed <=> (file[p[1]] = p) # (file[p[2]] = p)
    BY DEF ClosedIffEndGone
  <2>4. \A g \in Global : file[g] = p => g \in {p[1], p[2]} /\ p[1] # p[2]
    BY DEF EndsKnown
  <2>5. Dropped(S) \subseteq Global
    BY DEF Dropped
  <2>6. /\ file'[p[1]] = p <=> p[1] \notin Dropped(S) /\ file[p[1]] = p
        /\ file'[p[2]] = p <=> p[2] \notin Dropped(S) /\ file[p[2]] = p
    BY <1>5, <2>1
  <2>7. /\ kept <=> (file'[p[1]] = p \/ file'[p[2]] = p)
        /\ lost <=> \/ p[1] \in Dropped(S) /\ file[p[1]] = p
                    \/ p[2] \in Dropped(S) /\ file[p[2]] = p
    BY <2>1, <2>4, <2>5, <2>6
  <2> QED
    BY <2>2, <2>3, <2>4, <2>6, <2>7, <2>1
<1> QED
  BY <1>1, <1>2, <1>3, <1>4, <1>6, <1>7, <1>8
(* kill_process on any set of tasks. *)
LEMMA KillKeeps ==
    ASSUME IInv, NEW victims \in SUBSET Task, Kill(victims),
           current' \in Task \cup {None}, halted' \in BOOLEAN
    PROVE  IInv'
<1>1. (victims \cap Alive) \X Fd \in SUBSET Descriptor
  BY DEF Descriptor
<1>2. CloseDescriptors((victims \cap Alive) \X Fd)
  BY DEF Kill
<1>3. state' \in [Task -> TaskState]
  BY DEF Kill, IInv, TypeOK, TaskState
<1> QED
  BY <1>1, <1>2, <1>3, CloseKeeps DEF IInv, TypeOK

-----------------------------------------------------------------------------
(* Opening.                                                                *)

(* Descriptors of one task that were free are given handles: the naming    *)
(* sets of those handles grow by exactly those descriptors.                *)
LEMMA OpenKeeps == ASSUME IInv, Open PROVE IInv'
<1> DEFINE g == Lowest(FreeGlobals)
           l == Lowest(FreeFds(current))
<1>1. g \in FreeGlobals /\ g \in Global /\ file[g] = NoFile
  <2>1. FreeGlobals \in SUBSET Nat /\ FreeGlobals # {}
    BY FilesAssumption DEF Open, FreeGlobals, Global
  <2> QED
    BY <2>1, LowestIn DEF FreeGlobals
<1>2. current \in Task
  BY DEF Open, UserCode
<1>3. FreeFds(current) # {} => l \in Fd /\ fd_table[current][l] = None
  <2>1. FreeFds(current) \in SUBSET Nat
    BY FilesAssumption DEF FreeFds, Fd
  <2> QED
    BY <2>1, LowestIn DEF FreeFds
<1>4. /\ file' = [file EXCEPT ![g] = Regular]
      /\ refcount' = [refcount EXCEPT ![g] = 1]
      /\ fd_table' = IF FreeFds(current) = {} THEN fd_table
                     ELSE [fd_table EXCEPT ![current][l] = g]
      /\ UNCHANGED <<tvars, closed>>
  BY DEF Open
<1> HIDE DEF g, l
<1>5. TypeOK'
  BY <1>1, <1>2, <1>3, <1>4, FilesAssumption DEF IInv, TypeOK, tvars
<1>6. RefsCounted'
  <2> SUFFICES ASSUME NEW h \in Global
               PROVE  /\ Refs(h)' <= refcount'[h]
                      /\ file'[h] = NoFile <=> refcount'[h] = 0
    BY DEF RefsCounted
  <2>1. Refs(h) <= refcount[h] /\ (file[h] = NoFile <=> refcount[h] = 0)
    BY DEF IInv, RefsCounted
  <2>2. Refs(h) \in Nat /\ IsFiniteSet(Naming(Descriptor, h))
    BY NamingFinite DEF Refs
  <2>3. \A d \in Descriptor : fd_table'[d[1]][d[2]] \in
            {fd_table[d[1]][d[2]]} \cup (IF d = <<current, l>> THEN {g} ELSE {})
    BY <1>2, <1>3, <1>4 DEF Descriptor, IInv, TypeOK
  <2>4. CASE h = g
    <3>1. Naming(Descriptor, h) = {}
      BY <2>1, <2>2, <2>4, <1>1, FS_EmptySet, FilesAssumption
      DEF Refs, IInv, TypeOK
    <3>2. Naming(Descriptor, h)' \in SUBSET {<<current, l>>}
      BY <2>3, <3>1 DEF Naming
    <3>3. Refs(h)' <= 1
      BY <3>2, SingletonBound DEF Refs
    <3>4. file'[h] = Regular /\ refcount'[h] = 1
      BY <1>1, <1>4, <2>4 DEF IInv, TypeOK
    <3> QED
      BY <3>3, <3>4, FilesAssumption
  <2>5. CASE h # g
    <3>1. Naming(Descriptor, h)' \in SUBSET Naming(Descriptor, h)
      BY <2>3, <2>5 DEF Naming
    <3>2. Refs(h)' <= Refs(h) /\ Refs(h)' \in Nat
      BY <2>2, <3>1, FS_Subset, FS_CardinalityType DEF Refs
    <3>3. file'[h] = file[h] /\ refcount'[h] = refcount[h]
      BY <1>4, <2>5 DEF IInv, TypeOK
    <3> QED
      BY <2>1, <2>2, <3>2, <3>3 DEF IInv, TypeOK
  <2> QED
    BY <2>4, <2>5
<1>7. \A h \in Global, p \in Pipes : file'[h] = p <=> file[h] = p
  BY <1>1, <1>4, FilesAssumption DEF IInv, TypeOK
<1>8. EndsKnown' /\ ClosedIffEndGone'
  <2>1. \A p \in Pipes : p[1] \in Global /\ p[2] \in Global
    BY DEF Pipes
  <2> QED
    BY <1>4, <1>7, <2>1 DEF IInv, EndsKnown, ClosedIffEndGone
<1> QED
  BY <1>5, <1>6, <1>8 DEF IInv
(* sys_pipe gives two free handles to two free descriptors. *)
LEMMA PipeKeeps == ASSUME IInv, Pipe PROVE IInv'
<1> DEFINE g1 == Lowest(FreeGlobals)
           g2 == Lowest(FreeGlobals \ {g1})
           l1 == Lowest(FreeFds(current))
           l2 == Lowest(FreeFds(current) \ {l1})
<1>1. current \in Task
  BY DEF Pipe, UserCode
<1>2. /\ FreeGlobals # {} /\ FreeGlobals \ {g1} # {}
      /\ FreeFds(current) # {} /\ FreeFds(current) \ {l1} # {}
  <2>1. Cardinality(FreeGlobals) >= 2 /\ Cardinality(FreeFds(current)) >= 2
    BY DEF Pipe
  <2> QED
    BY <2>1, AtLeastTwo
<1>3. /\ g1 \in Global /\ g2 \in Global /\ g1 # g2
      /\ file[g1] = NoFile /\ file[g2] = NoFile
  <2>1. FreeGlobals \in SUBSET Nat
    BY FilesAssumption DEF FreeGlobals, Global
  <2>2. FreeGlobals \ {g1} \in SUBSET Nat
    BY <2>1
  <2>3. g1 \in FreeGlobals
    BY <1>2, <2>1, LowestIn
  <2>4. g2 \in FreeGlobals \ {g1}
    BY <1>2, <2>2, LowestIn
  <2> QED
    BY <2>3, <2>4 DEF FreeGlobals
<1>4. l1 \in Fd /\ l2 \in Fd /\ l1 # l2
  <2>1. FreeFds(current) \in SUBSET Nat
    BY FilesAssumption DEF FreeFds, Fd
  <2>2. FreeFds(current) \ {l1} \in SUBSET Nat
    BY <2>1
  <2>3. l1 \in FreeFds(current)
    BY <1>2, <2>1, LowestIn
  <2>4. l2 \in FreeFds(current) \ {l1}
    BY <1>2, <2>2, LowestIn
  <2> QED
    BY <2>3, <2>4 DEF FreeFds
<1>5. /\ file' = [file EXCEPT ![g1] = <<g1, g2>>, ![g2] = <<g1, g2>>]
      /\ refcount' = [refcount EXCEPT ![g1] = 1, ![g2] = 1]
      /\ fd_table' = [fd_table EXCEPT ![current][l1] = g1, ![current][l2] = g2]
      /\ UNCHANGED <<tvars, closed>>
  BY DEF Pipe
<1> HIDE DEF g1, g2, l1, l2
<1>6. <<g1, g2>> \in Pipes
  BY <1>3 DEF Pipes
<1>7. TypeOK'
  <2> USE DEF IInv, TypeOK
  <2>1. state' = state /\ current' = current /\ halted' = halted
    BY <1>5 DEF tvars
  <2>2. file' \in [Global -> {NoFile, Regular} \cup Pipes]
    BY <1>5, <1>6
  <2>3. refcount' \in [Global -> 0 .. MaxRef]
    <3>1. 1 \in 0 .. MaxRef
      BY FilesAssumption
    <3> QED
      BY <1>5, <3>1
  <2>4. fd_table' \in [Task -> [Fd -> Global \cup {None}]]
    BY <1>1, <1>3, <1>4, <1>5
  <2> QED
    BY <1>5, <2>1, <2>2, <2>3, <2>4
<1>8. RefsCounted'
  <2> SUFFICES ASSUME NEW h \in Global
               PROVE  /\ Refs(h)' <= refcount'[h]
                      /\ file'[h] = NoFile <=> refcount'[h] = 0
    BY DEF RefsCounted
  <2>1. Refs(h) <= refcount[h] /\ (file[h] = NoFile <=> refcount[h] = 0)
    BY DEF IInv, RefsCounted
  <2>2. Refs(h) \in Nat /\ IsFiniteSet(Naming(Descriptor, h))
    BY NamingFinite DEF Refs
  <2>3. \A d \in Descriptor :
            fd_table'[d[1]][d[2]] = IF d = <<current, l2>> THEN g2
                                    ELSE IF d = <<current, l1>> THEN g1
                                    ELSE fd_table[d[1]][d[2]]
    BY <1>1, <1>4, <1>5 DEF Descriptor, IInv, TypeOK
  <2>4. h \in {g1, g2} => Naming(Descriptor, h) = {}
    BY <2>1, <2>2, <1>3, FS_EmptySet, FilesAssumption DEF Refs, IInv, TypeOK
  <2>5. CASE h = g1
    <3>1. Naming(Descriptor, h)' \in SUBSET {<<current, l1>>}
      BY <1>3, <2>3, <2>4, <2>5 DEF Naming
    <3>2. Refs(h)' <= 1
      BY <3>1, SingletonBound DEF Refs
    <3>3. file'[h] = <<g1, g2>> /\ refcount'[h] = 1
      BY <1>3, <1>5, <2>5 DEF IInv, TypeOK
    <3> QED
      BY <1>6, <3>2, <3>3, FilesAssumption
  <2>6. CASE h = g2
    <3>1. Naming(Descriptor, h)' \in SUBSET {<<current, l2>>}
      BY <1>3, <2>3, <2>4, <2>6 DEF Naming
    <3>2. Refs(h)' <= 1
      BY <3>1, SingletonBound DEF Refs
    <3>3. file'[h] = <<g1, g2>> /\ refcount'[h] = 1
      BY <1>3, <1>5, <2>6 DEF IInv, TypeOK
    <3> QED
      BY <1>6, <3>2, <3>3, FilesAssumption
  <2>7. CASE h \notin {g1, g2}
    <3>1. Naming(Descriptor, h)' \in SUBSET Naming(Descriptor, h)
      BY <2>3, <2>7 DEF Naming
    <3>2. Refs(h)' <= Refs(h) /\ Refs(h)' \in Nat
      BY <2>2, <3>1, FS_Subset, FS_CardinalityType DEF Refs
    <3>3. file'[h] = file[h] /\ refcount'[h] = refcount[h]
      BY <1>5, <2>7 DEF IInv, TypeOK
    <3> QED
      BY <2>1, <2>2, <3>2, <3>3 DEF IInv, TypeOK
  <2> QED
    BY <2>5, <2>6, <2>7
<1>9. EndsKnown' /\ ClosedIffEndGone'
  <2> SUFFICES ASSUME NEW p \in Pipes
               PROVE  /\ \A h \in Global : file'[h] = p => /\ p[1] # p[2]
                                                          /\ h \in {p[1], p[2]}
                      /\ p \in closed' <=> (file'[p[1]] = p) # (file'[p[2]] = p)
    BY DEF EndsKnown, ClosedIffEndGone
  <2>1. p[1] \in Global /\ p[2] \in Global /\ p = <<p[1], p[2]>>
    BY DEF Pipes
  <2>2. \A h \in Global : file[h] = p => p[1] # p[2] /\ h \in {p[1], p[2]}
    BY DEF IInv, EndsKnown
  <2>3. p \in closed <=> (file[p[1]] = p) # (file[p[2]] = p)
    BY DEF IInv, ClosedIffEndGone
  <2>4. closed' = closed /\ p # NoFile
    BY <1>5, FilesAssumption
  <2>5. \A h \in Global : file'[h] = IF h \in {g1, g2} THEN <<g1, g2>> ELSE file[h]
    BY <1>5 DEF IInv, TypeOK
  <2>6. CASE p = <<g1, g2>>
    BY <1>3, <2>1, <2>2, <2>3, <2>4, <2>5, <2>6
  <2>7. CASE p # <<g1, g2>>
    <3>1. \A h \in Global : file'[h] = p <=> file[h] = p
      BY <1>3, <2>4, <2>5, <2>7
    <3> QED
      BY <2>1, <2>2, <2>3, <2>4, <3>1
  <2> QED
    BY <2>6, <2>7
<1> QED
  BY <1>7, <1>8, <1>9 DEF IInv
-----------------------------------------------------------------------------
(* Processes.                                                              *)

(* The descriptors of slot, and the entries of table, that name g once     *)
(* slot has the table.                                                     *)
Named(table, slot, g) == {d \in {slot} \X Fd : table[d[2]] = g}
Entries(table, g)     == {l \in Fd : table[l] = g}

(* increment_ref once per entry of the child's table is enough for the     *)
(* descriptors the child gets, also when an entry occurs twice.            *)
LEMMA GainedBound ==
    ASSUME NEW table \in [Fd -> Global \cup {None}], NEW slot \in Task,
           NEW g \in Global
    PROVE  /\ IsFiniteSet(Named(table, slot, g))
           /\ Cardinality(Named(table, slot, g)) \in Nat
           /\ Cardinality(Entries(table, g)) \in Nat
           /\ Cardinality(Named(table, slot, g)) <= Cardinality(Entries(table, g))
<1> DEFINE D == Named(table, slot, g)
           L == Entries(table, g)
           f == [l \in L |-> <<slot, l>>]
<1>1. IsFiniteSet(Fd)
  BY FilesAssumption, FS_Interval DEF Fd
<1>2. IsFiniteSet(L) /\ Cardinality(L) \in Nat
  BY <1>1, FS_Subset, FS_CardinalityType DEF Entries
<1>3. f \in Surjection(L, D)
  <2>1. f \in [L -> D]
    BY DEF Entries, Named
  <2>2. ASSUME NEW d \in D PROVE \E l \in L : f[l] = d
    <3>1. d[2] \in L /\ d = <<slot, d[2]>>
      BY DEF Entries, Named
    <3> QED
      BY <3>1
  <2> QED
    BY <2>1, <2>2 DEF Surjection
<1>4. IsFiniteSet(D) /\ Cardinality(D) <= Cardinality(L)
  BY <1>2, <1>3, FS_Surjection
<1> QED
  BY <1>2, <1>4, FS_CardinalityType

LEMMA InheritType ==
    ASSUME IInv, NEW m \in [Fd -> Fd \cup {None}]
    PROVE  Inherit(m) \in [Fd -> Global \cup {None}]
  BY DEF Inherit, IInv, TypeOK, None

LEMMA SpawnKeeps ==
    ASSUME IInv, NEW m \in [Fd -> Fd \cup {None}], NEW outcome \in Outcome,
           Spawn(m, outcome)
    PROVE  IInv'
<1> DEFINE slot  == Lowest({t \in Task : state[t] = "Null"})
           table == Inherit(m)
<1>1. slot \in Task
  <2>1. /\ {t \in Task : state[t] = "Null"} \in SUBSET Nat
        /\ {t \in Task : state[t] = "Null"} # {}
    BY FilesAssumption DEF Spawn, Task
  <2> QED
    BY <2>1, LowestIn
<1>2. table \in [Fd -> Global \cup {None}]
  BY InheritType
<1>3. UNCHANGED <<current, halted>>
  BY DEF Spawn
<1>4. CASE outcome = "BadProgram"
  <2>1. state' = [state EXCEPT ![slot] = "Reserved"] /\ UNCHANGED fvars
    BY <1>4 DEF Spawn
  <2>2. state' \in [Task -> TaskState]
    BY <2>1 DEF IInv, TypeOK, TaskState
  <2>3. TypeOK'
    BY <1>3, <2>1, <2>2 DEF IInv, TypeOK, fvars
  <2>4. RefsCounted'
    BY <2>1 DEF IInv, RefsCounted, Refs, Naming, fvars
  <2>5. EndsKnown' /\ ClosedIffEndGone'
    BY <2>1 DEF IInv, EndsKnown, ClosedIffEndGone, fvars
  <2> QED
    BY <2>3, <2>4, <2>5 DEF IInv
<1>5. CASE outcome # "BadProgram"
  <2>1. /\ \A g \in Global : refcount[g] + Gained(table, g) <= MaxRef
        /\ refcount' = [g \in Global |-> refcount[g] + Gained(table, g)]
        /\ fd_table' = [fd_table EXCEPT ![slot] = table]
        /\ state' = IF outcome = "NoMemory" THEN state
                    ELSE [state EXCEPT ![slot] = "Ready"]
        /\ file' = file /\ closed' = closed
    BY <1>5 DEF Spawn
  <2> HIDE DEF slot, table
  <2>2. \A g \in Global : Gained(table, g) \in Nat
    BY <1>1, <1>2, GainedBound DEF Gained, Entries
  <2>3. TypeOK'
    <3>1. state' \in [Task -> TaskState]
      BY <2>1 DEF IInv, TypeOK, TaskState
    <3>2. refcount' \in [Global -> 0 .. MaxRef]
      <4>1. ASSUME NEW g \in Global
            PROVE  refcount[g] + Gained(table, g) \in 0 .. MaxRef
        BY <2>1, <2>2, FilesAssumption DEF IInv, TypeOK
      <4> QED
        BY <2>1, <4>1
    <3>3. fd_table' \in [Task -> [Fd -> Global \cup {None}]]
      BY <1>2, <2>1 DEF IInv, TypeOK
    <3> QED
      BY <1>3, <2>1, <3>1, <3>2, <3>3 DEF IInv, TypeOK
  <2>4. RefsCounted'
    <3> SUFFICES ASSUME NEW g \in Global
                 PROVE  /\ Refs(g)' <= refcount'[g]
                        /\ file'[g] = NoFile <=> refcount'[g] = 0
      BY DEF RefsCounted
    <3> DEFINE A == Naming(Descriptor, g)
               D == Named(table, slot, g)
    <3>1. /\ Refs(g) <= refcount[g] /\ refcount[g] \in Nat
          /\ file[g] = NoFile <=> refcount[g] = 0
      BY DEF IInv, TypeOK, RefsCounted
    <3>2. IsFiniteSet(A) /\ Refs(g) \in Nat /\ Refs(g) = Cardinality(A)
      BY NamingFinite DEF Refs
    <3>3. /\ IsFiniteSet(D) /\ Cardinality(D) \in Nat
          /\ Cardinality(D) <= Cardinality(Entries(table, g))
          /\ Cardinality(Entries(table, g)) \in Nat
      BY <1>1, <1>2, GainedBound
    <3>4. \A d \in Descriptor : fd_table'[d[1]][d[2]] =
              IF d[1] = slot THEN table[d[2]] ELSE fd_table[d[1]][d[2]]
      BY <2>1 DEF Descriptor, IInv, TypeOK
    <3>5. Naming(Descriptor, g)' \in SUBSET (A \cup D)
      BY <3>4 DEF Naming, Descriptor, Named
    <3>6. refcount'[g] = refcount[g] + Gained(table, g)
      BY <2>1
    <3>7. file'[g] = file[g]
      BY <2>1
    <3>8. CASE file[g] = NoFile
      <4>1. Refs(g) = 0 /\ A = {}
        BY <3>1, <3>2, <3>8, FS_EmptySet
      <4>2. ASSUME NEW l \in Fd PROVE table[l] # g
        <5>1. g # None
          BY FilesAssumption DEF Global, None
        <5>2. table[l] = IF m[l] = None \/ current = None THEN None
                         ELSE fd_table[current][m[l]]
          BY DEF table, Inherit
        <5>3. m[l] \in Fd /\ current \in Task
                => <<current, m[l]>> \in Descriptor
          BY DEF Descriptor
        <5>4. current \in Task \cup {None} /\ m[l] \in Fd \cup {None}
          BY DEF IInv, TypeOK
        <5> QED
          BY <4>1, <5>1, <5>2, <5>3, <5>4 DEF Naming
      <4>3. Naming(Descriptor, g)' = {}
        BY <3>5, <4>1, <4>2 DEF Named
      <4>4. Refs(g)' = 0
        BY <4>3, FS_EmptySet DEF Refs
      <4>5. refcount'[g] = 0
        BY <3>1, <3>6, <3>8 DEF Gained
      <4> QED
        BY <3>7, <3>8, <4>4, <4>5
    <3>9. CASE file[g] # NoFile
      <4>1. Gained(table, g) = Cardinality(Entries(table, g))
        BY <3>9 DEF Gained, Entries
      <4>2. Refs(g)' \in Nat /\ Refs(g)' <= Refs(g) + Cardinality(D)
        BY <3>2, <3>3, <3>5, UnionBound DEF Refs
      <4> QED
        BY <3>1, <3>2, <3>3, <3>6, <3>7, <3>9, <4>1, <4>2
    <3> QED
      BY <3>8, <3>9
  <2>5. EndsKnown' /\ ClosedIffEndGone'
    BY <2>1 DEF IInv, EndsKnown, ClosedIffEndGone
  <2> QED
    BY <2>3, <2>4, <2>5 DEF IInv
<1> QED
  BY <1>4, <1>5

(* sys_waitpid forgets the table of a dead task: fewer descriptors name a  *)
(* handle than before, and no count changes.                               *)
LEMMA WaitPidKeeps ==
    ASSUME IInv, NEW pid \in Task, WaitPid(pid)
    PROVE  IInv'
<1>1. /\ state' = [state EXCEPT ![pid] = "Null"]
      /\ fd_table' = [fd_table EXCEPT ![pid] = EmptyTable]
      /\ UNCHANGED <<current, halted, file, refcount, closed>>
  BY DEF WaitPid
<1>2. TypeOK'
  BY <1>1 DEF IInv, TypeOK, TaskState, EmptyTable
<1>3. RefsCounted'
  <2> SUFFICES ASSUME NEW g \in Global PROVE Refs(g)' <= refcount[g]
    BY <1>1 DEF IInv, RefsCounted
  <2>1. g # None
    BY FilesAssumption DEF Global, None
  <2>2. Naming(Descriptor, g)' \in SUBSET Naming(Descriptor, g)
    BY <1>1, <2>1 DEF Naming, Descriptor, EmptyTable, IInv, TypeOK
  <2>3. Refs(g)' \in Nat /\ Refs(g) \in Nat /\ Refs(g)' <= Refs(g)
    BY <2>2, NamingFinite, FS_Subset, FS_CardinalityType DEF Refs
  <2>4. Refs(g) <= refcount[g] /\ refcount[g] \in Nat
    BY DEF IInv, RefsCounted, TypeOK
  <2> QED
    BY <2>3, <2>4
<1>4. EndsKnown' /\ ClosedIffEndGone'
  BY <1>1 DEF IInv, EndsKnown, ClosedIffEndGone
<1> QED
  BY <1>2, <1>3, <1>4 DEF IInv

LEMMA SleepKeeps == ASSUME IInv, Sleep PROVE IInv'
<1>1. state' \in [Task -> TaskState]
  BY DEF Sleep, UserCode, IInv, TypeOK, TaskState
<1>2. UNCHANGED <<current, halted, fvars>>
  BY DEF Sleep
<1>3. TypeOK'
  BY <1>1, <1>2 DEF IInv, TypeOK, fvars
<1>4. RefsCounted'
  BY <1>2 DEF IInv, RefsCounted, Refs, Naming, fvars
<1>5. EndsKnown' /\ ClosedIffEndGone'
  BY <1>2 DEF IInv, EndsKnown, ClosedIffEndGone, fvars
<1> QED
  BY <1>3, <1>4, <1>5 DEF IInv

LEMMA CloseCallKeeps == ASSUME IInv, NEW l \in Fd, Close(l) PROVE IInv'
<1>1. {<<current, l>>} \in SUBSET Descriptor
  BY DEF Close, UserCode, Descriptor
<1> QED
  BY <1>1, CloseKeeps DEF Close, IInv, TypeOK, tvars

LEMMA ExitKeeps == ASSUME IInv, Exit PROVE IInv'
<1>1. {current} \X Fd \in SUBSET Descriptor
  BY DEF Exit, UserCode, Descriptor
<1>2. state' \in [Task -> TaskState]
  BY DEF Exit, UserCode, IInv, TypeOK, TaskState
<1> QED
  BY <1>1, <1>2, CloseKeeps DEF Exit, IInv, TypeOK

-----------------------------------------------------------------------------

LEMMA InitIInv == Init => IInv
<1> SUFFICES ASSUME Init PROVE IInv
  OBVIOUS
<1>1. TypeOK
  <2>1. state \in [Task -> TaskState]
    BY DEF Init, TaskState
  <2>2. fd_table \in [Task -> [Fd -> Global \cup {None}]]
    BY DEF Init, EmptyTable
  <2>3. refcount \in [Global -> 0 .. MaxRef]
    BY FilesAssumption DEF Init
  <2>4. /\ file \in [Global -> {NoFile, Regular} \cup Pipes]
        /\ current \in Task \cup {None} /\ halted \in BOOLEAN
        /\ closed \subseteq Pipes
    BY DEF Init
  <2> QED
    BY <2>1, <2>2, <2>3, <2>4 DEF TypeOK
<1>2. ASSUME NEW g \in Global
      PROVE  Refs(g) = 0 /\ refcount[g] = 0 /\ file[g] = NoFile
  <2>1. g # None
    BY FilesAssumption DEF Global, None
  <2>2. Naming(Descriptor, g) = {}
    BY <2>1 DEF Init, Naming, Descriptor, EmptyTable
  <2> QED
    BY <2>2, FS_EmptySet DEF Refs, Init
<1>3. RefsCounted
  BY <1>2 DEF RefsCounted
<1>4. EndsKnown /\ ClosedIffEndGone
  BY <1>2, FilesAssumption DEF EndsKnown, ClosedIffEndGone, Init, Pipes
<1> QED
  BY <1>1, <1>3, <1>4 DEF IInv

LEMMA NextKeeps == ASSUME IInv, [Next]_vars PROVE IInv'
<1>1. ASSUME NEW pid \in Task, KillProcess(pid) PROVE IInv'
  BY <1>1, KillKeeps DEF KillProcess, IInv, TypeOK
<1>2. CASE SysSpawn
  BY <1>2, SpawnKeeps DEF SysSpawn
<1>3. CASE ShortcutSpawn
  <2>1. CopyAll \in [Fd -> Fd \cup {None}]
    BY DEF CopyAll
  <2> QED
    BY <1>3, <2>1, SpawnKeeps DEF ShortcutSpawn
<1>4. ASSUME NEW t \in Task, NEW signalled \in BOOLEAN, Switch(t, signalled)
      PROVE  IInv'
  <2>1. (IF signalled THEN {t} ELSE {}) \in SUBSET Task
    OBVIOUS
  <2> QED
    BY <1>4, <2>1, KillKeeps DEF Switch
<1>5. ASSUME NEW t \in Task, NEW signalled \in BOOLEAN, Fault(t, signalled)
      PROVE  IInv'
  <2>1. ({current} \cup IF signalled THEN {t} ELSE {}) \in SUBSET Task
    BY <1>5 DEF Fault, UserCode
  <2> QED
    BY <1>5, <2>1, KillKeeps DEF Fault
<1>6. CASE UNCHANGED vars
  BY <1>6
  DEF vars, tvars, fvars, IInv, TypeOK, RefsCounted, Refs, Naming, EndsKnown,
      ClosedIffEndGone
<1> QED
  BY <1>1, <1>2, <1>3, <1>4, <1>5, <1>6, OpenKeeps, CloseCallKeeps, PipeKeeps,
     ExitKeeps, SleepKeeps, WaitPidKeeps
  DEF Next

LEMMA NoDanglingFromCounts == IInv => NoDangling
<1> SUFFICES ASSUME IInv, NEW t \in Task, NEW l \in Fd, fd_table[t][l] # None
             PROVE  file[fd_table[t][l]] # NoFile
  BY DEF NoDangling
<1> DEFINE g == fd_table[t][l]
<1>1. g \in Global
  BY DEF IInv, TypeOK
<1>2. Naming(Descriptor, g) # {}
  <2>1. <<t, l>> \in Naming(Descriptor, g)
    BY DEF Naming, Descriptor
  <2> QED
    BY <2>1
<1>3. Refs(g) \in Nat /\ Refs(g) # 0
  BY <1>2, NamingFinite, FS_EmptySet DEF Refs
<1> QED
  BY <1>1, <1>3 DEF IInv, RefsCounted, TypeOK

LEMMA Invariance == Spec => []IInv
<1>1. IInv /\ [Next]_vars => IInv'
  BY NextKeeps
<1> QED
  BY InitIInv, <1>1, PTL DEF Spec

-----------------------------------------------------------------------------

(* The values of the variables keep their types, reference counts          *)
(* included.                                                               *)
THEOREM FilesTypes == Spec => []TypeOK
<1>1. IInv => TypeOK
  BY DEF IInv
<1> QED
  BY <1>1, Invariance, PTL

(* No handle is counted less often than descriptors name it, through every *)
(* open, close, inheritance, failed spawn, exit, kill and slot reuse of    *)
(* any number of tasks.                                                    *)
THEOREM FilesRefsCounted == Spec => []RefsCounted
<1>1. IInv => RefsCounted
  BY DEF IInv
<1> QED
  BY <1>1, Invariance, PTL

(* Hence no descriptor names a handle that was closed.                     *)
THEOREM FilesNoDangling == Spec => []NoDangling
<1> QED
  BY NoDanglingFromCounts, Invariance, PTL

(* A pipe's buffer is marked closed exactly while one of its two handles   *)
(* is gone.                                                                *)
THEOREM FilesClosedIffEndGone == Spec => []ClosedIffEndGone
<1>1. IInv => ClosedIffEndGone
  BY DEF IInv
<1> QED
  BY <1>1, Invariance, PTL

-----------------------------------------------------------------------------
(* Leaks: what each call does to the difference between the count of a     *)
(* handle and the descriptors that name it.                                *)

NoLeak(g) == refcount'[g] - Refs(g)' <= refcount[g] - Refs(g)

LEMMA CountsTyped ==
    ASSUME IInv, NEW g \in Global
    PROVE  refcount[g] \in Nat /\ Refs(g) \in Nat
  BY NamingFinite DEF Refs, IInv, TypeOK

(* Closing takes count and descriptors down together. *)
LEMMA CloseLeaksNot ==
    ASSUME IInv, NEW S \in SUBSET Descriptor, CloseDescriptors(S), NEW g \in Global
    PROVE  NoLeak(g)
<1>1. /\ refcount'[g] = refcount[g] - Cardinality(Naming(S, g))
      /\ Refs(g)' = Refs(g) - Cardinality(Naming(S, g))
  BY CloseCounts
<1>2. Cardinality(Naming(S, g)) \in Nat
  BY NamingFinite
<1> QED
  BY <1>1, <1>2, CountsTyped DEF NoLeak

LEMMA KillLeaksNot ==
    ASSUME IInv, NEW victims \in SUBSET Task, Kill(victims), NEW g \in Global
    PROVE  NoLeak(g)
<1>1. (victims \cap Alive) \X Fd \in SUBSET Descriptor
  BY DEF Descriptor
<1> QED
  BY <1>1, CloseLeaksNot DEF Kill

LEMMA StillLeaksNot ==
    ASSUME IInv, refcount' = refcount, fd_table' = fd_table, NEW g \in Global
    PROVE  NoLeak(g)
<1>1. Refs(g)' = Refs(g)
  BY DEF Refs, Naming
<1> QED
  BY <1>1, CountsTyped DEF NoLeak

(* A handle that descriptors are added to and that is counted as often.    *)
LEMMA GrowsTogether ==
    ASSUME IInv, NEW g \in Global, NEW D, IsFiniteSet(D),
           Naming(Descriptor, g)' = Naming(Descriptor, g) \cup D,
           Naming(Descriptor, g) \cap D = {},
           refcount'[g] <= refcount[g] + Cardinality(D), refcount'[g] \in Nat
    PROVE  NoLeak(g)
<1> DEFINE A == Naming(Descriptor, g)
<1>1. IsFiniteSet(A) /\ Cardinality(A) \in Nat /\ Cardinality(D) \in Nat
  BY NamingFinite, FS_CardinalityType
<1>2. Cardinality(A \cup D) = Cardinality(A) + Cardinality(D) - Cardinality(A \cap D)
  BY <1>1, FS_Union
<1>3. Cardinality(A \cap D) = 0
  BY FS_EmptySet
<1>4. Refs(g) = Cardinality(A) /\ Refs(g)' = Cardinality(A \cup D)
  BY DEF Refs
<1> QED
  BY <1>1, <1>2, <1>3, <1>4, CountsTyped DEF NoLeak

(* An open handle that no descriptor takes: the first of the known causes. *)
LEMMA OpenLeaks ==
    ASSUME IInv, Open, NEW h \in Global
    PROVE  NoLeak(h) \/ LeakCause(h)
<1> DEFINE g == Lowest(FreeGlobals)
           l == Lowest(FreeFds(current))
<1>1. g \in Global /\ file[g] = NoFile
  <2>1. FreeGlobals \in SUBSET Nat /\ FreeGlobals # {}
    BY FilesAssumption DEF Open, FreeGlobals, Global
  <2> QED
    BY <2>1, LowestIn DEF FreeGlobals
<1>2. current \in Task
  BY DEF Open, UserCode
<1>3. /\ refcount' = [refcount EXCEPT ![g] = 1]
      /\ fd_table' = IF FreeFds(current) = {} THEN fd_table
                     ELSE [fd_table EXCEPT ![current][l] = g]
  BY DEF Open
<1>4. FreeFds(current) # {} => l \in Fd /\ fd_table[current][l] = None
  <2>1. FreeFds(current) \in SUBSET Nat
    BY FilesAssumption DEF FreeFds, Fd
  <2> QED
    BY <2>1, LowestIn DEF FreeFds
<1> HIDE DEF g, l
<1>5. /\ refcount[h] \in Nat
      /\ h = g => refcount'[h] = 1 /\ refcount[h] = 0
      /\ h # g => refcount'[h] = refcount[h]
  BY <1>1, <1>3 DEF IInv, TypeOK, RefsCounted
<1>6. CASE FreeFds(current) = {} /\ h = g
  BY <1>1, <1>6 DEF LeakCause
<1>7. CASE FreeFds(current) = {} /\ h # g
  <2>1. Refs(h)' = Refs(h)
    BY <1>3, <1>7 DEF Refs, Naming
  <2> QED
    BY <1>5, <1>7, <2>1, CountsTyped DEF NoLeak
<1>8. CASE FreeFds(current) # {}
  <2> DEFINE D == IF h = g THEN {<<current, l>>} ELSE {}
  <2>1. IsFiniteSet(D) /\ Cardinality(D) = IF h = g THEN 1 ELSE 0
    BY FS_Singleton, FS_EmptySet
  <2>2. \A d \in Descriptor : fd_table'[d[1]][d[2]] =
            IF d = <<current, l>> THEN g ELSE fd_table[d[1]][d[2]]
    BY <1>2, <1>3, <1>4, <1>8 DEF Descriptor, IInv, TypeOK
  <2>3. <<current, l>> \in Descriptor /\ h # None
    BY <1>2, <1>4, <1>8, FilesAssumption DEF Descriptor, Global, None
  <2>4. fd_table[<<current, l>>[1]][<<current, l>>[2]] = None
    BY <1>4, <1>8
  <2>5. Naming(Descriptor, h)' = {d \in Descriptor : fd_table'[d[1]][d[2]] = h}
    BY DEF Naming
  <2>6. Naming(Descriptor, h)' = Naming(Descriptor, h) \cup D
    BY <2>2, <2>3, <2>4, <2>5 DEF Naming
  <2>7. Naming(Descriptor, h) \cap D = {}
    BY <2>3, <2>4 DEF Naming
  <2> HIDE DEF D
  <2> QED
    BY <1>5, <2>1, <2>6, <2>7, GrowsTogether
<1> QED
  BY <1>6, <1>7, <1>8

LEMMA PipeLeaksNot ==
    ASSUME IInv, Pipe, NEW h \in Global
    PROVE  NoLeak(h)
<1> DEFINE g1 == Lowest(FreeGlobals)
           g2 == Lowest(FreeGlobals \ {g1})
           l1 == Lowest(FreeFds(current))
           l2 == Lowest(FreeFds(current) \ {l1})
<1>1. current \in Task
  BY DEF Pipe, UserCode
<1>2. /\ FreeGlobals # {} /\ FreeGlobals \ {g1} # {}
      /\ FreeFds(current) # {} /\ FreeFds(current) \ {l1} # {}
  <2>1. Cardinality(FreeGlobals) >= 2 /\ Cardinality(FreeFds(current)) >= 2
    BY DEF Pipe
  <2> QED
    BY <2>1, AtLeastTwo
<1>3. /\ g1 \in Global /\ g2 \in Global /\ g1 # g2
      /\ file[g1] = NoFile /\ file[g2] = NoFile
  <2>1. FreeGlobals \in SUBSET Nat /\ FreeGlobals \ {g1} \in SUBSET Nat
    BY FilesAssumption DEF FreeGlobals, Global
  <2>2. g1 \in FreeGlobals
    BY <1>2, <2>1, LowestIn
  <2>3. g2 \in FreeGlobals \ {g1}
    BY <1>2, <2>1, LowestIn
  <2> QED
    BY <2>2, <2>3 DEF FreeGlobals
<1>4. /\ l1 \in Fd /\ l2 \in Fd /\ l1 # l2
      /\ fd_table[current][l1] = None /\ fd_table[current][l2] = None
  <2>1. FreeFds(current) \in SUBSET Nat /\ FreeFds(current) \ {l1} \in SUBSET Nat
    BY FilesAssumption DEF FreeFds, Fd
  <2>2. l1 \in FreeFds(current)
    BY <1>2, <2>1, LowestIn
  <2>3. l2 \in FreeFds(current) \ {l1}
    BY <1>2, <2>1, LowestIn
  <2> QED
    BY <2>2, <2>3 DEF FreeFds
<1>5. /\ refcount' = [refcount EXCEPT ![g1] = 1, ![g2] = 1]
      /\ fd_table' = [fd_table EXCEPT ![current][l1] = g1, ![current][l2] = g2]
  BY DEF Pipe
<1> HIDE DEF g1, g2, l1, l2
<1> DEFINE d1 == <<current, l1>>
           d2 == <<current, l2>>
           D  == IF h = g1 THEN {d1} ELSE IF h = g2 THEN {d2} ELSE {}
<1>6. /\ refcount[h] \in Nat
      /\ h \in {g1, g2} => refcount'[h] = 1 /\ refcount[h] = 0
      /\ h \notin {g1, g2} => refcount'[h] = refcount[h]
  BY <1>3, <1>5 DEF IInv, TypeOK, RefsCounted
<1>7. IsFiniteSet(D) /\ Cardinality(D) = IF h \in {g1, g2} THEN 1 ELSE 0
  BY FS_Singleton, FS_EmptySet
<1>8. /\ d1 \in Descriptor /\ d2 \in Descriptor /\ d1 # d2 /\ h # None
      /\ fd_table[d1[1]][d1[2]] = None /\ fd_table[d2[1]][d2[2]] = None
  BY <1>1, <1>4, FilesAssumption DEF Descriptor, Global, None
<1>9. \A d \in Descriptor : fd_table'[d[1]][d[2]] =
          IF d = d2 THEN g2 ELSE IF d = d1 THEN g1 ELSE fd_table[d[1]][d[2]]
  BY <1>1, <1>4, <1>5 DEF Descriptor, IInv, TypeOK
<1>10. Naming(Descriptor, h)' = {d \in Descriptor : fd_table'[d[1]][d[2]] = h}
  BY DEF Naming
<1> HIDE DEF d1, d2
<1>11. Naming(Descriptor, h)' = Naming(Descriptor, h) \cup D
  BY <1>3, <1>8, <1>9, <1>10 DEF Naming
<1>12. Naming(Descriptor, h) \cap D = {}
  BY <1>8 DEF Naming
<1> HIDE DEF D
<1> QED
  BY <1>6, <1>7, <1>11, <1>12, GrowsTogether

(* Every entry of a child's table is one descriptor of the child. *)
LEMMA NamedCount ==
    ASSUME NEW table \in [Fd -> Global \cup {None}], NEW slot \in Task, NEW g \in Global
    PROVE  /\ IsFiniteSet(Named(table, slot, g))
           /\ Cardinality(Entries(table, g)) \in Nat
           /\ Cardinality(Named(table, slot, g)) = Cardinality(Entries(table, g))
<1> DEFINE D == Named(table, slot, g)
           L == Entries(table, g)
           f == [l \in L |-> <<slot, l>>]
<1>1. IsFiniteSet(L) /\ Cardinality(L) \in Nat
  <2>1. IsFiniteSet(Fd)
    BY FilesAssumption, FS_Interval DEF Fd
  <2> QED
    BY <2>1, FS_Subset, FS_CardinalityType DEF Entries
<1>2. f \in [L -> D]
  BY DEF Entries, Named
<1>3. \A d \in D : \E l \in L : f[l] = d
  <2> SUFFICES ASSUME NEW d \in D PROVE \E l \in L : f[l] = d
    OBVIOUS
  <2>1. d[2] \in L /\ d = <<slot, d[2]>>
    BY DEF Entries, Named
  <2> QED
    BY <2>1
<1>4. \A k, l \in L : f[k] = f[l] => k = l
  OBVIOUS
<1>5. f \in Surjection(L, D) /\ f \in Injection(L, D)
  BY <1>2, <1>3, <1>4 DEF Surjection, Injection, IsInjective
<1> QED
  BY <1>1, <1>5, FS_Surjection

(* A child gets one reference per descriptor.  Only the descriptors that a *)
(* dead task or a failed spawn left in the slot are overwritten unclosed.  *)
LEMMA SpawnLeaks ==
    ASSUME IInv, NEW m \in [Fd -> Fd \cup {None}], NEW outcome \in Outcome,
           Spawn(m, outcome), NEW g \in Global
    PROVE  NoLeak(g) \/ LeakCause(g)
<1> DEFINE slot  == Lowest({t \in Task : state[t] = "Null"})
           table == Inherit(m)
<1>1. slot \in Task /\ state[slot] = "Null"
  <2> DEFINE F == {t \in Task : state[t] = "Null"}
  <2>1. F \in SUBSET Nat /\ F # {}
    BY FilesAssumption DEF Spawn, Task
  <2>2. Lowest(F) \in F
    <3> HIDE DEF F
    <3> QED
      BY <2>1, LowestIn
  <2> QED
    BY <2>2
<1>2. table \in [Fd -> Global \cup {None}]
  BY InheritType
<1>3. CASE outcome = "BadProgram"
  BY <1>3, StillLeaksNot DEF Spawn, fvars
<1>4. CASE outcome # "BadProgram"
  <2>1. /\ refcount' = [h \in Global |-> refcount[h] + Gained(table, h)]
        /\ fd_table' = [fd_table EXCEPT ![slot] = table]
    BY <1>4 DEF Spawn
  <2> HIDE DEF slot, table
  <2>2. CASE Naming({slot} \X Fd, g) # {}
    <3>1. slot \in Task \ Alive
      BY <1>1 DEF Alive
    <3> QED
      BY <2>2, <3>1 DEF LeakCause
  <2>3. CASE Naming({slot} \X Fd, g) = {}
    <3> DEFINE D == Named(table, slot, g)
    <3>1. /\ IsFiniteSet(D) /\ Cardinality(Entries(table, g)) \in Nat
          /\ Cardinality(D) = Cardinality(Entries(table, g))
      BY <1>1, <1>2, NamedCount
    <3>2. \A d \in Descriptor : fd_table'[d[1]][d[2]] =
              IF d[1] = slot THEN table[d[2]] ELSE fd_table[d[1]][d[2]]
      BY <2>1 DEF Descriptor, IInv, TypeOK
    <3>3. \A d \in Descriptor : d[1] = slot => fd_table[d[1]][d[2]] # g
      BY <2>3 DEF Naming, Descriptor
    <3>4. D = {d \in Descriptor : d[1] = slot /\ table[d[2]] = g}
      BY <1>1 DEF Named, Descriptor
    <3>5. Naming(Descriptor, g)' = {d \in Descriptor : fd_table'[d[1]][d[2]] = g}
      BY DEF Naming
    <3>6. /\ Naming(Descriptor, g)' = Naming(Descriptor, g) \cup D
          /\ Naming(Descriptor, g) \cap D = {}
      BY <3>2, <3>3, <3>4, <3>5 DEF Naming
    <3>7. refcount'[g] = refcount[g] + Gained(table, g)
      BY <2>1
    <3>8. Gained(table, g) \in Nat /\ Gained(table, g) <= Cardinality(D)
      BY <3>1 DEF Gained, Entries
    <3> HIDE DEF D
    <3>9. /\ refcount'[g] <= refcount[g] + Cardinality(D)
          /\ refcount'[g] \in Nat
      BY <3>1, <3>7, <3>8, CountsTyped
    <3> QED
      BY <3>1, <3>6, <3>9, GrowsTogether
  <2> QED
    BY <2>2, <2>3
<1> QED
  BY <1>3, <1>4

LEMMA WaitPidLeaks ==
    ASSUME IInv, NEW pid \in Task, WaitPid(pid), NEW g \in Global
    PROVE  NoLeak(g) \/ LeakCause(g)
<1>1. /\ state[pid] = "Zombie" /\ refcount' = refcount
      /\ fd_table' = [fd_table EXCEPT ![pid] = EmptyTable]
  BY DEF WaitPid
<1>2. CASE Naming({pid} \X Fd, g) # {}
  <2>1. pid \in Task \ Alive
    BY <1>1 DEF Alive
  <2> QED
    BY <1>2, <2>1 DEF LeakCause
<1>3. CASE Naming({pid} \X Fd, g) = {}
  <2>1. g # None
    BY FilesAssumption DEF Global, None
  <2>2. \A d \in Descriptor : d[1] = pid => fd_table[d[1]][d[2]] # g
    BY <1>3 DEF Naming, Descriptor
  <2>3. \A d \in Descriptor : fd_table'[d[1]][d[2]] =
            IF d[1] = pid THEN None ELSE fd_table[d[1]][d[2]]
    BY <1>1 DEF Descriptor, EmptyTable, IInv, TypeOK
  <2>4. Naming(Descriptor, g)' = {d \in Descriptor : fd_table'[d[1]][d[2]] = g}
    BY DEF Naming
  <2>5. Naming(Descriptor, g)' = Naming(Descriptor, g)
    BY <2>1, <2>2, <2>3, <2>4 DEF Naming
  <2>6. Refs(g)' = Refs(g)
    BY <2>5 DEF Refs
  <2> QED
    BY <1>1, <2>6, CountsTyped DEF NoLeak
<1> QED
  BY <1>2, <1>3

LEMMA StepLeaks ==
    ASSUME IInv, [Next]_vars, NEW g \in Global
    PROVE  NoLeak(g) \/ LeakCause(g)
<1>1. CASE \E l \in Fd : Close(l)
  <2>1. PICK l \in Fd : Close(l)
    BY <1>1
  <2>2. {<<current, l>>} \in SUBSET Descriptor
    BY <2>1 DEF Close, UserCode, Descriptor
  <2> QED
    BY <2>1, <2>2, CloseLeaksNot DEF Close
<1>2. CASE Exit
  <2>1. {current} \X Fd \in SUBSET Descriptor
    BY <1>2 DEF Exit, UserCode, Descriptor
  <2> QED
    BY <1>2, <2>1, CloseLeaksNot DEF Exit
<1>3. CASE \E pid \in Task : KillProcess(pid)
  BY <1>3, KillLeaksNot DEF KillProcess
<1>4. CASE Sleep
  BY <1>4, StillLeaksNot DEF Sleep, fvars
<1>5. CASE \E t \in Task, signalled \in BOOLEAN : Switch(t, signalled)
  <2>1. PICK t \in Task, signalled \in BOOLEAN : Switch(t, signalled)
    BY <1>5
  <2>2. (IF signalled THEN {t} ELSE {}) \in SUBSET Task
    OBVIOUS
  <2> QED
    BY <2>1, <2>2, KillLeaksNot DEF Switch
<1>6. CASE \E t \in Task, signalled \in BOOLEAN : Fault(t, signalled)
  <2>1. PICK t \in Task, signalled \in BOOLEAN : Fault(t, signalled)
    BY <1>6
  <2>2. ({current} \cup IF signalled THEN {t} ELSE {}) \in SUBSET Task
    BY <2>1 DEF Fault, UserCode
  <2> QED
    BY <2>1, <2>2, KillLeaksNot DEF Fault
<1>7. CASE SysSpawn
  BY <1>7, SpawnLeaks DEF SysSpawn
<1>8. CASE ShortcutSpawn
  <2>1. CopyAll \in [Fd -> Fd \cup {None}]
    BY DEF CopyAll
  <2> QED
    BY <1>8, <2>1, SpawnLeaks DEF ShortcutSpawn
<1>9. CASE UNCHANGED vars
  BY <1>9, StillLeaksNot DEF vars, fvars
<1> QED
  BY <1>1, <1>2, <1>3, <1>4, <1>5, <1>6, <1>7, <1>8, <1>9, OpenLeaks, PipeLeaksNot,
     WaitPidLeaks
  DEF Next

(* References get lost in the known ways only: an open that finds no free  *)
(* descriptor, and the descriptors that a task holds after its death or a  *)
(* failed spawn left in a slot.  Every other call moves the count of a     *)
(* handle and the descriptors that name it together.                       *)
THEOREM FilesLeaksOnlyWhereKnown == Spec => LeaksOnlyWhereKnown
<1>1. IInv /\ [Next]_vars =>
        [\A g \in Global : refcount'[g] - Refs(g)' > refcount[g] - Refs(g)
                              => LeakCause(g)]_vars
  <2> SUFFICES ASSUME IInv, [Next]_vars, NEW g \in Global,
                      refcount'[g] - Refs(g)' > refcount[g] - Refs(g)
               PROVE  LeakCause(g)
    OBVIOUS
  <2>1. IInv'
    BY NextKeeps
  <2>2. /\ refcount'[g] \in Nat /\ Refs(g)' \in Nat
        /\ refcount[g] \in Nat /\ Refs(g) \in Nat
    <3>1. IsFiniteSet(Descriptor)
      <4>1. IsFiniteSet(Task) /\ IsFiniteSet(Fd)
        BY FilesAssumption, FS_Interval DEF Task, Fd
      <4> QED
        BY <4>1, FS_Product DEF Descriptor
    <3>2. Naming(Descriptor, g)' \in SUBSET Descriptor
      BY DEF Naming
    <3>3. Refs(g)' \in Nat
      BY <3>1, <3>2, FS_Subset, FS_CardinalityType DEF Refs
    <3>4. refcount'[g] \in Nat
      BY <2>1 DEF IInv, TypeOK
    <3> QED
      BY <3>3, <3>4, CountsTyped
  <2>3. ~NoLeak(g)
    BY <2>2 DEF NoLeak
  <2> QED
    BY <2>3, StepLeaks
<1> QED
  BY <1>1, Invariance, PTL DEF Spec, LeaksOnlyWhereKnown
=============================================================================
