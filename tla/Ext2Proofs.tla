----------------------------- MODULE Ext2Proofs -----------------------------
(***************************************************************************)
(* For any number of inodes, blocks, names and open files, the volume is   *)
(* sound - blocks have one owner, and what has a name is not free - until  *)
(* a removed file is written to or a removed name is removed again.  Until *)
(* then rename loses no file, and space is lost only in the known ways.    *)
(***************************************************************************)
EXTENDS Ext2History, FiniteSetTheorems, WellFoundedInduction, TLAPS

-----------------------------------------------------------------------------
(* Least elements.                                                         *)

LEMMA LeastOf ==
  ASSUME NEW S \in SUBSET Nat, S # {}
  PROVE  \E x \in S : \A y \in S : x <= y
<1> DEFINE R == {ss \in Nat \X Nat : ss[1] < ss[2]}
<1>1. IsWellFoundedOn(R, Nat)
  BY NatLessThanWellFounded DEF OpToRel
<1>2. PICK x \in S : \A y \in S : <<y, x>> \notin R
  BY <1>1, WFMin, Zenon
<1>3. ASSUME NEW y \in S PROVE x <= y
  <2>1. /\ <<y, x>> \in Nat \X Nat
        /\ <<y, x>>[1] = y /\ <<y, x>>[2] = x
    OBVIOUS
  <2>2. ~(y < x)
    BY <1>2, <2>1
  <2> QED
    BY <2>2
<1> QED
  BY <1>3

LEMMA MinIs ==
  ASSUME NEW S \in SUBSET Nat, S # {}
  PROVE  Min(S) \in S /\ \A y \in S : Min(S) <= y
  BY LeastOf DEF Min

(* The first clear bit among first .. last, or 0 (alloc_block, alloc_inode). *)
LEMMA FirstClear ==
  ASSUME NEW first \in Nat \ {0}, NEW last \in Nat, first <= last, NEW set
  PROVE  LET m == Min({b \in first .. last : b \notin set} \cup {last + 1}) % (last + 1)
         IN  m = 0 \/ (m \in first .. last /\ m \notin set)
<1> DEFINE S == {b \in first .. last : b \notin set} \cup {last + 1}
           x == Min(S)
<1>1. S \in SUBSET Nat /\ S # {}
  OBVIOUS
<1>2. x \in S
  BY <1>1, MinIs
<1> HIDE DEF x
<1>3. CASE x = last + 1
  <2>1. x % (last + 1) = 0
    BY <1>3
  <2> QED
    BY <2>1 DEF x
<1>4. CASE x \in first .. last /\ x \notin set
  <2>1. x \in Nat /\ x < last + 1
    BY <1>4
  <2>2. x % (last + 1) = x
    BY ONLY <2>1, last \in Nat
  <2> QED
    BY <1>4, <2>2 DEF x
<1> QED
  BY <1>2, <1>3, <1>4

LEMMA FreeBlockIs ==
  ASSUME NEW dk
  PROVE  FreeBlock(dk) = 0 \/ (FreeBlock(dk) \in Block /\ FreeBlock(dk) \notin dk.blocks)
<1>1. 1 \in Nat \ {0} /\ MAX_BLOCK \in Nat /\ 1 <= MAX_BLOCK
  BY Ext2Assumption
<1> QED
  BY <1>1, FirstClear DEF FreeBlock, Block

LEMMA FreeInodeIs ==
  ASSUME NEW dk
  PROVE  FreeInode(dk) = 0 \/ (FreeInode(dk) \in Inode /\ FreeInode(dk) \notin dk.inodes)
<1>1. Root \in Nat \ {0} /\ MAX_INODE \in Nat /\ Root <= MAX_INODE
  BY Ext2Assumption DEF Root
<1> QED
  BY <1>1, FirstClear DEF FreeInode, Inode

(* The first of a set of places in a directory.                            *)
LEMMA FirstIs ==
  ASSUME NEW S \in SUBSET Position, S # {}
  PROVE  First(S) \in S /\ \A q \in S \ {First(S)} : Before(First(S), q)
<1> DEFINE B == {p[1] : p \in S}
<1>1. B \in SUBSET Nat /\ B # {}
  BY DEF Position, Index
<1>2. PICK x \in B : \A y \in B : x <= y
  BY <1>1, LeastOf
<1> DEFINE T == {p[2] : p \in {q \in S : q[1] = x}}
<1>3. T \in SUBSET Nat /\ T # {}
  BY <1>2 DEF Position, Slots
<1>4. PICK z \in T : \A y \in T : z <= y
  BY <1>3, LeastOf
<1>5. PICK p \in S : p[1] = x /\ p[2] = z
  BY <1>4
<1>6. ASSUME NEW q \in S \ {p} PROVE Before(p, q)
  <2>1. /\ p[1] \in Nat /\ q[1] \in Nat /\ p[2] \in Nat /\ q[2] \in Nat
        /\ p = <<p[1], p[2]>> /\ q = <<q[1], q[2]>>
    BY DEF Position, Index, Slots
  <2>2. p[1] <= q[1] /\ (q[1] = p[1] => p[2] <= q[2])
    BY <1>2, <1>4, <1>5
  <2>3. ~(q[1] = p[1] /\ q[2] = p[2])
    BY <2>1
  <2> QED
    BY <2>1, <2>2, <2>3 DEF Before
<1>7. \E r \in S : \A q \in S \ {r} : Before(r, q)
  BY <1>6
<1> QED
  BY <1>7 DEF First

LEMMA BeforeIsStrict ==
  ASSUME NEW p \in Position, NEW q \in Position, Before(p, q)
  PROVE  ~Before(q, p) /\ p # q
<1>1. p[1] \in Nat /\ q[1] \in Nat /\ p[2] \in Nat /\ q[2] \in Nat
  BY DEF Position, Index, Slots
<1> QED
  BY <1>1 DEF Before

(* Nothing else is first.                                                  *)
LEMMA FirstAlone ==
  ASSUME NEW S \in SUBSET Position, NEW p \in S, \A q \in S \ {p} : Before(p, q)
  PROVE  First(S) = p
<1>1. First(S) \in S /\ \A q \in S \ {First(S)} : Before(First(S), q)
  BY FirstIs
<1> QED
  BY <1>1, BeforeIsStrict

-----------------------------------------------------------------------------
(* What holds of a sound disk dk, of the nodes nd of the open files and of   *)
(* the set gn of those whose file has been removed.                        *)

Volume == [inode : [Inode -> InodeRecord], inodes : SUBSET Inode, blocks : SUBSET Block,
           content : [Block -> [Slots -> DirectoryEntry]]]

DirsOf(dk) == {d \in dk.inodes : dk.inode[d].kind = "Dir"}

(* The entries that give the inode i a name.                               *)
NamesOf(dk, i) ==
  {e \in DirsOf(dk) \X Position : At(dk, e[1], e[2]).inode = i /\ At(dk, e[1], e[2]).name # Dot}

Counted(dk) ==
  \A i \in Inode : NamesOf(dk, i) # {} =>
    i \in dk.inodes /\ dk.inode[i].links >= Cardinality(NamesOf(dk, i))

RootKept(dk) == Root \in DirsOf(dk) /\ NamesOf(dk, Root) = {}

(* A slot without a name gives up nothing.                                 *)
Blank(dk) ==
  \A c \in DirsOf(dk), p \in Position : At(dk, c, p).name = NoName => At(dk, c, p).inode = 0

(* No block is twice in a record; those of a directory are filled from the *)
(* front.                                                                  *)
Clean(r) == \A k, l \in Index : r.block[k] = r.block[l] /\ r.block[k] # 0 => k = l
Filled(r) == \A j, k \in Index : j < k /\ r.block[k] # 0 => r.block[j] # 0

Tidy(dk) == \A i \in dk.inodes : /\ Clean(dk.inode[i])
                                 /\ dk.inode[i].kind = "Dir" => Filled(dk.inode[i])

(* The open files, and the blocks that a file has on the disk or in the    *)
(* copy that an open file keeps.                                           *)
Held(nd, gn) == {h \in Handle \ gn : nd[h] # NoNode}

Has(dk, nd, gn, i, b) ==
  \/ i \in dk.inodes /\ \E k \in Index : dk.inode[i].block[k] = b
  \/ \E h \in Held(nd, gn), k \in Index : nd[h].idx = i /\ nd[h].inode.block[k] = b

Owned(dk, nd, gn) ==
  \A b \in Block, i, j \in Inode :
    Has(dk, nd, gn, i, b) => b \in dk.blocks /\ (Has(dk, nd, gn, j, b) => i = j)

(* A copy may be old, but not in its kind and links.                       *)
Copies(dk, nd, gn) ==
  \A h \in Held(nd, gn) :
    /\ nd[h].idx \in dk.inodes /\ dk.inode[nd[h].idx].kind = "File"
    /\ nd[h].inode.kind = "File" /\ nd[h].inode.links = 1 /\ Clean(nd[h].inode)

Shape(dk, nd, gn) ==
  /\ dk \in Volume /\ RootKept(dk) /\ Blank(dk) /\ Tidy(dk)
  /\ Owned(dk, nd, gn) /\ Copies(dk, nd, gn)

Single(dk) == \A i \in dk.inodes : dk.inode[i].kind = "File" => dk.inode[i].links = 1

Nodes == [Handle -> Ext2Node \cup {NoNode}]

IInv ==
  /\ TypeOK
  /\ ~damaged => Shape(disk, node, gone) /\ Counted(disk) /\ Single(disk)

(* On the disk alone: the blocks of the inodes are apart.                  *)
Apart(dk) ==
  \A i, j \in dk.inodes, k, l \in Index :
    LET b == dk.inode[i].block[k]
    IN  b # 0 => b \in dk.blocks /\ (dk.inode[j].block[l] = b => i = j /\ k = l)

LEMMA ShapeApart ==
  ASSUME NEW dk, NEW nd, NEW gn, Shape(dk, nd, gn)
  PROVE  Apart(dk)
<1> SUFFICES ASSUME NEW i \in dk.inodes, NEW j \in dk.inodes, NEW k \in Index, NEW l \in Index,
                    dk.inode[i].block[k] # 0
             PROVE  LET b == dk.inode[i].block[k]
                    IN  b \in dk.blocks /\ (dk.inode[j].block[l] = b => i = j /\ k = l)
  BY DEF Apart
<1> DEFINE b == dk.inode[i].block[k]
<1>1. i \in Inode /\ j \in Inode /\ dk.inode[i] \in InodeRecord
  BY DEF Shape, Volume
<1>2. b \in Block
  BY <1>1 DEF InodeRecord
<1>3. Has(dk, nd, gn, i, b)
  BY DEF Has
<1> HIDE DEF b
<1>4. b \in dk.blocks /\ (Has(dk, nd, gn, j, b) => i = j)
  <2>1. Owned(dk, nd, gn)
    BY DEF Shape
  <2> QED
    BY <1>1, <1>2, <1>3, <2>1, Zenon DEF Owned
<1>5. ASSUME dk.inode[j].block[l] = b PROVE i = j /\ k = l
  <2>1. Has(dk, nd, gn, j, b)
    BY <1>5 DEF Has
  <2>2. i = j
    BY <2>1, <1>4
  <2> QED
    BY <2>2, <1>5 DEF Shape, Tidy, Clean, b
<1> QED
  BY <1>4, <1>5 DEF b

-----------------------------------------------------------------------------
(* Paths lead to directories.                                              *)

LEMMA FindIs ==
  ASSUME NEW dk, NEW d, NEW n, Find(dk, d, n) # 0
  PROVE  \E p \in Position : /\ At(dk, d, p).name = n /\ At(dk, d, p).inode # 0
                             /\ Find(dk, d, n) = At(dk, d, p).inode
<1> DEFINE found == Named(dk, d, n) \cap Live(dk, d)
<1>1. found # {} /\ Find(dk, d, n) = At(dk, d, First(found)).inode
  BY DEF Find
<1>2. found \in SUBSET Position
  BY DEF Named, Live
<1>3. First(found) \in found
  BY <1>1, <1>2, FirstIs
<1> QED
  BY <1>1, <1>3 DEF Named, Live

(* An entry is typed, and one that has a name in a directory in use names  *)
(* an inode in use.                                                        *)
LEMMA EntryIs ==
  ASSUME NEW dk \in Volume, NEW d \in Inode, NEW p \in Position
  PROVE  At(dk, d, p) \in DirectoryEntry
<1>1. p[1] \in Index /\ p[2] \in Slots
  BY DEF Position
<1>2. dk.inode[d] \in InodeRecord
  BY DEF Volume
<1>3. dk.inode[d].block[p[1]] \in Block \cup {0}
  BY <1>1, <1>2 DEF InodeRecord
<1>4. Unused \in DirectoryEntry
  BY DEF Unused, DirectoryEntry
<1> QED
  BY <1>1, <1>3, <1>4 DEF At, Volume

LEMMA NamedInUse ==
  ASSUME NEW dk \in Volume, RootKept(dk), Counted(dk), NEW d \in DirsOf(dk), NEW p \in Position,
         At(dk, d, p).name # Dot, At(dk, d, p).inode # 0
  PROVE  LET i == At(dk, d, p).inode
         IN  i \in dk.inodes /\ i # Root /\ <<d, p>> \in NamesOf(dk, i)
<1> DEFINE i == At(dk, d, p).inode
<1>1. d \in Inode
  BY DEF Volume, DirsOf
<1>2. i \in Inode
  BY <1>1, EntryIs DEF DirectoryEntry
<1>3. <<d, p>> \in NamesOf(dk, i)
  BY DEF NamesOf
<1> QED
  BY <1>2, <1>3 DEF Counted, RootKept

(* The steps from the root, as Opened counts them.                         *)
Subs(d) == {i \in {Find(disk, d, n) : n \in Name} \ {0} : disk.inode[i].kind = "Dir"}
Wider(S) == S \cup UNION {Subs(d) : d \in S}
Depths == 0 .. Cardinality(Inode)
Walk(W) == [depth \in Depths |-> IF depth = 0 THEN {Root} ELSE Wider(W[depth - 1])]
Reach == CHOOSE W : W = Walk(W)

LEMMA OpenedIs ==
  Opened = Reach[Cardinality(disk.inodes)]
BY Zenon DEF Opened, Reach, Walk, Depths, Wider, Subs

Steps(W, n) == [depth \in 0 .. n |-> IF depth = 0 THEN {Root} ELSE Wider(W[depth - 1])]

(* There are steps to any depth: none is the least without.                *)
LEMMA StepsExist ==
  ASSUME NEW n \in Nat
  PROVE  \E W : W = Steps(W, n)
<1> DEFINE Without == {m \in Nat : ~\E W : W = Steps(W, m)}
<1>1. SUFFICES ASSUME Without # {} PROVE FALSE
  OBVIOUS
<1>2. PICK m \in Without : \A y \in Without : m <= y
  BY <1>1, LeastOf
<1>3. m # 0
  <2> DEFINE W == [depth \in 0 .. 0 |-> {Root}]
  <2>1. W = Steps(W, 0)
    BY DEF Steps
  <2> QED
    BY <2>1, <1>2
<1>4. m - 1 \in Nat /\ m - 1 \notin Without /\ m \in Nat
  BY <1>2, <1>3
<1>5. PICK W : W = Steps(W, m - 1)
  BY <1>4
<1> DEFINE V == [depth \in 0 .. m |-> IF depth < m THEN W[depth] ELSE Wider(W[m - 1])]
<1>6. ASSUME NEW depth \in 0 .. m
      PROVE  V[depth] = IF depth = 0 THEN {Root} ELSE Wider(V[depth - 1])
  <2>1. \A e \in 0 .. m - 1 : W[e] = IF e = 0 THEN {Root} ELSE Wider(W[e - 1])
    BY <1>5 DEF Steps
  <2>2. CASE depth = m
    <3>1. V[depth - 1] = W[m - 1] /\ V[depth] = Wider(W[m - 1]) /\ depth # 0
      BY <2>2, <1>3, <1>4
    <3> QED
      BY <3>1
  <2>3. CASE depth < m
    <3>1. V[depth] = W[depth] /\ depth \in 0 .. m - 1
      BY <2>3, <1>4
    <3>2. depth # 0 => V[depth - 1] = W[depth - 1]
      BY <2>3, <1>4
    <3> QED
      BY <3>1, <3>2, <2>1
  <2> QED
    BY <2>2, <2>3, <1>4
<1>7. V = Steps(V, m)
  BY <1>6 DEF Steps
<1> QED
  BY <1>7, <1>2

(* The directories a path leads to are in every set that has the root and, *)
(* with a directory, those in it.                                          *)
LEMMA OpenedWithin ==
  ASSUME disk \in Volume, NEW D, Root \in D, \A d \in D : Subs(d) \subseteq D
  PROVE  Opened \subseteq D
<1> DEFINE N == Cardinality(Inode)
<1>1. N \in Nat /\ Cardinality(disk.inodes) \in Depths
  <2>1. IsFiniteSet(Inode)
    BY FS_Interval, Ext2Assumption DEF Inode, Root
  <2>2. disk.inodes \in SUBSET Inode
    BY DEF Volume
  <2>3. Cardinality(disk.inodes) <= N /\ IsFiniteSet(disk.inodes)
    BY <2>1, <2>2, FS_Subset
  <2>4. N \in Nat /\ Cardinality(disk.inodes) \in Nat
    BY <2>1, <2>3, FS_CardinalityType
  <2> QED
    BY <2>3, <2>4 DEF Depths
<1>2. Reach = Walk(Reach)
  <2>1. PICK W : W = Steps(W, N)
    BY <1>1, StepsExist
  <2>2. W = Walk(W)
    BY <2>1, Zenon DEF Steps, Walk, Depths
  <2> QED
    BY <2>2, Zenon DEF Reach
<1>3. \A n \in Depths : Reach[n] = IF n = 0 THEN {Root} ELSE Wider(Reach[n - 1])
  BY <1>2, Zenon DEF Walk
<1>4. ASSUME NEW S \in SUBSET D PROVE Wider(S) \in SUBSET D
  BY DEF Wider
<1> DEFINE Bad == {n \in Depths : Reach[n] \notin SUBSET D}
<1>5. Bad = {}
  <2>1. SUFFICES ASSUME Bad # {} PROVE FALSE
    OBVIOUS
  <2>2. Bad \in SUBSET Nat
    BY <1>1 DEF Depths
  <2>3. PICK m \in Bad : \A y \in Bad : m <= y
    BY <2>1, <2>2, LeastOf
  <2>4. m # 0
    BY <1>3, <2>3
  <2>5. m - 1 \in Depths /\ m - 1 \notin Bad
    BY <1>1, <2>2, <2>3, <2>4 DEF Depths
  <2> QED
    BY <2>3, <2>4, <2>5, <1>3, <1>4
<1> QED
  BY <1>1, <1>5, OpenedIs

(* What find gets in a directory in use is that of a live entry, and in    *)
(* use.                                                                    *)
LEMMA SubIs ==
  ASSUME disk \in Volume, RootKept(disk), Counted(disk), NEW d \in DirsOf(disk), NEW i \in Subs(d)
  PROVE  i \in DirsOf(disk) /\ \E p \in Live(disk, d) : i = At(disk, d, p).inode
<1>1. PICK n \in Name : i = Find(disk, d, n) /\ i # 0 /\ disk.inode[i].kind = "Dir"
  BY DEF Subs
<1>2. PICK p \in Position : /\ At(disk, d, p).name = n /\ At(disk, d, p).inode # 0
                            /\ i = At(disk, d, p).inode
  BY <1>1, FindIs
<1>3. n # Dot
  BY Ext2Assumption
<1>4. i \in disk.inodes
  BY <1>2, <1>3, NamedInUse
<1> QED
  BY <1>1, <1>2, <1>4 DEF DirsOf, Live

LEMMA OpenedIsDirectory ==
  ASSUME disk \in Volume, RootKept(disk), Counted(disk)
  PROVE  Opened \subseteq DirsOf(disk)
<1> DEFINE D == DirsOf(disk)
<1>1. Root \in D
  BY DEF RootKept
<1>2. \A d \in D : Subs(d) \subseteq D
  BY SubIs
<1> HIDE DEF D
<1>3. Opened \subseteq D
  BY <1>1, <1>2, OpenedWithin
<1> QED
  BY <1>3 DEF D

-----------------------------------------------------------------------------
(* A new entry.                                                            *)

(* The disk new is dk with the entry e put into the directory d, which may *)
(* have got a block more.                                                  *)
Entered(dk, new, d, e) ==
  /\ new \in Volume /\ new.inodes = dk.inodes /\ dk.blocks \subseteq new.blocks
  /\ \A i \in Inode \ {d} : new.inode[i] = dk.inode[i]
  /\ new.inode[d].kind = dk.inode[d].kind /\ new.inode[d].links = dk.inode[d].links
  /\ Clean(new.inode[d]) /\ Filled(new.inode[d])
  /\ \A k \in Index : \/ new.inode[d].block[k] = dk.inode[d].block[k]
                      \/ /\ dk.inode[d].block[k] = 0
                         /\ new.inode[d].block[k] \in new.blocks \ dk.blocks
  /\ \A b \in new.blocks \ dk.blocks : b # 0 /\ \E k \in Index : new.inode[d].block[k] = b
  /\ \E q \in Position :
        /\ At(dk, d, q).name = NoName
        /\ \A c \in DirsOf(dk), p \in Position :
              At(new, c, p) = IF c = d /\ p = q THEN e ELSE At(dk, c, p)
  /\ \A c \in DirsOf(dk), p \in Position :
        At(new, c, p) # At(dk, c, p) => c = d /\ At(dk, c, p).name = NoName

LEMMA IntoRoom ==
  ASSUME NEW dk \in Volume, Apart(dk), Tidy(dk), NEW d \in DirsOf(dk), NEW e \in DirectoryEntry,
         Room(dk, d) # {}
  PROVE  Added(dk, d, e).ok /\ Entered(dk, Added(dk, d, e).disk, d, e)
<1> DEFINE q == First(Room(dk, d))
           b == dk.inode[d].block[q[1]]
           new == [dk EXCEPT !.content[b][q[2]] = e]
<1>1. Added(dk, d, e).ok /\ Added(dk, d, e).disk = new
  BY DEF Added
<1>2. q \in Position /\ At(dk, d, q).name = NoName /\ At(dk, d, <<q[1], 1>>).name # NoName
  <2>1. Room(dk, d) \in SUBSET Position
    BY DEF Room
  <2>2. q \in Room(dk, d)
    BY <2>1, FirstIs
  <2> QED
    BY <2>2 DEF Room
<1> HIDE DEF q
<1>3. q[1] \in Index /\ q[2] \in Slots
  BY <1>2 DEF Position
<1>4. d \in dk.inodes /\ d \in Inode /\ dk.inode[d] \in InodeRecord /\ dk.inode[d].kind = "Dir"
  BY DEF DirsOf, Volume
<1>5. b \in Block
  <2>1. b \in Block \cup {0}
    BY <1>3, <1>4 DEF InodeRecord
  <2>2. b # 0
    <3>1. <<q[1], 1>>[1] = q[1]
      OBVIOUS
    <3> QED
      BY <1>2, <3>1 DEF At, Unused
  <2> QED
    BY <2>1, <2>2
<1>6. new \in Volume /\ new.inodes = dk.inodes /\ new.blocks = dk.blocks /\ new.inode = dk.inode
  BY <1>3, <1>5 DEF Volume
<1>7. \A f \in Block, s \in Slots :
        new.content[f][s] = IF f = b /\ s = q[2] THEN e ELSE dk.content[f][s]
  BY <1>3, <1>5 DEF Volume
<1>8. ASSUME NEW c \in DirsOf(dk), NEW p \in Position
      PROVE  At(new, c, p) = IF c = d /\ p = q THEN e ELSE At(dk, c, p)
  <2> DEFINE f == dk.inode[c].block[p[1]]
  <2>1. p[1] \in Index /\ p[2] \in Slots /\ p = <<p[1], p[2]>> /\ q = <<q[1], q[2]>>
    BY <1>2 DEF Position
  <2>2. c \in dk.inodes /\ f \in Block \cup {0}
    BY <2>1 DEF DirsOf, Volume, InodeRecord
  <2>3. f = b => c = d /\ p[1] = q[1]
    BY <1>3, <1>4, <1>5, <2>1, <2>2, Ext2Assumption DEF Apart, Block
  <2>4. f = 0 => ~(c = d /\ p = q)
    BY <1>5, Ext2Assumption DEF Block
  <2>5. f # 0 => At(new, c, p) = new.content[f][p[2]] /\ At(dk, c, p) = dk.content[f][p[2]]
    BY <1>6 DEF At
  <2>6. f = 0 => At(new, c, p) = At(dk, c, p)
    BY <1>6 DEF At
  <2>7. c = d /\ p = q => f = b
    OBVIOUS
  <2> HIDE DEF f, b, new
  <2> QED
    BY <1>7, <2>1, <2>2, <2>3, <2>4, <2>5, <2>6, <2>7
<1>9. Clean(dk.inode[d]) /\ Filled(dk.inode[d])
  BY <1>4 DEF Tidy
<1> HIDE DEF new
<1> QED
  BY <1>1, <1>2, <1>6, <1>8, <1>9 DEF Entered

LEMMA UpTo ==
  ASSUME NEW n \in Nat
  PROVE  Cardinality(1 .. n) = n
<1>1. 1 \in Int /\ n \in Int
  OBVIOUS
<1>2. Cardinality(1 .. n) = IF 1 > n THEN 0 ELSE n - 1 + 1
  BY <1>1, FS_Interval, Zenon
<1> QED
  BY <1>2

(* In a directory filled from the front the first free place is after as   *)
(* many as are taken.                                                      *)
LEMMA FilledTo ==
  ASSUME NEW r \in InodeRecord, Filled(r)
  PROVE  LET k == 1 + Cardinality({j \in Index : r.block[j] # 0})
         IN  \/ k = DIRECT + 1 /\ \A j \in Index : r.block[j] # 0
             \/ k \in Index /\ r.block[k] = 0 /\ \A j \in Index : j < k => r.block[j] # 0
<1> DEFINE J == {j \in Index : r.block[j] # 0}
           E == Index \ J
<1>1. DIRECT \in Nat
  BY Ext2Assumption
<1>2. CASE E = {}
  <2>1. J = 1 .. DIRECT
    BY <1>2 DEF Index
  <2>2. Cardinality(J) = DIRECT
    BY <2>1, <1>1, UpTo
  <2>3. \A j \in Index : r.block[j] # 0
    BY <1>2
  <2> QED
    BY <2>2, <2>3, <1>1
<1>3. CASE E # {}
  <2>1. E \in SUBSET Nat
    BY DEF Index
  <2>2. PICK m \in E : \A y \in E : m <= y
    BY <1>3, <2>1, LeastOf
  <2>3. m \in Index /\ r.block[m] = 0 /\ m \in Nat /\ m >= 1
    BY <2>2 DEF Index
  <2>4. \A j \in Index : j < m => r.block[j] # 0
    BY <2>2, <2>3 DEF Index
  <2>5. \A j \in Index : j > m => r.block[j] = 0
    BY <2>3 DEF Filled, Index
  <2>6. J = 1 .. (m - 1)
    BY <2>3, <2>4, <2>5, <1>1 DEF Index
  <2>7. Cardinality(J) = m - 1
    <3>1. m - 1 \in Nat
      BY <2>3
    <3> QED
      BY <2>6, <3>1, UpTo
  <2>8. 1 + Cardinality(J) = m
    BY <2>7, <2>3
  <2> QED
    BY <2>3, <2>4, <2>8
<1> QED
  BY <1>2, <1>3

LEMMA IntoNewBlock ==
  ASSUME NEW dk \in Volume, Apart(dk), Tidy(dk), NEW d \in DirsOf(dk), NEW e \in DirectoryEntry,
         NEW b \in Block \ dk.blocks, NEW k \in Index, dk.inode[d].block[k] = 0,
         \A j \in Index : j < k => dk.inode[d].block[j] # 0
  PROVE  Entered(dk, [dk EXCEPT !.blocks = @ \cup {b}, !.inode[d].block[k] = b,
                                !.content[b] = [Zeroed EXCEPT ![1] = e]], d, e)
<1> DEFINE r == dk.inode[d]
           more == [r EXCEPT !.block[k] = b]
           first == [Zeroed EXCEPT ![1] = e]
           new == [dk EXCEPT !.blocks = @ \cup {b}, !.inode[d].block[k] = b, !.content[b] = first]
           q == <<k, 1>>
<1>1. d \in dk.inodes /\ d \in Inode /\ r \in InodeRecord /\ r.kind = "Dir" /\ Clean(r) /\ Filled(r)
  BY DEF DirsOf, Volume, Tidy
<1>2. more \in InodeRecord /\ more.kind = r.kind /\ more.links = r.links
  BY <1>1 DEF InodeRecord
<1>3. \A l \in Index : more.block[l] = IF l = k THEN b ELSE r.block[l]
  BY <1>1 DEF InodeRecord
<1>4. first \in [Slots -> DirectoryEntry] /\ \A s \in Slots : first[s] = IF s = 1 THEN e ELSE Unused
  BY Ext2Assumption DEF Zeroed, Unused, DirectoryEntry, Slots
<1>5. b # 0 /\ 1 \in Slots
  BY Ext2Assumption DEF Block, Slots
<1>6. q \in Position /\ q[1] = k /\ q[2] = 1
  BY <1>5 DEF Position
<1> HIDE DEF first
<1>7. /\ new.inodes = dk.inodes /\ new.blocks = dk.blocks \cup {b}
      /\ new.inode = [dk.inode EXCEPT ![d] = more]
      /\ new.content = [dk.content EXCEPT ![b] = first]
  BY DEF Volume
<1>8. /\ new.inode[d] = more /\ \A i \in Inode \ {d} : new.inode[i] = dk.inode[i]
      /\ new.content[b] = first /\ \A f \in Block \ {b} : new.content[f] = dk.content[f]
  BY <1>1, <1>7 DEF Volume
<1>9. new \in Volume
  <2> HIDE DEF more
  <2>1. new = [dk EXCEPT !.inode = [dk.inode EXCEPT ![d] = more], !.blocks = dk.blocks \cup {b},
                         !.content = [dk.content EXCEPT ![b] = first]]
    BY Zenon DEF more
  <2>2. [dk.inode EXCEPT ![d] = more] \in [Inode -> InodeRecord]
    BY <1>2 DEF Volume
  <2>3. [dk.content EXCEPT ![b] = first] \in [Block -> [Slots -> DirectoryEntry]]
    BY <1>4 DEF Volume
  <2>4. dk.inodes \in SUBSET Inode /\ dk.blocks \cup {b} \in SUBSET Block
    BY DEF Volume
  <2> QED
    BY <2>1, <2>2, <2>3, <2>4 DEF Volume
<1> HIDE DEF more, new
<1>10. \A l \in Index : r.block[l] # 0 => r.block[l] \in dk.blocks /\ r.block[l] # b
  BY <1>1 DEF Apart
<1>11. Clean(more)
  BY <1>1, <1>3, <1>5, <1>10 DEF Clean
<1>12. Filled(more)
  <2> SUFFICES ASSUME NEW j \in Index, NEW l \in Index, j < l, more.block[l] # 0
               PROVE  more.block[j] # 0
    BY DEF Filled
  <2>1. CASE l = k
    BY <2>1, <1>3, <1>5
  <2>2. CASE l # k
    BY <2>2, <1>1, <1>3, <1>5 DEF Filled
  <2> QED
    BY <2>1, <2>2
<1>13. ASSUME NEW c \in DirsOf(dk), NEW p \in Position
       PROVE  At(new, c, p) = IF c = d /\ p = q THEN e ELSE At(dk, c, p)
  <2> DEFINE f == dk.inode[c].block[p[1]]
  <2>1. p[1] \in Index /\ p[2] \in Slots /\ p = <<p[1], p[2]>>
    BY DEF Position
  <2>2. c \in dk.inodes /\ c \in Inode /\ f \in Block \cup {0}
    BY <2>1 DEF DirsOf, Volume, InodeRecord
  <2>3. f # 0 => f \in dk.blocks /\ f # b /\ f \in Block
    <3>1. f # 0 => f \in dk.blocks
      BY <2>1, <2>2 DEF Apart
    <3> HIDE DEF f
    <3> QED
      BY <3>1, <2>2
  <2>4. CASE c = d /\ p[1] = k
    <3>1. new.inode[c].block[p[1]] = b
      BY <2>4, <2>1, <1>3, <1>8
    <3>2. At(new, c, p) = first[p[2]]
      BY <3>1, <1>5, <1>8 DEF At
    <3>3. At(dk, c, p) = Unused
      BY <2>4 DEF At
    <3>4. p = q <=> p[2] = 1
      BY <2>1, <2>4
    <3> QED
      BY <1>4, <2>1, <2>4, <3>2, <3>3, <3>4
  <2>5. CASE ~(c = d /\ p[1] = k)
    <3>1. new.inode[c].block[p[1]] = f
      BY <2>5, <2>1, <2>2, <1>3, <1>8
    <3>2. At(new, c, p) = At(dk, c, p)
      BY <3>1, <2>3, <1>8 DEF At
    <3>3. ~(c = d /\ p = q)
      BY <2>5, <1>6
    <3> QED
      BY <3>2, <3>3
  <2> QED
    BY <2>4, <2>5
<1>14. At(dk, d, q).name = NoName
  BY <1>6 DEF At, Unused
<1>15. /\ \A l \in Index : \/ new.inode[d].block[l] = dk.inode[d].block[l]
                           \/ /\ dk.inode[d].block[l] = 0
                              /\ new.inode[d].block[l] \in new.blocks \ dk.blocks
       /\ \A f \in new.blocks \ dk.blocks : f # 0 /\ \E l \in Index : new.inode[d].block[l] = f
  BY <1>3, <1>5, <1>7, <1>8
<1>16. Entered(dk, new, d, e)
  <2>1. /\ \E y \in Position :
              /\ At(dk, d, y).name = NoName
              /\ \A c \in DirsOf(dk), p \in Position :
                    At(new, c, p) = IF c = d /\ p = y THEN e ELSE At(dk, c, p)
        /\ \A c \in DirsOf(dk), p \in Position :
              At(new, c, p) # At(dk, c, p) => c = d /\ At(dk, c, p).name = NoName
    BY <1>6, <1>13, <1>14
  <2> QED
    BY <2>1, <1>2, <1>7, <1>8, <1>9, <1>11, <1>12, <1>15 DEF Entered
<1> QED
  BY <1>16 DEF new, first

LEMMA AddedIs ==
  ASSUME NEW dk \in Volume, Apart(dk), Tidy(dk), NEW d \in DirsOf(dk), NEW e \in DirectoryEntry
  PROVE  LET a == Added(dk, d, e)
         IN  \/ a.ok /\ Entered(dk, a.disk, d, e)
             \/ /\ ~a.ok /\ dk.blocks \subseteq a.disk.blocks /\ a.disk.blocks \subseteq Block
                /\ a.disk = [dk EXCEPT !.blocks = a.disk.blocks]
                /\ \/ a.disk.blocks = dk.blocks
                   \/ Room(dk, d) = {} /\ \A j \in Index : dk.inode[d].block[j] # 0
<1> DEFINE b == FreeBlock(dk)
           k == 1 + Cardinality({j \in Index : dk.inode[d].block[j] # 0})
           taken == [dk EXCEPT !.blocks = @ \cup {b}]
<1>1. CASE Room(dk, d) # {}
  BY <1>1, IntoRoom
<1>2. CASE Room(dk, d) = {} /\ b = 0
  <2>1. Added(dk, d, e) = [ok |-> FALSE, disk |-> dk]
    BY <1>2 DEF Added, Grown
  <2>2. dk = [dk EXCEPT !.blocks = dk.blocks] /\ dk.blocks \subseteq Block
    BY DEF Volume
  <2> QED
    BY <2>1, <2>2
<1>3. CASE Room(dk, d) = {} /\ b # 0 /\ k > DIRECT
  <2>1. Added(dk, d, e) = [ok |-> FALSE, disk |-> taken]
    BY <1>3 DEF Added, Grown
  <2>2. b \in Block
    BY <1>3, FreeBlockIs
  <2>3. taken.blocks = dk.blocks \cup {b} /\ taken = [dk EXCEPT !.blocks = taken.blocks]
    BY DEF Volume
  <2>4. taken.blocks \subseteq Block
    BY <2>2, <2>3 DEF Volume
  <2>5. \A j \in Index : dk.inode[d].block[j] # 0
    <3>1. dk.inode[d] \in InodeRecord /\ Filled(dk.inode[d])
      BY DEF DirsOf, Volume, Tidy
    <3>2. ~(k \in Index)
      BY <1>3, Ext2Assumption DEF Index
    <3> QED
      BY <3>1, <3>2, FilledTo
  <2> HIDE DEF taken
  <2> QED
    BY <1>3, <2>1, <2>3, <2>4, <2>5
<1>4. CASE Room(dk, d) = {} /\ b # 0 /\ ~(k > DIRECT)
  <2>1. b \in Block \ dk.blocks
    BY <1>4, FreeBlockIs
  <2>2. dk.inode[d] \in InodeRecord /\ Filled(dk.inode[d])
    BY DEF DirsOf, Volume, Tidy
  <2>3. k \in Index /\ dk.inode[d].block[k] = 0 /\ \A j \in Index : j < k => dk.inode[d].block[j] # 0
    <3>1. ~(DIRECT + 1 <= DIRECT) /\ (k = DIRECT + 1 => k > DIRECT)
      BY Ext2Assumption
    <3> QED
      BY <2>2, <3>1, <1>4, FilledTo
  <2>4. Added(dk, d, e) =
          [ok |-> TRUE, disk |-> [taken EXCEPT !.inode[d].block[k] = b,
                                               !.content[b] = [Zeroed EXCEPT ![1] = e]]]
    BY <1>4 DEF Added, Grown
  <2> HIDE DEF b, k
  <2>5. [taken EXCEPT !.inode[d].block[k] = b, !.content[b] = [Zeroed EXCEPT ![1] = e]]
          = [dk EXCEPT !.blocks = @ \cup {b}, !.inode[d].block[k] = b,
                       !.content[b] = [Zeroed EXCEPT ![1] = e]]
    BY DEF Volume
  <2>6. Entered(dk, [dk EXCEPT !.blocks = @ \cup {b}, !.inode[d].block[k] = b,
                               !.content[b] = [Zeroed EXCEPT ![1] = e]], d, e)
    BY <2>1, <2>3, IntoNewBlock
  <2> QED
    BY <2>4, <2>5, <2>6
<1> QED
  BY <1>1, <1>2, <1>3, <1>4

-----------------------------------------------------------------------------
(* What steps leave sound.                                                 *)

LEMMA NamesFinite ==
  ASSUME NEW dk \in Volume, NEW i
  PROVE  IsFiniteSet(NamesOf(dk, i)) /\ Cardinality(NamesOf(dk, i)) \in Nat
<1>1. IsFiniteSet(Inode) /\ IsFiniteSet(Index) /\ IsFiniteSet(Slots)
  BY FS_Interval, Ext2Assumption DEF Inode, Index, Slots, Root
<1>2. IsFiniteSet(Position)
  BY <1>1, FS_Product DEF Position
<1>3. DirsOf(dk) \in SUBSET Inode
  BY DEF DirsOf, Volume
<1>4. IsFiniteSet(DirsOf(dk))
  BY <1>1, <1>3, FS_Subset
<1>5. IsFiniteSet(DirsOf(dk) \X Position)
  BY <1>2, <1>4, FS_Product
<1>6. NamesOf(dk, i) \in SUBSET (DirsOf(dk) \X Position)
  BY DEF NamesOf
<1>7. IsFiniteSet(NamesOf(dk, i))
  BY <1>5, <1>6, FS_Subset
<1> QED
  BY <1>7, FS_CardinalityType

(* Nothing but the inode d has a block more, which was free.               *)
Extended(dk, nd, gn, new, nd2, gn2, d) ==
  /\ dk.blocks \subseteq new.blocks
  /\ \A i \in Inode, b \in Block :
        Has(new, nd2, gn2, i, b) => Has(dk, nd, gn, i, b) \/ (i = d /\ b \in new.blocks \ dk.blocks)

LEMMA OwnedMore ==
  ASSUME NEW dk, NEW nd, NEW gn, Owned(dk, nd, gn), NEW new, NEW nd2, NEW gn2, NEW d,
         Extended(dk, nd, gn, new, nd2, gn2, d)
  PROVE  Owned(new, nd2, gn2)
<1> SUFFICES ASSUME NEW b \in Block, NEW i \in Inode, NEW j \in Inode, Has(new, nd2, gn2, i, b)
             PROVE  b \in new.blocks /\ (Has(new, nd2, gn2, j, b) => i = j)
  BY Zenon DEF Owned
<1>1. /\ Has(dk, nd, gn, i, b) => b \in dk.blocks /\ (Has(dk, nd, gn, j, b) => i = j)
      /\ Has(dk, nd, gn, j, b) => b \in dk.blocks
  BY Zenon DEF Owned
<1>2. /\ Has(dk, nd, gn, i, b) \/ (i = d /\ b \in new.blocks \ dk.blocks)
      /\ Has(new, nd2, gn2, j, b) =>
           Has(dk, nd, gn, j, b) \/ (j = d /\ b \in new.blocks \ dk.blocks)
      /\ dk.blocks \subseteq new.blocks
  BY Zenon DEF Extended
<1> QED
  BY <1>1, <1>2

(* The inodes T are freed, entries are taken away; marks may be added.     *)
Receded(dk, new, T, nd, gn) ==
  /\ new \in Volume /\ Root \notin T /\ new.inodes = dk.inodes \ T
  /\ \A i \in new.inodes : /\ new.inode[i].kind = dk.inode[i].kind
                           /\ new.inode[i].block = dk.inode[i].block
  /\ \A c \in DirsOf(dk) \ T, p \in Position :
        At(new, c, p) = At(dk, c, p) \/ At(new, c, p).inode = 0
  /\ \A b \in dk.blocks \ new.blocks : \E t \in T \cap Inode : Has(dk, nd, gn, t, b)

Gone(nd, T) == {h \in Handle : nd[h] # NoNode /\ nd[h].idx \in T}

LEMMA RecededShape ==
  ASSUME NEW dk, NEW nd, NEW gn, Shape(dk, nd, gn), NEW new, NEW T, Receded(dk, new, T, nd, gn)
  PROVE  /\ Shape(new, nd, gn \cup Gone(nd, T))
         /\ \A i \in Inode : NamesOf(new, i) \subseteq NamesOf(dk, i)
         /\ DirsOf(new) = DirsOf(dk) \ T
<1> DEFINE gn2 == gn \cup Gone(nd, T)
<1>1. DirsOf(new) = DirsOf(dk) \ T
  BY DEF DirsOf, Receded
<1>2. ASSUME NEW i \in Inode PROVE NamesOf(new, i) \subseteq NamesOf(dk, i)
  <2> SUFFICES ASSUME NEW x \in NamesOf(new, i) PROVE x \in NamesOf(dk, i)
    OBVIOUS
  <2>1. /\ x[1] \in DirsOf(dk) \ T /\ x[2] \in Position /\ x \in DirsOf(dk) \X Position
        /\ At(new, x[1], x[2]).inode = i /\ At(new, x[1], x[2]).name # Dot
    BY <1>1 DEF NamesOf
  <2>2. i # 0
    BY DEF Inode, Root
  <2>3. At(new, x[1], x[2]) = At(dk, x[1], x[2])
    BY <2>1, <2>2 DEF Receded
  <2> QED
    BY <2>1, <2>3 DEF NamesOf
<1>3. RootKept(new)
  <2>1. Root \in Inode
    BY DEF Shape, RootKept, DirsOf, Volume
  <2> QED
    BY <1>1, <1>2, <2>1 DEF RootKept, Shape, Receded
<1>4. Tidy(new)
  <2> SUFFICES ASSUME NEW i \in new.inodes
               PROVE  Clean(new.inode[i]) /\ (new.inode[i].kind = "Dir" => Filled(new.inode[i]))
    BY DEF Tidy
  <2>1. i \in dk.inodes /\ new.inode[i].kind = dk.inode[i].kind /\ new.inode[i].block = dk.inode[i].block
    BY DEF Receded
  <2>2. Clean(dk.inode[i]) /\ (dk.inode[i].kind = "Dir" => Filled(dk.inode[i]))
    BY <2>1 DEF Shape, Tidy
  <2> QED
    BY <2>1, <2>2 DEF Clean, Filled
<1>5. Held(nd, gn2) \subseteq Held(nd, gn) /\ \A h \in Held(nd, gn2) : nd[h].idx \notin T
  BY DEF Held, Gone
<1>6. ASSUME NEW i \in Inode, NEW b \in Block, Has(new, nd, gn2, i, b)
      PROVE  Has(dk, nd, gn, i, b) /\ i \notin T
  <2>1. CASE i \in new.inodes /\ \E k \in Index : new.inode[i].block[k] = b
    BY <2>1 DEF Receded, Has
  <2>2. CASE \E h \in Held(nd, gn2), k \in Index : nd[h].idx = i /\ nd[h].inode.block[k] = b
    BY <2>2, <1>5 DEF Has
  <2> QED
    BY <1>6, <2>1, <2>2, Zenon DEF Has
<1>7. Owned(new, nd, gn2)
  <2> SUFFICES ASSUME NEW b \in Block, NEW i \in Inode, NEW j \in Inode, Has(new, nd, gn2, i, b)
               PROVE  b \in new.blocks /\ (Has(new, nd, gn2, j, b) => i = j)
    BY Zenon DEF Owned
  <2>1. Owned(dk, nd, gn)
    BY DEF Shape
  <2>2. /\ b \in dk.blocks
        /\ \A t \in Inode : Has(dk, nd, gn, t, b) => i = t
    BY <1>6, <2>1, Zenon DEF Owned
  <2>3. b \in new.blocks
    BY <1>6, <2>2 DEF Receded
  <2> QED
    BY <1>6, <2>2, <2>3, Zenon
<1>8. Copies(new, nd, gn2)
  <2> SUFFICES ASSUME NEW h \in Held(nd, gn2)
               PROVE  /\ nd[h].idx \in new.inodes /\ new.inode[nd[h].idx].kind = "File"
                      /\ nd[h].inode.kind = "File" /\ nd[h].inode.links = 1 /\ Clean(nd[h].inode)
    BY DEF Copies
  <2>1. /\ nd[h].idx \in dk.inodes /\ dk.inode[nd[h].idx].kind = "File"
        /\ nd[h].inode.kind = "File" /\ nd[h].inode.links = 1 /\ Clean(nd[h].inode)
    BY <1>5, Zenon DEF Shape, Copies
  <2> QED
    BY <2>1, <1>5 DEF Receded
<1>9. new \in Volume
  BY DEF Receded
<1>10. Blank(new)
  <2>1. \A c \in DirsOf(dk) \ T, p \in Position :
          At(new, c, p) = At(dk, c, p) \/ At(new, c, p).inode = 0
    BY DEF Receded
  <2>2. Blank(dk)
    BY DEF Shape
  <2> QED
    BY <1>1, <2>1, <2>2 DEF Blank
<1> QED
  BY <1>1, <1>2, <1>3, <1>4, <1>7, <1>8, <1>9, <1>10 DEF Shape

LEMMA NoneReceded ==
  ASSUME NEW dk, NEW nd, NEW gn, Shape(dk, nd, gn), NEW new, Receded(dk, new, {}, nd, gn)
  PROVE  /\ Shape(new, nd, gn) /\ DirsOf(new) = DirsOf(dk)
         /\ \A i \in Inode : NamesOf(new, i) \subseteq NamesOf(dk, i)
<1> DEFINE T == {}
<1>1. gn \cup Gone(nd, T) = gn /\ DirsOf(dk) \ T = DirsOf(dk)
  BY DEF Gone
<1>2. Receded(dk, new, T, nd, gn)
  OBVIOUS
<1> HIDE DEF T
<1>3. /\ Shape(new, nd, gn \cup Gone(nd, T)) /\ DirsOf(new) = DirsOf(dk) \ T
      /\ \A i \in Inode : NamesOf(new, i) \subseteq NamesOf(dk, i)
  BY <1>2, RecededShape
<1> QED
  BY <1>1, <1>3

LEMMA CountedFewer ==
  ASSUME NEW dk \in Volume, Counted(dk), NEW new \in Volume,
         \A i \in Inode : NamesOf(new, i) # {} =>
           /\ NamesOf(new, i) \subseteq NamesOf(dk, i)
           /\ i \in new.inodes /\ new.inode[i].links >= dk.inode[i].links
  PROVE  Counted(new)
<1> SUFFICES ASSUME NEW i \in Inode, NamesOf(new, i) # {}
             PROVE  i \in new.inodes /\ new.inode[i].links >= Cardinality(NamesOf(new, i))
  BY DEF Counted
<1>1. NamesOf(new, i) \in SUBSET NamesOf(dk, i) /\ NamesOf(dk, i) # {}
  BY Zenon
<1>2. Cardinality(NamesOf(new, i)) <= Cardinality(NamesOf(dk, i))
  BY <1>1, NamesFinite, FS_Subset
<1>3. dk.inode[i].links >= Cardinality(NamesOf(dk, i))
  BY <1>1 DEF Counted
<1>4. i \in new.inodes /\ new.inode[i].links >= dk.inode[i].links
  BY Zenon
<1>5. dk.inode[i].links \in Nat /\ new.inode[i].links \in Nat
  BY DEF Volume, InodeRecord
<1>6. Cardinality(NamesOf(dk, i)) \in Nat /\ Cardinality(NamesOf(new, i)) \in Nat
  BY NamesFinite
<1> QED
  BY ONLY <1>2, <1>3, <1>4, <1>5, <1>6

LEMMA EnteredShape ==
  ASSUME NEW dk, NEW nd, NEW gn, Shape(dk, nd, gn), NEW d \in DirsOf(dk),
         NEW e \in DirectoryEntry, e.inode # Root, e.name # NoName,
         NEW new, Entered(dk, new, d, e)
  PROVE  /\ Shape(new, nd, gn) /\ DirsOf(new) = DirsOf(dk)
         /\ \E x : \A i \in Inode :
               NamesOf(new, i) \subseteq NamesOf(dk, i) \cup (IF i = e.inode THEN {x} ELSE {})
<1>1. dk \in Volume /\ new \in Volume /\ new.inodes = dk.inodes /\ d \in dk.inodes /\ d \in Inode
  BY DEF Shape, Entered, DirsOf, Volume
<1>2. \A i \in Inode : new.inode[i].kind = dk.inode[i].kind
  BY DEF Entered
<1>3. DirsOf(new) = DirsOf(dk)
  BY <1>1, <1>2 DEF DirsOf, Volume
<1>4. PICK q \in Position : \A c \in DirsOf(dk), p \in Position :
        At(new, c, p) = IF c = d /\ p = q THEN e ELSE At(dk, c, p)
  BY DEF Entered
<1>5. ASSUME NEW i \in Inode
      PROVE  NamesOf(new, i) \subseteq NamesOf(dk, i) \cup (IF i = e.inode THEN {<<d, q>>} ELSE {})
  <2> SUFFICES ASSUME NEW x \in NamesOf(new, i), ~(i = e.inode /\ x = <<d, q>>)
               PROVE  x \in NamesOf(dk, i)
    OBVIOUS
  <2>1. /\ x[1] \in DirsOf(dk) /\ x[2] \in Position /\ x \in DirsOf(dk) \X Position
        /\ x = <<x[1], x[2]>>
        /\ At(new, x[1], x[2]).inode = i /\ At(new, x[1], x[2]).name # Dot
    BY <1>3 DEF NamesOf
  <2>2. At(new, x[1], x[2]) = At(dk, x[1], x[2])
    BY <2>1, <1>4
  <2> QED
    BY <2>1, <2>2 DEF NamesOf
<1>6. RootKept(new)
  <2>1. Root \in Inode /\ Root \in DirsOf(dk) /\ NamesOf(dk, Root) = {}
    BY <1>1 DEF Shape, RootKept, DirsOf, Volume
  <2> QED
    BY <1>3, <1>5, <2>1 DEF RootKept
<1>7. Tidy(new)
  <2> SUFFICES ASSUME NEW i \in new.inodes
               PROVE  Clean(new.inode[i]) /\ (new.inode[i].kind = "Dir" => Filled(new.inode[i]))
    BY DEF Tidy
  <2>1. CASE i = d
    BY <2>1 DEF Entered
  <2>2. CASE i # d
    <3>1. i \in dk.inodes /\ new.inode[i] = dk.inode[i]
      BY <2>2, <1>1 DEF Entered, Volume
    <3> QED
      BY <3>1 DEF Shape, Tidy
  <2> QED
    BY <2>1, <2>2
<1>8. Owned(new, nd, gn)
  <2>1. ASSUME NEW i \in Inode, NEW b \in Block, Has(new, nd, gn, i, b)
        PROVE  Has(dk, nd, gn, i, b) \/ (i = d /\ b \in new.blocks \ dk.blocks)
    <3>1. CASE i \in new.inodes /\ \E k \in Index : new.inode[i].block[k] = b
      <4>1. PICK k \in Index : new.inode[i].block[k] = b
        BY <3>1
      <4>2. CASE i # d
        BY <4>1, <4>2, <3>1, <1>1 DEF Entered, Has
      <4>3. CASE i = d
        <5>1. \/ new.inode[d].block[k] = dk.inode[d].block[k]
              \/ new.inode[d].block[k] \in new.blocks \ dk.blocks
          BY Zenon DEF Entered
        <5> QED
          BY <5>1, <4>1, <4>3, <3>1, <1>1 DEF Has
      <4> QED
        BY <4>2, <4>3
    <3>2. CASE \E h \in Held(nd, gn), k \in Index : nd[h].idx = i /\ nd[h].inode.block[k] = b
      BY <3>2, Zenon DEF Has
    <3> QED
      BY <2>1, <3>1, <3>2, Zenon DEF Has
  <2>2. dk.blocks \subseteq new.blocks /\ Owned(dk, nd, gn)
    BY DEF Entered, Shape
  <2>3. Extended(dk, nd, gn, new, nd, gn, d)
    BY <2>1, <2>2, Zenon DEF Extended
  <2> QED
    BY <2>2, <2>3, OwnedMore, Zenon
<1>9. Copies(new, nd, gn)
  <2> SUFFICES ASSUME NEW h \in Held(nd, gn)
               PROVE  /\ nd[h].idx \in new.inodes /\ new.inode[nd[h].idx].kind = "File"
                      /\ nd[h].inode.kind = "File" /\ nd[h].inode.links = 1 /\ Clean(nd[h].inode)
    BY DEF Copies
  <2>1. /\ nd[h].idx \in dk.inodes /\ dk.inode[nd[h].idx].kind = "File"
        /\ nd[h].inode.kind = "File" /\ nd[h].inode.links = 1 /\ Clean(nd[h].inode)
    BY Zenon DEF Shape, Copies
  <2> QED
    BY <2>1, <1>1, <1>2 DEF Volume
<1>10. Blank(new)
  <2>1. Blank(dk)
    BY DEF Shape
  <2> QED
    BY <1>3, <1>4, <2>1 DEF Blank
<1> QED
  BY <1>1, <1>3, <1>5, <1>6, <1>7, <1>8, <1>9, <1>10 DEF Shape

-----------------------------------------------------------------------------
(* create_file and create_dir.                                             *)

WithInode(dk, i, kind) == [dk EXCEPT !.inode[i] = New(kind), !.inodes = @ \cup {i}]

LEMMA MadeShape ==
  ASSUME NEW dk, NEW nd, NEW gn, Shape(dk, nd, gn), Counted(dk), Single(dk),
         NEW i \in Inode \ dk.inodes, NEW kind \in {"File", "Dir"}
  PROVE  LET made == WithInode(dk, i, kind)
         IN  /\ Shape(made, nd, gn) /\ Counted(made) /\ Single(made)
             /\ NamesOf(made, i) = {} /\ made.inode[i] = New(kind)
             /\ made.inodes = dk.inodes \cup {i} /\ DirsOf(dk) \subseteq DirsOf(made)
             /\ made.blocks = dk.blocks
             /\ \A j \in Inode \ {i} : made.inode[j] = dk.inode[j]
             /\ \A c \in DirsOf(dk), p \in Position : At(made, c, p) = At(dk, c, p)
<1> DEFINE made == WithInode(dk, i, kind)
<1>1. dk \in Volume
  BY DEF Shape
<1>2. New(kind) \in InodeRecord /\ New(kind).links = 1 /\ \A k \in Index : New(kind).block[k] = 0
  BY DEF New, InodeRecord
<1>3. /\ made \in Volume /\ made.inodes = dk.inodes \cup {i} /\ made.blocks = dk.blocks
      /\ made.content = dk.content /\ made.inode[i] = New(kind)
      /\ \A j \in Inode \ {i} : made.inode[j] = dk.inode[j]
  <2> HIDE DEF New
  <2> QED
    BY <1>1, <1>2 DEF Volume, WithInode
<1> HIDE DEF made
<1>4. \A j \in dk.inodes : j \in Inode /\ j # i /\ made.inode[j] = dk.inode[j]
  BY <1>1, <1>3 DEF Volume
<1>5. DirsOf(dk) \subseteq DirsOf(made) /\ DirsOf(made) \subseteq DirsOf(dk) \cup {i}
  BY <1>3, <1>4 DEF DirsOf
<1>6. \A c \in DirsOf(dk), p \in Position : At(made, c, p) = At(dk, c, p)
  BY <1>3, <1>4 DEF At, DirsOf
<1>7. \A p \in Position : At(made, i, p) = Unused
  BY <1>2, <1>3 DEF At, Position
<1>8. ASSUME NEW j \in Inode PROVE NamesOf(made, j) \subseteq NamesOf(dk, j)
  <2> SUFFICES ASSUME NEW x \in NamesOf(made, j) PROVE x \in NamesOf(dk, j)
    OBVIOUS
  <2>1. /\ x[1] \in DirsOf(made) /\ x[2] \in Position /\ x = <<x[1], x[2]>>
        /\ At(made, x[1], x[2]).inode = j /\ At(made, x[1], x[2]).name # Dot
    BY DEF NamesOf
  <2>2. x[1] # i
    <3>1. Unused.inode # j
      BY DEF Unused, Inode, Root
    <3> QED
      BY <2>1, <3>1, <1>7
  <2>3. x[1] \in DirsOf(dk) /\ x \in DirsOf(dk) \X Position
    BY <2>1, <2>2, <1>5
  <2> QED
    BY <2>1, <2>3, <1>6 DEF NamesOf
<1>9. NamesOf(made, i) = {}
  <2>1. NamesOf(dk, i) = {}
    BY DEF Counted
  <2> QED
    BY <2>1, <1>8
<1>10. RootKept(made)
  <2>1. Root \in Inode /\ Root \in DirsOf(dk) /\ NamesOf(dk, Root) = {}
    BY <1>1 DEF Shape, RootKept, DirsOf, Volume
  <2> QED
    BY <1>5, <1>8, <2>1 DEF RootKept
<1>11. Tidy(made)
  <2>1. \A j \in made.inodes : \/ j \in dk.inodes /\ made.inode[j] = dk.inode[j]
                               \/ made.inode[j] = New(kind)
    BY <1>3, <1>4
  <2>2. Clean(New(kind)) /\ Filled(New(kind))
    BY <1>2 DEF Clean, Filled
  <2> QED
    BY <2>1, <2>2 DEF Shape, Tidy
<1>12. Owned(made, nd, gn)
  <2>1. ASSUME NEW j \in Inode, NEW b \in Block, Has(made, nd, gn, j, b)
        PROVE  Has(dk, nd, gn, j, b)
    <3>1. CASE j \in made.inodes /\ \E k \in Index : made.inode[j].block[k] = b
      <4>1. b # 0
        BY Ext2Assumption DEF Block
      <4>2. j # i
        BY <3>1, <4>1, <1>2, <1>3
      <4> QED
        BY <3>1, <4>2, <1>3 DEF Has
    <3>2. CASE \E h \in Held(nd, gn), k \in Index : nd[h].idx = j /\ nd[h].inode.block[k] = b
      BY <3>2, Zenon DEF Has
    <3> QED
      BY <2>1, <3>1, <3>2, Zenon DEF Has
  <2>2. Extended(dk, nd, gn, made, nd, gn, i)
    <3>1. dk.blocks \subseteq made.blocks
      BY <1>3
    <3> QED
      BY <2>1, <3>1, Zenon DEF Extended
  <2>3. Owned(dk, nd, gn)
    BY DEF Shape
  <2> QED
    BY <2>2, <2>3, OwnedMore, Zenon
<1>13. Copies(made, nd, gn)
  <2> SUFFICES ASSUME NEW h \in Held(nd, gn)
               PROVE  /\ nd[h].idx \in made.inodes /\ made.inode[nd[h].idx].kind = "File"
                      /\ nd[h].inode.kind = "File" /\ nd[h].inode.links = 1 /\ Clean(nd[h].inode)
    BY DEF Copies
  <2>1. /\ nd[h].idx \in dk.inodes /\ dk.inode[nd[h].idx].kind = "File"
        /\ nd[h].inode.kind = "File" /\ nd[h].inode.links = 1 /\ Clean(nd[h].inode)
    BY Zenon DEF Shape, Copies
  <2> QED
    BY <2>1, <1>3, <1>4
<1>14. Shape(made, nd, gn)
  <2>1. Blank(dk)
    BY DEF Shape
  <2>2. Blank(made)
    BY <1>5, <1>6, <1>7, <2>1 DEF Blank, Unused
  <2> QED
    BY <1>3, <1>10, <1>11, <1>12, <1>13, <2>2 DEF Shape
<1>15. Counted(made)
  <2>1. ASSUME NEW j \in Inode, NamesOf(made, j) # {}
        PROVE  /\ NamesOf(made, j) \subseteq NamesOf(dk, j)
               /\ j \in made.inodes /\ made.inode[j].links >= dk.inode[j].links
    <3>1. j # i /\ NamesOf(dk, j) # {} /\ NamesOf(made, j) \subseteq NamesOf(dk, j)
      BY <1>8, <1>9, <2>1
    <3>2. j \in dk.inodes
      BY <3>1 DEF Counted
    <3>3. dk.inode[j].links \in Nat
      BY <1>1 DEF Volume, InodeRecord
    <3> QED
      BY <3>1, <3>2, <3>3, <1>3, <1>4
  <2> QED
    BY <2>1, <1>1, <1>3, CountedFewer
<1>16. Single(made)
  BY <1>2, <1>3, <1>4 DEF Single
<1> QED
  BY <1>3, <1>5, <1>6, <1>9, <1>14, <1>15, <1>16 DEF made

(* Links are as before; e.inode has at most one name more.                 *)
LEMMA EnteredCounted ==
  ASSUME NEW dk, NEW nd, NEW gn, Shape(dk, nd, gn), Counted(dk), NEW d \in DirsOf(dk),
         NEW e \in DirectoryEntry, e.inode \in Inode \ {Root}, e.name # NoName,
         NEW new, Entered(dk, new, d, e)
  PROVE  /\ \A i \in Inode : /\ new.inode[i].links = dk.inode[i].links
                             /\ new.inode[i].kind = dk.inode[i].kind
         /\ \A i \in Inode : NamesOf(new, i) # {} /\ i # e.inode =>
              i \in new.inodes /\ new.inode[i].links >= Cardinality(NamesOf(new, i))
         /\ Cardinality(NamesOf(new, e.inode)) <= Cardinality(NamesOf(dk, e.inode)) + 1
<1>1. dk \in Volume /\ new \in Volume /\ new.inodes = dk.inodes
  BY DEF Shape, Entered
<1>2. PICK x : \A i \in Inode :
        NamesOf(new, i) \subseteq NamesOf(dk, i) \cup (IF i = e.inode THEN {x} ELSE {})
  BY EnteredShape
<1>3. \A i \in Inode : /\ new.inode[i].links = dk.inode[i].links
                       /\ new.inode[i].kind = dk.inode[i].kind
  BY DEF Entered
<1>4. ASSUME NEW i \in Inode, NamesOf(new, i) # {}, i # e.inode
      PROVE  i \in new.inodes /\ new.inode[i].links >= Cardinality(NamesOf(new, i))
  <2>1. NamesOf(new, i) \in SUBSET NamesOf(dk, i) /\ NamesOf(dk, i) # {}
    BY <1>2, <1>4
  <2>2. Cardinality(NamesOf(new, i)) <= Cardinality(NamesOf(dk, i))
    BY <2>1, <1>1, NamesFinite, FS_Subset
  <2>3. i \in dk.inodes /\ dk.inode[i].links >= Cardinality(NamesOf(dk, i))
    BY <2>1 DEF Counted
  <2>4. /\ dk.inode[i].links \in Nat /\ new.inode[i].links = dk.inode[i].links
        /\ i \in new.inodes
    BY <1>1, <1>3, <2>3 DEF Volume, InodeRecord
  <2>5. Cardinality(NamesOf(dk, i)) \in Nat /\ Cardinality(NamesOf(new, i)) \in Nat
    BY <1>1, NamesFinite
  <2> QED
    BY ONLY <2>2, <2>3, <2>4, <2>5
<1>5. Cardinality(NamesOf(new, e.inode)) <= Cardinality(NamesOf(dk, e.inode)) + 1
  <2> DEFINE j == e.inode
             N == NamesOf(dk, j) \cup {x}
  <2>1. NamesOf(new, j) \in SUBSET N
    BY <1>2
  <2>2. IsFiniteSet(NamesOf(dk, j)) /\ Cardinality(NamesOf(dk, j)) \in Nat
    BY <1>1, NamesFinite
  <2>3. IsFiniteSet(N) /\ Cardinality(N) <= Cardinality(NamesOf(dk, j)) + 1
    <3>1. /\ IsFiniteSet(N)
          /\ Cardinality(N) = IF x \in NamesOf(dk, j) THEN Cardinality(NamesOf(dk, j))
                              ELSE Cardinality(NamesOf(dk, j)) + 1
      BY <2>2, FS_AddElement, Zenon
    <3> QED
      BY <2>2, <3>1
  <2>4. Cardinality(NamesOf(new, j)) <= Cardinality(N)
    BY <2>1, <2>3, FS_Subset
  <2>5. Cardinality(NamesOf(new, j)) \in Nat /\ Cardinality(N) \in Nat
    BY <1>1, <2>3, NamesFinite, FS_CardinalityType
  <2> QED
    BY <2>2, <2>3, <2>4, <2>5
<1> QED
  BY <1>3, <1>4, <1>5

LEMMA CreateKeeps ==
  ASSUME Shape(disk, node, gone), Counted(disk), Single(disk), NEW d \in DirsOf(disk),
         NEW n \in Name, NEW kind \in {"File", "Dir"}, Create(d, n, kind)
  PROVE  Shape(disk', node, gone) /\ Counted(disk') /\ Single(disk')
<1> DEFINE i == FreeInode(disk)
           made == WithInode(disk, i, kind)
           e == [name |-> n, inode |-> i]
           added == Added(made, d, e)
<1>1. /\ i # 0
      /\ disk' = IF added.ok THEN added.disk ELSE Freed(added.disk, i, {})
  BY Zenon DEF Create, WithInode
<1>2. i \in Inode \ disk.inodes
  BY <1>1, FreeInodeIs
<1> HIDE DEF i
<1>3. /\ Shape(made, node, gone) /\ Counted(made) /\ Single(made)
      /\ NamesOf(made, i) = {} /\ made.inode[i] = New(kind)
      /\ made.inodes = disk.inodes \cup {i} /\ DirsOf(disk) \subseteq DirsOf(made)
      /\ made.blocks = disk.blocks
      /\ \A j \in Inode \ {i} : made.inode[j] = disk.inode[j]
      /\ \A c \in DirsOf(disk), p \in Position : At(made, c, p) = At(disk, c, p)
  BY <1>2, MadeShape
<1>4. d \in DirsOf(made) /\ d # i /\ d \in Inode
  BY <1>2, <1>3 DEF DirsOf, Shape, Volume
<1>5. e \in DirectoryEntry /\ e.inode = i /\ i # Root /\ i \in Inode /\ e.name # NoName
  BY <1>2, Ext2Assumption DEF DirectoryEntry, Shape, RootKept, DirsOf
<1> HIDE DEF made, e
<1>6. made \in Volume /\ Tidy(made) /\ Apart(made)
  BY <1>3, ShapeApart DEF Shape
<1>7. CASE added.ok
  <2> DEFINE new == added.disk
  <2>1. disk' = new /\ Entered(made, new, d, e)
    BY <1>1, <1>4, <1>5, <1>6, <1>7, AddedIs
  <2> HIDE DEF new
  <2>2. Shape(new, node, gone) /\ DirsOf(new) = DirsOf(made)
    BY <1>3, <1>4, <1>5, <2>1, EnteredShape
  <2>3. /\ \A j \in Inode : /\ new.inode[j].links = made.inode[j].links
                            /\ new.inode[j].kind = made.inode[j].kind
        /\ \A j \in Inode : NamesOf(new, j) # {} /\ j # i =>
              j \in new.inodes /\ new.inode[j].links >= Cardinality(NamesOf(new, j))
        /\ Cardinality(NamesOf(new, i)) <= Cardinality(NamesOf(made, i)) + 1
    <3>1. Shape(made, node, gone) /\ Counted(made)
      BY <1>3
    <3>2. e.inode \in Inode \ {Root}
      BY <1>5
    <3>3. /\ \A j \in Inode : /\ new.inode[j].links = made.inode[j].links
                              /\ new.inode[j].kind = made.inode[j].kind
          /\ \A j \in Inode : NamesOf(new, j) # {} /\ j # e.inode =>
                j \in new.inodes /\ new.inode[j].links >= Cardinality(NamesOf(new, j))
          /\ Cardinality(NamesOf(new, e.inode)) <= Cardinality(NamesOf(made, e.inode)) + 1
      BY <3>1, <3>2, <1>4, <1>5, <2>1, EnteredCounted
    <3> QED
      BY <3>3, <1>5
  <2>4. new.inodes = made.inodes /\ new \in Volume
    BY <2>1 DEF Entered
  <2>5. i \in new.inodes /\ new.inode[i].links = 1
    BY <1>2, <1>3, <2>3, <2>4 DEF New
  <2>6. Cardinality(NamesOf(new, i)) <= 1
    BY <1>3, <2>3, FS_EmptySet
  <2>7. Cardinality(NamesOf(new, i)) \in Nat
    BY <2>4, NamesFinite
  <2>8. Counted(new)
    BY <2>3, <2>5, <2>6, <2>7 DEF Counted
  <2>9. Single(new)
    <3>1. \A j \in made.inodes : j \in Inode
      BY <1>6 DEF Volume
    <3> QED
      BY <1>3, <2>3, <2>4, <3>1 DEF Single
  <2> QED
    BY <2>1, <2>2, <2>8, <2>9
<1>8. CASE ~added.ok
  <2> DEFINE failed == added.disk
             new == Freed(failed, i, {})
  <2>1. /\ disk' = new /\ made.blocks \subseteq failed.blocks /\ failed.blocks \subseteq Block
        /\ failed = [made EXCEPT !.blocks = failed.blocks]
    BY <1>1, <1>4, <1>5, <1>6, <1>8, AddedIs
  <2> HIDE DEF failed
  <2>2. /\ failed.inodes = made.inodes /\ failed.inode = made.inode /\ failed.content = made.content
        /\ failed \in Volume
    BY <2>1, <1>6 DEF Volume
  <2>3. FreeRecord \in InodeRecord
    BY DEF FreeRecord, InodeRecord
  <2>4. /\ new.inodes = made.inodes \ {i} /\ new.blocks = failed.blocks
        /\ \A j \in Inode \ {i} : new.inode[j] = made.inode[j]
        /\ \A b \in Block : new.content[b] = made.content[b]
    BY <1>2, <2>2 DEF Freed, Volume
  <2>5. new \in Volume
    BY <2>2, <2>3 DEF Freed, Volume
  <2> HIDE DEF new
  <2>6. Receded(made, new, {i}, node, gone)
    <3>1. ASSUME NEW c \in DirsOf(made) \ {i}, NEW p \in Position
          PROVE  At(new, c, p) = At(made, c, p)
      <4>1. c \in Inode /\ new.inode[c] = made.inode[c] /\ p[1] \in Index
        BY <1>6, <2>4 DEF DirsOf, Volume, Position
      <4>2. made.inode[c].block[p[1]] \in Block \cup {0}
        BY <1>6, <4>1 DEF Volume, InodeRecord
      <4> QED
        BY <4>1, <4>2, <2>4 DEF At
    <3>2. \A j \in new.inodes : j \in Inode \ {i}
      BY <2>4, <2>5 DEF Volume
    <3>3. made.blocks \ new.blocks = {}
      BY <2>1, <2>4
    <3> QED
      BY <1>5, <2>4, <2>5, <3>1, <3>2, <3>3 DEF Receded
  <2>7. /\ Shape(new, node, gone \cup Gone(node, {i}))
        /\ \A j \in Inode : NamesOf(new, j) \subseteq NamesOf(made, j)
    BY <1>3, <2>6, RecededShape
  <2>8. gone \cup Gone(node, {i}) = gone
    <3>1. \A h \in Handle \ gone : node[h] # NoNode => node[h].idx \in disk.inodes
      BY DEF Shape, Copies, Held
    <3> QED
      BY <1>2, <3>1 DEF Gone
  <2>9. Counted(new)
    <3>1. ASSUME NEW j \in Inode, NamesOf(new, j) # {}
          PROVE  /\ NamesOf(new, j) \subseteq NamesOf(made, j)
                 /\ j \in new.inodes /\ new.inode[j].links >= made.inode[j].links
      <4>1. j # i /\ NamesOf(made, j) # {} /\ NamesOf(new, j) \subseteq NamesOf(made, j)
        BY <1>3, <2>7, <3>1
      <4>2. j \in made.inodes /\ made.inode[j].links \in Nat
        BY <4>1, <1>3, <1>6 DEF Counted, Volume, InodeRecord
      <4> QED
        BY <4>1, <4>2, <2>4
    <3> QED
      BY <3>1, <1>3, <1>6, <2>5, CountedFewer
  <2>10. Single(new)
    <3>1. \A j \in new.inodes : j \in made.inodes /\ new.inode[j] = made.inode[j]
      BY <2>4, <2>5 DEF Volume
    <3> QED
      BY <1>3, <3>1 DEF Single
  <2> QED
    BY <2>1, <2>7, <2>8, <2>9, <2>10
<1> QED
  BY <1>7, <1>8

-----------------------------------------------------------------------------
(* remove.                                                                 *)

LEMMA UnlinkedTyped ==
  ASSUME NEW dk \in Volume, NEW d \in Inode, NEW q \in Position, At(dk, d, q).name # NoName
  PROVE  LET left == Unlinked(dk, d, q)
             b == dk.inode[d].block[q[1]]
         IN  /\ left \in Volume /\ b \in Block
             /\ left.inode = dk.inode /\ left.inodes = dk.inodes /\ left.blocks = dk.blocks
             /\ left.content[b][q[2]].inode = 0
             /\ \A f \in Block, s \in Slots :
                  ~(f = b /\ s = q[2]) => left.content[f][s] = dk.content[f][s]
<1> DEFINE left == Unlinked(dk, d, q)
           b == dk.inode[d].block[q[1]]
           old == dk.content[b][q[2]]
           e == IF q[2] > 1 THEN Unused ELSE [old EXCEPT !.inode = 0]
<1>1. q[1] \in Index /\ q[2] \in Slots
  BY DEF Position
<1>2. b \in Block
  <2>1. b \in Block \cup {0}
    BY <1>1 DEF Volume, InodeRecord
  <2>2. b # 0
    BY DEF At, Unused
  <2> QED
    BY <2>1, <2>2
<1>3. old \in DirectoryEntry
  BY <1>1, <1>2 DEF Volume
<1>4. e \in DirectoryEntry /\ e.inode = 0
  BY <1>3 DEF Unused, DirectoryEntry
<1>5. left = [dk EXCEPT !.content[b][q[2]] = e]
  BY DEF Unlinked
<1> HIDE DEF b, e, left
<1>6. /\ left \in Volume /\ left.inode = dk.inode /\ left.inodes = dk.inodes
      /\ left.blocks = dk.blocks
  BY <1>1, <1>2, <1>4, <1>5 DEF Volume
<1>7. \A f \in Block, s \in Slots :
        left.content[f][s] = IF f = b /\ s = q[2] THEN e ELSE dk.content[f][s]
  BY <1>1, <1>2, <1>5 DEF Volume
<1> QED
  BY <1>1, <1>2, <1>4, <1>6, <1>7 DEF b, left

LEMMA UnlinkedIs ==
  ASSUME NEW dk \in Volume, Apart(dk), NEW d \in DirsOf(dk), NEW q \in Position,
         At(dk, d, q).name # NoName
  PROVE  LET left == Unlinked(dk, d, q)
         IN  \A c \in DirsOf(dk), p \in Position :
               IF c = d /\ p = q THEN At(left, c, p).inode = 0 ELSE At(left, c, p) = At(dk, c, p)
<1> DEFINE left == Unlinked(dk, d, q)
           b == dk.inode[d].block[q[1]]
<1>1. d \in Inode /\ d \in dk.inodes
  BY DEF DirsOf, Volume
<1>2. /\ left \in Volume /\ b \in Block
      /\ left.inode = dk.inode /\ left.inodes = dk.inodes /\ left.blocks = dk.blocks
      /\ left.content[b][q[2]].inode = 0
      /\ \A f \in Block, s \in Slots :
           ~(f = b /\ s = q[2]) => left.content[f][s] = dk.content[f][s]
  BY <1>1, UnlinkedTyped
<1> HIDE DEF left
<1> SUFFICES ASSUME NEW c \in DirsOf(dk), NEW p \in Position
             PROVE  IF c = d /\ p = q THEN At(left, c, p).inode = 0
                    ELSE At(left, c, p) = At(dk, c, p)
  BY DEF left
<1> DEFINE f == dk.inode[c].block[p[1]]
<1>3. b # 0
  <2>1. 0 \notin Block
    BY DEF Block
  <2> QED
    BY <1>2, <2>1, Zenon
<1>4. /\ p[1] \in Index /\ p[2] \in Slots /\ p = <<p[1], p[2]>>
      /\ q[1] \in Index /\ q[2] \in Slots /\ q = <<q[1], q[2]>>
  BY DEF Position
<1>5. c \in dk.inodes /\ f \in Block \cup {0}
  BY <1>4 DEF DirsOf, Volume, InodeRecord
<1>6. b = f => d = c /\ q[1] = p[1]
  BY <1>1, <1>3, <1>4, <1>5 DEF Apart
<1>7. /\ f = 0 => At(left, c, p) = Unused /\ At(dk, c, p) = Unused
      /\ f # 0 => At(left, c, p) = left.content[f][p[2]] /\ At(dk, c, p) = dk.content[f][p[2]]
  BY <1>2 DEF At
<1>8. c = d /\ p = q => f = b
  OBVIOUS
<1> HIDE DEF b, f
<1> QED
  BY <1>2, <1>3, <1>4, <1>5, <1>6, <1>7, <1>8

(* One link less is an inode less, or the link.                            *)
LinkDropped(dk, new, t, nd, gn) ==
  /\ Receded(dk, new, dk.inodes \ new.inodes, nd, gn)
  /\ \/ /\ dk.inode[t].links = 1 /\ new.inodes = dk.inodes \ {t}
        /\ new.blocks = dk.blocks \ BlocksOf(dk.inode[t])
     \/ /\ dk.inode[t].links > 1 /\ new.inodes = dk.inodes /\ new.blocks = dk.blocks
        /\ new.inode[t].links = dk.inode[t].links - 1
  /\ \A i \in dk.inodes \ {t} : new.inode[i] = dk.inode[i]
  /\ \A c \in DirsOf(dk) \cap new.inodes, p \in Position : At(new, c, p) = At(dk, c, p)
  /\ t \in new.inodes => new.inode[t].kind = dk.inode[t].kind

LEMMA DroppedIs ==
  ASSUME NEW dk, NEW nd, NEW gn, Shape(dk, nd, gn), NEW t \in dk.inodes \ {Root},
         dk.inode[t].links # 0
  PROVE  LinkDropped(dk, Dropped(dk, t), t, nd, gn)
<1> DEFINE new == Dropped(dk, t)
           r == dk.inode[t]
<1>1. dk \in Volume /\ t \in Inode /\ r \in InodeRecord /\ Apart(dk)
  BY ShapeApart DEF Shape, Volume
<1>2. r.links \in Nat /\ r.links # 0
  BY <1>1 DEF InodeRecord
<1>3. CASE r.links = 1
  <2> DEFINE S == BlocksOf(r)
  <2>1. new = Freed(dk, t, S)
    BY <1>3 DEF Dropped
  <2>2. FreeRecord \in InodeRecord /\ Zeroed \in [Slots -> DirectoryEntry]
    BY DEF FreeRecord, InodeRecord, Zeroed, Unused, DirectoryEntry
  <2> HIDE DEF S, new
  <2>3. /\ new.inodes = dk.inodes \ {t} /\ new.blocks = dk.blocks \ S
        /\ \A i \in Inode \ {t} : new.inode[i] = dk.inode[i]
        /\ \A b \in Block : new.content[b] = IF b \in S THEN Zeroed ELSE dk.content[b]
    BY <1>1, <2>1 DEF Freed, Volume
  <2>4. new \in Volume
    BY <1>1, <2>1, <2>2 DEF Freed, Volume
  <2>5. ASSUME NEW b \in S PROVE Has(dk, nd, gn, t, b)
    BY DEF S, BlocksOf, Has
  <2>6. ASSUME NEW c \in DirsOf(dk) \ {t}, NEW p \in Position
        PROVE  At(new, c, p) = At(dk, c, p)
    <3> DEFINE f == dk.inode[c].block[p[1]]
    <3>1. c \in dk.inodes /\ c \in Inode /\ p[1] \in Index
      BY <1>1 DEF DirsOf, Volume, Position
    <3>2. f \in Block \cup {0} /\ new.inode[c] = dk.inode[c]
      BY <1>1, <2>3, <3>1 DEF Volume, InodeRecord
    <3>3. f # 0 => f \notin S
      BY <3>1, <1>1 DEF Apart, S, BlocksOf
    <3> QED
      BY <3>2, <3>3, <2>3 DEF At
  <2>7. \A i \in new.inodes : i \in Inode \ {t}
    BY <1>1, <2>3 DEF Volume
  <2>8. dk.inodes \ new.inodes = {t} /\ dk.blocks \ new.blocks \subseteq S
    BY <2>3
  <2>9. Receded(dk, new, {t}, nd, gn)
    <3>1. \A i \in new.inodes : /\ new.inode[i].kind = dk.inode[i].kind
                                /\ new.inode[i].block = dk.inode[i].block
      BY <2>3, <2>7
    <3>2. \A b \in dk.blocks \ new.blocks : Has(dk, nd, gn, t, b)
      BY <2>5, <2>8
    <3>3. Root \notin {t} /\ t \in {t} \cap Inode
      BY <1>1
    <3> QED
      BY <2>3, <2>4, <2>6, <3>1, <3>2, <3>3 DEF Receded
  <2>10. \A c \in DirsOf(dk) \cap new.inodes, p \in Position : At(new, c, p) = At(dk, c, p)
    BY <2>3, <2>6
  <2>11. new.blocks = dk.blocks \ BlocksOf(dk.inode[t])
    BY <2>3 DEF S
  <2>12. Receded(dk, new, dk.inodes \ new.inodes, nd, gn)
    BY <2>8, <2>9
  <2>13. \A i \in dk.inodes \ {t} : new.inode[i] = dk.inode[i]
    BY <1>1, <2>3 DEF Volume
  <2> QED
    BY <1>3, <2>3, <2>10, <2>11, <2>12, <2>13 DEF new, LinkDropped
<1>4. CASE r.links # 1
  <2> DEFINE less == [r EXCEPT !.links = r.links - 1]
  <2>1. new = [dk EXCEPT !.inode[t] = less]
    BY <1>2, <1>4 DEF Dropped
  <2>2. /\ less \in InodeRecord /\ less.kind = r.kind /\ less.block = r.block
        /\ less.links = r.links - 1
    BY <1>1, <1>2 DEF InodeRecord
  <2> HIDE DEF less, new
  <2>3. /\ new \in Volume /\ new.inodes = dk.inodes /\ new.blocks = dk.blocks
        /\ new.content = dk.content /\ new.inode[t] = less
        /\ \A i \in Inode \ {t} : new.inode[i] = dk.inode[i]
    BY <1>1, <2>1, <2>2 DEF Volume
  <2>4. \A i \in dk.inodes : i \in Inode /\ new.inode[i].kind = dk.inode[i].kind
                             /\ new.inode[i].block = dk.inode[i].block
    BY <1>1, <2>2, <2>3 DEF Volume
  <2>5. \A c \in DirsOf(dk), p \in Position : At(new, c, p) = At(dk, c, p)
    BY <2>3, <2>4 DEF At, DirsOf
  <2>6. Receded(dk, new, {}, nd, gn)
    BY <2>3, <2>4, <2>5 DEF Receded
  <2>7. dk.inodes \ new.inodes = {}
    BY <2>3
  <2>8. Receded(dk, new, dk.inodes \ new.inodes, nd, gn)
    BY <2>6, <2>7
  <2>9. r.links > 1
    BY <1>2, <1>4
  <2>10. \A i \in dk.inodes \ {t} : new.inode[i] = dk.inode[i]
    BY <2>3, <2>4
  <2>11. new.inode[t].kind = r.kind /\ new.inode[t].links = r.links - 1
    BY <2>2, <2>3
  <2>12. \A c \in DirsOf(dk) \cap new.inodes, p \in Position : At(new, c, p) = At(dk, c, p)
    BY <2>5
  <2> HIDE DEF r
  <2> QED
    BY <2>3, <2>8, <2>9, <2>10, <2>11, <2>12 DEF new, r, LinkDropped
<1> QED
  BY <1>3, <1>4

LEMMA FewerNames ==
  ASSUME NEW dk \in Volume, NEW new \in Volume, NEW i, NamesOf(new, i) \subseteq NamesOf(dk, i)
  PROVE  /\ Cardinality(NamesOf(new, i)) \in Nat /\ Cardinality(NamesOf(dk, i)) \in Nat
         /\ Cardinality(NamesOf(new, i)) <= Cardinality(NamesOf(dk, i))
  BY NamesFinite, FS_Subset

(* The first entry with a name, when it is not that of a removed file.     *)
LEMMA FirstNamed ==
  ASSUME NEW dk \in Volume, RootKept(dk), Counted(dk), NEW d \in DirsOf(dk), NEW n \in Name,
         Named(dk, d, n) # {}, ~MeetsDead(dk, d, n)
  PROVE  LET p == First(Named(dk, d, n))
             t == At(dk, d, p).inode
         IN  /\ p \in Position /\ At(dk, d, p).name = n /\ n # NoName /\ n # Dot
             /\ t \in dk.inodes \ {Root} /\ t \in Inode /\ t # 0 /\ <<d, p>> \in NamesOf(dk, t)
<1> DEFINE p == First(Named(dk, d, n))
           t == At(dk, d, p).inode
<1>1. Named(dk, d, n) \in SUBSET Position
  BY DEF Named
<1>2. p \in Named(dk, d, n)
  BY <1>1, FirstIs
<1>3. p \in Position /\ At(dk, d, p).name = n
  BY <1>2 DEF Named
<1>4. n # NoName /\ n # Dot
  BY Ext2Assumption
<1>5. t # 0
  BY DEF MeetsDead
<1> HIDE DEF p
<1>6. t \in dk.inodes /\ t # Root /\ <<d, p>> \in NamesOf(dk, t)
  BY <1>3, <1>4, <1>5, NamedInUse
<1>7. t \in Inode
  BY <1>6 DEF Volume
<1> QED
  BY <1>3, <1>4, <1>5, <1>6, <1>7 DEF p

(* What remove leaves, and which links it takes.                           *)
LinkTaken(dk, new, t) ==
  /\ t \in dk.inodes /\ new.inodes \subseteq dk.inodes
  /\ \A i \in new.inodes : new.inode[i].kind = dk.inode[i].kind
  /\ \A i \in new.inodes \ {t} : new.inode[i].links = dk.inode[i].links
  /\ t \in new.inodes /\ new.inode[t].kind = "File" =>
        dk.inode[t].links > 1 /\ new.inode[t].links = dk.inode[t].links - 1

LEMMA RemovedKeeps ==
  ASSUME NEW dk, NEW nd, NEW gn, Shape(dk, nd, gn), Counted(dk), NEW d \in DirsOf(dk),
         NEW n \in Name, ~MeetsDead(dk, d, n), NEW new \in Removed(dk, d, n)
  PROVE  /\ Shape(new, nd, gn \cup Gone(nd, dk.inodes \ new.inodes)) /\ Counted(new)
         /\ \/ Named(dk, d, n) = {} /\ new = dk
            \/ /\ Named(dk, d, n) # {}
               /\ LinkTaken(dk, new, At(dk, d, First(Named(dk, d, n))).inode)
<1>1. dk \in Volume /\ RootKept(dk) /\ Apart(dk)
  BY ShapeApart DEF Shape
<1>2. CASE Named(dk, d, n) = {}
  <2>1. new = dk
    BY <1>2 DEF Removed
  <2>2. gn \cup Gone(nd, dk.inodes \ new.inodes) = gn
    BY <2>1 DEF Gone
  <2> QED
    BY <1>2, <2>1, <2>2
<1>3. CASE Named(dk, d, n) # {}
  <2> DEFINE p == First(Named(dk, d, n))
             t == At(dk, d, p).inode
             left == Unlinked(dk, d, p)
  <2>1. /\ p \in Position /\ At(dk, d, p).name = n /\ n # NoName /\ n # Dot
        /\ t \in dk.inodes \ {Root} /\ t \in Inode /\ t # 0 /\ <<d, p>> \in NamesOf(dk, t)
    BY <1>1, <1>3, FirstNamed
  <2>2. new = IF NotEmpty(left, t) THEN left ELSE Dropped(left, t)
    BY <1>3, <2>1 DEF Removed
  <2> HIDE DEF p, left, t
  <2>3. /\ left \in Volume /\ left.inode = dk.inode
        /\ left.inodes = dk.inodes /\ left.blocks = dk.blocks
    <3>1. d \in Inode /\ At(dk, d, p).name # NoName
      BY <1>1, <2>1 DEF DirsOf, Volume
    <3> QED
      BY <1>1, <2>1, <3>1, UnlinkedTyped DEF left
  <2>4. \A c \in DirsOf(dk), q \in Position :
          IF c = d /\ q = p THEN At(left, c, q).inode = 0 ELSE At(left, c, q) = At(dk, c, q)
    <3>1. At(dk, d, p).name # NoName
      BY <2>1
    <3> QED
      BY <1>1, <2>1, <3>1, UnlinkedIs DEF left
  <2>5. Receded(dk, left, {}, nd, gn)
    <3>1. \A c \in DirsOf(dk), q \in Position : At(left, c, q) = At(dk, c, q) \/ At(left, c, q).inode = 0
      BY <2>4
    <3> QED
      BY <2>3, <3>1 DEF Receded
  <2>6. /\ Shape(left, nd, gn)
        /\ \A i \in Inode : NamesOf(left, i) \subseteq NamesOf(dk, i)
    BY <2>5, NoneReceded
  <2>7. <<d, p>> \notin NamesOf(left, t)
    BY <2>1, <2>4 DEF NamesOf
  <2>8. /\ Cardinality(NamesOf(left, t)) \in Nat /\ Cardinality(NamesOf(dk, t)) \in Nat
        /\ Cardinality(NamesOf(left, t)) < Cardinality(NamesOf(dk, t))
    <3>1. NamesOf(left, t) \in SUBSET NamesOf(dk, t) /\ NamesOf(left, t) # NamesOf(dk, t)
      BY <2>1, <2>6, <2>7
    <3>2. /\ IsFiniteSet(NamesOf(dk, t)) /\ Cardinality(NamesOf(dk, t)) \in Nat
          /\ Cardinality(NamesOf(left, t)) \in Nat
      BY <1>1, <2>3, NamesFinite
    <3>3. /\ Cardinality(NamesOf(left, t)) <= Cardinality(NamesOf(dk, t))
          /\ Cardinality(NamesOf(left, t)) # Cardinality(NamesOf(dk, t))
      BY <3>1, <3>2, FS_Subset
    <3> QED
      BY <3>2, <3>3
  <2>9. /\ dk.inode[t].links \in Nat /\ dk.inode[t].links # 0
        /\ Cardinality(NamesOf(left, t)) <= dk.inode[t].links - 1
    <3>1. dk.inode[t].links >= Cardinality(NamesOf(dk, t))
      BY <2>1 DEF Counted
    <3>2. dk.inode[t].links \in Nat
      BY <1>1, <2>1 DEF Volume, InodeRecord
    <3> QED
      BY <3>1, <3>2, <2>8
  <2>10. Counted(left)
    <3>1. ASSUME NEW i \in Inode, NamesOf(left, i) # {}
          PROVE  /\ NamesOf(left, i) \subseteq NamesOf(dk, i)
                 /\ i \in left.inodes /\ left.inode[i].links >= dk.inode[i].links
      <4>1. NamesOf(left, i) \subseteq NamesOf(dk, i) /\ NamesOf(dk, i) # {}
        BY <2>6, <3>1
      <4>2. i \in dk.inodes /\ dk.inode[i].links \in Nat
        BY <4>1, <1>1 DEF Counted, Volume, InodeRecord
      <4> QED
        BY <4>1, <4>2, <2>3
    <3> QED
      BY <3>1, <1>1, <2>3, CountedFewer
  <2>11. CASE NotEmpty(left, t)
    <3>1. new = left /\ dk.inode[t].kind = "Dir"
      BY <2>2, <2>3, <2>11 DEF NotEmpty
    <3>2. gn \cup Gone(nd, dk.inodes \ new.inodes) = gn
      BY <3>1, <2>3 DEF Gone
    <3>3. LinkTaken(dk, new, t)
      BY <2>1, <2>3, <3>1 DEF LinkTaken
    <3> QED
      BY <1>3, <2>6, <2>10, <3>1, <3>2, <3>3 DEF t, p
  <2>12. CASE ~NotEmpty(left, t)
    <3>1. new = Dropped(left, t)
      BY <2>2, <2>12
    <3>2. /\ Receded(left, new, left.inodes \ new.inodes, nd, gn)
          /\ \/ left.inode[t].links = 1 /\ new.inodes = left.inodes \ {t}
             \/ /\ left.inode[t].links > 1 /\ new.inodes = left.inodes
                /\ new.inode[t].links = left.inode[t].links - 1
          /\ \A i \in left.inodes \ {t} : new.inode[i] = left.inode[i]
          /\ t \in new.inodes => new.inode[t].kind = left.inode[t].kind
      <4>1. t \in left.inodes \ {Root} /\ left.inode[t].links # 0
        BY <2>1, <2>3, <2>9
      <4>2. LinkDropped(left, Dropped(left, t), t, nd, gn)
        BY <2>6, <4>1, DroppedIs, Zenon
      <4> QED
        BY <3>1, <4>2, Zenon DEF LinkDropped
    <3>3. /\ Shape(new, nd, gn \cup Gone(nd, left.inodes \ new.inodes))
          /\ \A i \in Inode : NamesOf(new, i) \subseteq NamesOf(left, i)
      <4> DEFINE T == left.inodes \ new.inodes
      <4>1. Shape(left, nd, gn) /\ Receded(left, new, T, nd, gn)
        BY <2>6, <3>2
      <4> HIDE DEF T
      <4>2. /\ Shape(new, nd, gn \cup Gone(nd, T))
            /\ \A i \in Inode : NamesOf(new, i) \subseteq NamesOf(left, i)
        BY <4>1, RecededShape
      <4> QED
        BY <4>2 DEF T
    <3>4. Counted(new)
      <4> SUFFICES ASSUME NEW i \in Inode, NamesOf(new, i) # {}
                   PROVE  i \in new.inodes /\ new.inode[i].links >= Cardinality(NamesOf(new, i))
        BY DEF Counted
      <4>1. NamesOf(new, i) \subseteq NamesOf(left, i) /\ NamesOf(left, i) # {}
        BY <3>3
      <4>2. new \in Volume
        BY <3>2 DEF Receded
      <4>3. /\ Cardinality(NamesOf(new, i)) \in Nat /\ Cardinality(NamesOf(left, i)) \in Nat
            /\ Cardinality(NamesOf(new, i)) <= Cardinality(NamesOf(left, i))
        BY <2>3, <4>1, <4>2, FewerNames
      <4>4. i \in left.inodes /\ left.inode[i].links >= Cardinality(NamesOf(left, i))
        BY <2>10, <4>1 DEF Counted
      <4>5. left.inode[i].links \in Nat
        BY <2>3 DEF Volume, InodeRecord
      <4>6. CASE i # t
        <5>1. i \in new.inodes /\ new.inode[i].links = left.inode[i].links
          BY <3>2, <4>4, <4>6
        <5> QED
          BY ONLY <4>3, <4>4, <4>5, <5>1
      <4>7. CASE i = t
        <5>1. Cardinality(NamesOf(new, t)) # 0
          <6>1. IsFiniteSet(NamesOf(new, i))
            BY <4>2, NamesFinite
          <6> QED
            BY <6>1, <4>7, FS_EmptySet
        <5>2. left.inode[t].links = dk.inode[t].links
          BY <2>3
        <5>3. left.inode[t].links # 1
          BY <5>1, <5>2, <2>9, <4>3, <4>7
        <5>4. t \in new.inodes /\ new.inode[t].links = left.inode[t].links - 1
          BY <3>2, <4>4, <4>7, <5>3
        <5> QED
          BY <5>2, <5>4, <2>9, <4>3, <4>7
      <4> QED
        BY <4>6, <4>7
    <3>5. LinkTaken(dk, new, t)
      <4>1. new.inodes \subseteq dk.inodes /\ t \in dk.inodes
        BY <2>1, <2>3, <3>2
      <4>2. \A i \in new.inodes \ {t} : new.inode[i] = dk.inode[i]
        BY <2>3, <3>2, <4>1
      <4>3. t \in new.inodes => /\ new.inode[t].kind = dk.inode[t].kind /\ dk.inode[t].links > 1
                                /\ new.inode[t].links = dk.inode[t].links - 1
        BY <2>3, <3>2
      <4> QED
        BY <4>1, <4>2, <4>3 DEF LinkTaken
    <3> QED
      BY <1>3, <2>3, <3>3, <3>4, <3>5 DEF t, p
  <2> QED
    BY <2>11, <2>12
<1> QED
  BY <1>2, <1>3

-----------------------------------------------------------------------------
(* rename.                                                                 *)

Firsts(dk, d, n) ==
  {p \in Named(dk, d, n) : \A q \in Named(dk, d, n) : q[1] = p[1] => ~Before(q, p)}

LEMMA TargetIs ==
  ASSUME NEW dk \in Volume, RootKept(dk), Counted(dk), NEW d \in DirsOf(dk), NEW n \in Name,
         Target(dk, d, n) # 0
  PROVE  LET t == Target(dk, d, n)
         IN  /\ t \in dk.inodes \ {Root} /\ t \in Inode
             /\ \E p \in Position : At(dk, d, p).name = n /\ At(dk, d, p).inode = t
<1> DEFINE live == Firsts(dk, d, n) \cap Live(dk, d)
           p == First(live)
<1>1. live # {} /\ Target(dk, d, n) = At(dk, d, p).inode
  BY DEF Target, Firsts
<1>2. live \in SUBSET Position
  BY DEF Live
<1>3. p \in live
  BY <1>1, <1>2, FirstIs
<1>4. p \in Position /\ At(dk, d, p).name = n /\ At(dk, d, p).inode # 0 /\ n # Dot
  BY <1>3, Ext2Assumption DEF Firsts, Named, Live
<1> HIDE DEF p
<1>5. At(dk, d, p).inode \in dk.inodes \ {Root}
  BY <1>4, NamedInUse
<1>6. At(dk, d, p).inode \in Inode
  BY <1>5 DEF Volume
<1> QED
  BY <1>1, <1>4, <1>5, <1>6

(* Once the new name is there, the first entry with the old one is that of *)
(* the file to move, or of a removed one.                                  *)
LEMMA MovesTarget ==
  ASSUME NEW dk, NEW new, NEW d, NEW n \in Name,
         NEW e, e.inode = Target(dk, d, n), Target(dk, d, n) # 0,
         \A p \in Position : \/ At(new, d, p) = At(dk, d, p)
                             \/ At(dk, d, p).name = NoName /\ At(new, d, p) = e,
         Named(new, d, n) # {}, ~MeetsDead(new, d, n)
  PROVE  At(new, d, First(Named(new, d, n))).inode = Target(dk, d, n)
<1> DEFINE p == First(Named(new, d, n))
           live == Firsts(dk, d, n) \cap Live(dk, d)
<1>1. Named(new, d, n) \in SUBSET Position
  BY DEF Named
<1>2. p \in Named(new, d, n) /\ \A q \in Named(new, d, n) \ {p} : Before(p, q)
  BY <1>1, FirstIs
<1>3. At(new, d, p).inode # 0
  BY DEF MeetsDead
<1> HIDE DEF p
<1>4. p \in Position /\ At(new, d, p).name = n /\ n # NoName
  BY <1>2, Ext2Assumption DEF Named
<1>5. CASE At(new, d, p) = e
  BY <1>5 DEF p
<1>6. CASE At(new, d, p) = At(dk, d, p)
  <2>1. p \in Named(dk, d, n) /\ p \in Live(dk, d)
    BY <1>3, <1>4, <1>6 DEF Named, Live
  <2>2. ASSUME NEW q \in Named(dk, d, n) \ {p} PROVE Before(p, q) /\ ~Before(q, p)
    <3>1. q \in Position /\ At(dk, d, q).name = n
      BY DEF Named
    <3>2. q \in Named(new, d, n) \ {p}
      BY <1>4, <3>1 DEF Named
    <3> QED
      BY <1>2, <1>4, <3>1, <3>2, BeforeIsStrict
  <2>3. ~Before(p, p)
    BY <1>4, BeforeIsStrict
  <2>4. p \in live
    BY <2>1, <2>2, <2>3 DEF Firsts
  <2>5. live \in SUBSET Position /\ \A q \in live \ {p} : Before(p, q)
    BY <2>2 DEF Live, Firsts
  <2>6. First(live) = p
    BY <2>4, <2>5, FirstAlone
  <2>7. Target(dk, d, n) = At(dk, d, First(live)).inode
    BY <2>4 DEF Target, Firsts
  <2> QED
    BY <1>6, <2>6, <2>7 DEF p
<1> QED
  BY <1>4, <1>5, <1>6

(* The link that rename makes.                                             *)
HasFull(dk, d) == Room(dk, d) = {} /\ \A k \in Index : dk.inode[d].block[k] # 0

(* What new has more than dk is in the directory d.                        *)
OnlyGrows(dk, new, d) ==
  /\ \A i \in Inode \ {d} : new.inode[i].block = dk.inode[i].block
  /\ \A k \in Index : dk.inode[d].block[k] \in {0, new.inode[d].block[k]}
  /\ \A b \in new.blocks \ dk.blocks : \E k \in Index : new.inode[d].block[k] = b
  /\ \A c \in DirsOf(dk) \ {d}, p \in Position : At(new, c, p) = At(dk, c, p)

LEMMA LinkMade ==
  ASSUME Shape(disk, node, gone), Counted(disk), NEW d \in DirsOf(disk),
         NEW old \in Name, NEW new \in Name, Target(disk, d, old) # 0
  PROVE  LET linked == Relinked(d, old, new)
             L == linked.disk
             t == Target(disk, d, old)
         IN  /\ L.inodes = disk.inodes /\ DirsOf(L) = DirsOf(disk)
             /\ Shape(L, node, gone) /\ Counted(L)
             /\ \A i \in Inode : L.inode[i].kind = disk.inode[i].kind
             /\ \A i \in Inode \ {t} : L.inode[i].links = disk.inode[i].links
             /\ t \in Inode
             /\ linked.ok => L.inode[t].links = disk.inode[t].links + 1
             /\ ~linked.ok => L.inode[t].links = disk.inode[t].links
             /\ \A p \in Position :
                   \/ At(L, d, p) = At(disk, d, p)
                   \/ At(disk, d, p).name = NoName /\ At(L, d, p) = [name |-> new, inode |-> t]
             /\ linked.ok => \E q \in Position : /\ At(disk, d, q).name = NoName
                                                /\ At(L, d, q) = [name |-> new, inode |-> t]
             /\ ~HasFull(disk, d) => OnlyGrows(disk, L, d)
<1> DEFINE t == Target(disk, d, old)
           e == [name |-> new, inode |-> t]
           a == Added(disk, d, e)
           linked == Relinked(d, old, new)
           L == linked.disk
<1>1. disk \in Volume /\ Tidy(disk) /\ RootKept(disk) /\ Apart(disk) /\ d \in Inode
  BY ShapeApart DEF Shape, DirsOf, Volume
<1>2. t \in disk.inodes \ {Root} /\ t \in Inode
  BY <1>1, TargetIs
<1>3. e \in DirectoryEntry /\ e.inode = t /\ e.name # NoName
  BY <1>2, Ext2Assumption DEF DirectoryEntry
<1>4. \/ a.ok /\ Entered(disk, a.disk, d, e)
      \/ /\ ~a.ok /\ disk.blocks \subseteq a.disk.blocks /\ a.disk.blocks \subseteq Block
         /\ a.disk = [disk EXCEPT !.blocks = a.disk.blocks]
         /\ a.disk.blocks = disk.blocks \/ HasFull(disk, d)
  <2> HIDE DEF e
  <2> QED
    BY <1>1, <1>3, AddedIs DEF HasFull
<1>5. linked = IF a.ok THEN [a EXCEPT !.disk.inode[t].links = @ + 1] ELSE a
  BY Zenon DEF Relinked
<1>6. CASE ~a.ok
  <2>1. linked = a /\ L = [disk EXCEPT !.blocks = L.blocks]
        /\ disk.blocks \subseteq L.blocks /\ L.blocks \subseteq Block
        /\ (L.blocks = disk.blocks \/ HasFull(disk, d))
    BY <1>4, <1>5, <1>6
  <2> HIDE DEF a, linked, t, e
  <2>2. L \in Volume /\ L.inodes = disk.inodes /\ L.inode = disk.inode /\ L.content = disk.content
    BY <2>1, <1>1 DEF Volume
  <2> HIDE DEF L
  <2>3. \A c \in DirsOf(disk), p \in Position : At(L, c, p) = At(disk, c, p)
    BY <2>2 DEF At
  <2>4. Receded(disk, L, {}, node, gone)
    BY <2>1, <2>2, <2>3 DEF Receded
  <2>5. /\ Shape(L, node, gone) /\ DirsOf(L) = DirsOf(disk)
        /\ \A i \in Inode : NamesOf(L, i) \subseteq NamesOf(disk, i)
    BY <2>4, NoneReceded
  <2>6. Counted(L)
    <3>1. ASSUME NEW i \in Inode, NamesOf(L, i) # {}
          PROVE  /\ NamesOf(L, i) \subseteq NamesOf(disk, i)
                 /\ i \in L.inodes /\ L.inode[i].links >= disk.inode[i].links
      <4>1. NamesOf(L, i) \subseteq NamesOf(disk, i) /\ NamesOf(disk, i) # {}
        BY <2>5, <3>1
      <4>2. i \in disk.inodes /\ disk.inode[i].links \in Nat
        BY <4>1, <1>1 DEF Counted, Volume, InodeRecord
      <4> QED
        BY <4>1, <4>2, <2>2
    <3> QED
      BY <3>1, <1>1, <2>2, CountedFewer
  <2>7. ~HasFull(disk, d) => OnlyGrows(disk, L, d)
    BY <2>1, <2>2, <2>3 DEF OnlyGrows
  <2> QED
    BY <1>2, <1>6, <2>1, <2>2, <2>3, <2>5, <2>6, <2>7 DEF L, linked, t
<1>7. CASE a.ok
  <2> DEFINE m == a.disk
             r == m.inode[t]
             more == [r EXCEPT !.links = r.links + 1]
  <2>1. Entered(disk, m, d, e)
    BY <1>4, <1>7
  <2>2. linked = [a EXCEPT !.disk = [m EXCEPT !.inode[t] = more]]
    BY <1>5, <1>7
  <2>3. linked.ok = a.ok /\ L = [m EXCEPT !.inode[t] = more]
    <3>1. \E ok, dd : a = [ok |-> ok, disk |-> dd]
      <4> HIDE DEF e
      <4> QED
        BY DEF Added, Grown
    <3> HIDE DEF a, linked, more, m
    <3> QED
      BY <2>2, <3>1
  <2> HIDE DEF a, linked, t, e
  <2>4. m \in Volume /\ m.inodes = disk.inodes
    BY <2>1 DEF Entered
  <2>5. Shape(m, node, gone) /\ DirsOf(m) = DirsOf(disk)
    BY <1>2, <1>3, <2>1, EnteredShape
  <2>6. /\ \A i \in Inode : /\ m.inode[i].links = disk.inode[i].links
                            /\ m.inode[i].kind = disk.inode[i].kind
        /\ \A i \in Inode : NamesOf(m, i) # {} /\ i # t =>
              i \in m.inodes /\ m.inode[i].links >= Cardinality(NamesOf(m, i))
        /\ Cardinality(NamesOf(m, t)) <= Cardinality(NamesOf(disk, t)) + 1
    <3>1. e.inode \in Inode \ {Root}
      BY <1>2, <1>3
    <3>2. /\ \A i \in Inode : /\ m.inode[i].links = disk.inode[i].links
                              /\ m.inode[i].kind = disk.inode[i].kind
          /\ \A i \in Inode : NamesOf(m, i) # {} /\ i # e.inode =>
                i \in m.inodes /\ m.inode[i].links >= Cardinality(NamesOf(m, i))
          /\ Cardinality(NamesOf(m, e.inode)) <= Cardinality(NamesOf(disk, e.inode)) + 1
      BY <1>3, <2>1, <3>1, EnteredCounted
    <3> QED
      BY <3>2, <1>3
  <2> HIDE DEF m
  <2>7. r \in InodeRecord /\ r.links \in Nat
    BY <1>2, <2>4 DEF Volume, InodeRecord
  <2>8. /\ more \in InodeRecord /\ more.kind = r.kind /\ more.block = r.block
        /\ more.links = r.links + 1
    BY <2>7 DEF InodeRecord
  <2> HIDE DEF more, r
  <2>9. /\ L \in Volume /\ L.inodes = m.inodes /\ L.blocks = m.blocks /\ L.content = m.content
        /\ L.inode[t] = more /\ \A i \in Inode \ {t} : L.inode[i] = m.inode[i]
    BY <1>2, <2>3, <2>4, <2>8 DEF Volume
  <2> HIDE DEF L
  <2>10. \A i \in Inode : L.inode[i].kind = m.inode[i].kind /\ L.inode[i].block = m.inode[i].block
    BY <1>2, <2>8, <2>9 DEF r
  <2>11. \A c \in DirsOf(m), p \in Position : At(L, c, p) = At(m, c, p)
    <3>1. DirsOf(m) \subseteq Inode
      BY <2>4 DEF DirsOf, Volume
    <3> QED
      BY <2>9, <2>10, <3>1 DEF At
  <2>12. Receded(m, L, {}, node, gone)
    <3>1. L.inodes \subseteq Inode
      BY <2>4, <2>9 DEF Volume
    <3> QED
      BY <2>9, <2>10, <2>11, <3>1 DEF Receded
  <2>13. /\ Shape(L, node, gone) /\ DirsOf(L) = DirsOf(m)
         /\ \A i \in Inode : NamesOf(L, i) \subseteq NamesOf(m, i)
    BY <2>5, <2>12, NoneReceded
  <2>14. Counted(L)
    <3> SUFFICES ASSUME NEW i \in Inode, NamesOf(L, i) # {}
                 PROVE  i \in L.inodes /\ L.inode[i].links >= Cardinality(NamesOf(L, i))
      BY DEF Counted
    <3>1. NamesOf(L, i) \subseteq NamesOf(m, i) /\ NamesOf(m, i) # {}
      BY <2>13
    <3>2. /\ Cardinality(NamesOf(L, i)) \in Nat /\ Cardinality(NamesOf(m, i)) \in Nat
          /\ Cardinality(NamesOf(L, i)) <= Cardinality(NamesOf(m, i))
      BY <2>4, <2>9, <3>1, FewerNames
    <3>3. CASE i # t
      <4>1. i \in m.inodes /\ m.inode[i].links >= Cardinality(NamesOf(m, i))
        BY <2>6, <3>1, <3>3
      <4>2. i \in L.inodes /\ L.inode[i].links = m.inode[i].links
        BY <2>9, <3>3, <4>1
      <4>3. m.inode[i].links \in Nat
        BY <2>4 DEF Volume, InodeRecord
      <4> QED
        BY ONLY <3>2, <4>1, <4>2, <4>3
    <3>4. CASE i = t
      <4>1. \E p \in Position : At(disk, d, p).name = old /\ At(disk, d, p).inode = t
        BY <1>1, TargetIs DEF t
      <4>2. NamesOf(disk, t) # {}
        <5>1. old # Dot
          BY Ext2Assumption
        <5>2. PICK p \in Position : At(disk, d, p).name = old /\ At(disk, d, p).inode = t
          BY <4>1
        <5>3. <<d, p>> \in NamesOf(disk, t)
          BY <5>1, <5>2 DEF NamesOf
        <5> QED
          BY <5>3
      <4>3. disk.inode[t].links >= Cardinality(NamesOf(disk, t))
        BY <1>2, <4>2 DEF Counted
      <4>4. /\ disk.inode[t].links \in Nat /\ Cardinality(NamesOf(disk, t)) \in Nat
        BY <1>1, <1>2, NamesFinite DEF Volume, InodeRecord
      <4>5. t \in L.inodes /\ L.inode[t].links = disk.inode[t].links + 1
        BY <1>2, <2>4, <2>6, <2>8, <2>9 DEF r
      <4> QED
        BY <2>6, <3>2, <3>4, <4>3, <4>4, <4>5
    <3> QED
      BY <3>3, <3>4
  <2>15. L.inode[t].links = disk.inode[t].links + 1
    BY <1>2, <2>6, <2>8, <2>9 DEF r
  <2>16. \A p \in Position : \/ At(L, d, p) = At(disk, d, p)
                             \/ At(disk, d, p).name = NoName /\ At(L, d, p) = e
    <3>1. \A p \in Position : /\ At(m, d, p) = e \/ At(m, d, p) = At(disk, d, p)
                              /\ At(m, d, p) # At(disk, d, p) => At(disk, d, p).name = NoName
      BY <2>1 DEF Entered
    <3> QED
      BY <2>5, <2>11, <3>1
  <2>17. /\ \A i \in Inode : L.inode[i].kind = disk.inode[i].kind
         /\ \A i \in Inode \ {t} : L.inode[i].links = disk.inode[i].links
    BY <2>6, <2>9, <2>10
  <2>18. L.inodes = disk.inodes /\ DirsOf(L) = DirsOf(disk)
    BY <2>4, <2>5, <2>9, <2>13
  <2>19. \E q \in Position : At(disk, d, q).name = NoName /\ At(L, d, q) = e
    <3>1. PICK q \in Position : /\ At(disk, d, q).name = NoName
                               /\ \A c \in DirsOf(disk), p \in Position :
                                     At(m, c, p) = IF c = d /\ p = q THEN e ELSE At(disk, c, p)
      BY <2>1 DEF Entered
    <3>2. At(m, d, q) = e
      BY <3>1
    <3> QED
      BY <2>5, <2>11, <3>1, <3>2
  <2>20. OnlyGrows(disk, L, d)
    <3>1. OnlyGrows(disk, m, d)
      BY <2>1 DEF Entered, OnlyGrows
    <3> QED
      BY <1>1, <2>5, <2>9, <2>10, <2>11, <3>1 DEF OnlyGrows
  <2> QED
    BY <1>2, <1>7, <2>3, <2>13, <2>14, <2>15, <2>16, <2>17, <2>18, <2>19, <2>20 DEF L, linked, t, e
<1> QED
  BY <1>6, <1>7

LEMMA RenameKeeps ==
  ASSUME Shape(disk, node, gone), Counted(disk), Single(disk), NEW d \in DirsOf(disk),
         NEW old \in Name, NEW new \in Name, Rename(d, old, new),
         ~MeetsDead(Relinked(d, old, new).disk, d, old)
  PROVE  /\ Shape(disk', node, gone \cup Gone(node, disk.inodes \ disk'.inodes))
         /\ Counted(disk') /\ Single(disk')
<1> DEFINE linked == Relinked(d, old, new)
           L == linked.disk
           t == Target(disk, d, old)
           e == [name |-> new, inode |-> t]
<1>1. /\ t # 0
      /\ disk' \in IF linked.ok THEN Removed(L, d, old) ELSE {L}
  BY Zenon DEF Rename
<1>2. /\ L.inodes = disk.inodes /\ DirsOf(L) = DirsOf(disk)
      /\ Shape(L, node, gone) /\ Counted(L)
      /\ \A i \in Inode : L.inode[i].kind = disk.inode[i].kind
      /\ \A i \in Inode \ {t} : L.inode[i].links = disk.inode[i].links
      /\ t \in Inode
      /\ linked.ok => L.inode[t].links = disk.inode[t].links + 1
      /\ ~linked.ok => L.inode[t].links = disk.inode[t].links
      /\ \A p \in Position : \/ At(L, d, p) = At(disk, d, p)
                             \/ At(disk, d, p).name = NoName /\ At(L, d, p) = e
  BY <1>1, LinkMade
<1>3. ~MeetsDead(L, d, old)
  OBVIOUS
<1>4. disk \in Volume /\ RootKept(disk) /\ L \in Volume /\ \A i \in disk.inodes : i \in Inode
  BY <1>2 DEF Shape, Volume
<1> HIDE DEF linked, L
<1>5. CASE ~linked.ok
  <2>1. disk' = L
    BY <1>1, <1>5
  <2>2. gone \cup Gone(node, disk.inodes \ disk'.inodes) = gone
    BY <1>2, <2>1 DEF Gone
  <2>3. Single(L)
    BY <1>2, <1>4, <1>5 DEF Single
  <2> QED
    BY <1>2, <2>1, <2>2, <2>3
<1>6. CASE linked.ok
  <2> DEFINE u == At(L, d, First(Named(L, d, old))).inode
  <2>1. disk' \in Removed(L, d, old)
    BY <1>1, <1>6
  <2>2. d \in DirsOf(L)
    BY <1>2
  <2>3. /\ Shape(disk', node, gone \cup Gone(node, L.inodes \ disk'.inodes)) /\ Counted(disk')
        /\ \/ Named(L, d, old) = {} /\ disk' = L
           \/ Named(L, d, old) # {} /\ LinkTaken(L, disk', u)
    BY <1>2, <1>3, <2>1, <2>2, RemovedKeeps
  <2>4. Named(L, d, old) # {}
    <3>1. PICK p \in Position : At(disk, d, p).name = old
      BY <1>1, <1>4, TargetIs
    <3>2. old # NoName
      BY Ext2Assumption
    <3>3. At(L, d, p) = At(disk, d, p)
      BY <1>2, <3>1, <3>2
    <3> QED
      BY <3>1, <3>3 DEF Named
  <2>5. u = t
    <3>1. e.inode = Target(disk, d, old)
      OBVIOUS
    <3> HIDE DEF e
    <3> QED
      BY <1>1, <1>2, <1>3, <2>4, <3>1, MovesTarget
  <2>6. LinkTaken(L, disk', t)
    BY <2>3, <2>4, <2>5
  <2>7. ASSUME NEW i \in disk'.inodes, disk'.inode[i].kind = "File"
        PROVE  disk'.inode[i].links = 1
    <3>1. /\ i \in disk.inodes /\ i \in Inode /\ disk.inode[i].kind = "File"
      BY <1>2, <1>4, <2>6, <2>7 DEF LinkTaken
    <3>2. disk.inode[i].links = 1
      BY <3>1 DEF Single
    <3>3. CASE i = t
      <4>1. disk'.inode[t].links = L.inode[t].links - 1
        BY <2>6, <2>7, <3>3 DEF LinkTaken
      <4>2. L.inode[t].links = disk.inode[t].links + 1
        BY <1>2, <1>6
      <4> QED
        BY <3>2, <3>3, <4>1, <4>2
    <3>4. CASE i # t
      <4>1. disk'.inode[i].links = L.inode[i].links
        BY <2>6, <2>7, <3>4 DEF LinkTaken
      <4> QED
        BY <1>2, <3>1, <3>2, <3>4, <4>1
    <3> QED
      BY <3>3, <3>4
  <2>8. Single(disk')
    BY <2>7 DEF Single
  <2> QED
    BY <1>2, <2>3, <2>8
<1> QED
  BY <1>5, <1>6

LEMMA RemoveKeeps ==
  ASSUME Shape(disk, node, gone), Counted(disk), Single(disk), NEW d \in DirsOf(disk),
         NEW n \in Name, Remove(d, n), ~MeetsDead(disk, d, n)
  PROVE  /\ Shape(disk', node, gone \cup Gone(node, disk.inodes \ disk'.inodes))
         /\ Counted(disk') /\ Single(disk')
<1> DEFINE t == At(disk, d, First(Named(disk, d, n))).inode
<1>1. disk' \in Removed(disk, d, n)
  BY DEF Remove
<1>2. /\ Shape(disk', node, gone \cup Gone(node, disk.inodes \ disk'.inodes)) /\ Counted(disk')
      /\ \/ Named(disk, d, n) = {} /\ disk' = disk
         \/ Named(disk, d, n) # {} /\ LinkTaken(disk, disk', t)
  BY <1>1, RemovedKeeps
<1>3. ASSUME LinkTaken(disk, disk', t), NEW i \in disk'.inodes, disk'.inode[i].kind = "File"
      PROVE  disk'.inode[i].links = 1
  <2>1. i \in disk.inodes /\ disk.inode[i].kind = "File"
    BY <1>3 DEF LinkTaken
  <2>2. disk.inode[i].links = 1
    BY <2>1 DEF Single
  <2>3. i # t
    <3> SUFFICES ASSUME i = t PROVE FALSE
      OBVIOUS
    <3>1. disk.inode[i].links > 1
      BY <1>3 DEF LinkTaken
    <3> QED
      BY <2>2, <3>1
  <2> QED
    BY <1>3, <2>2, <2>3 DEF LinkTaken
<1>4. Single(disk')
  BY <1>2, <1>3 DEF Single
<1> QED
  BY <1>2, <1>4

(* Nothing but the type is kept when remove meets the name of a removed    *)
(* file.                                                                   *)
LEMMA RemovedTyped ==
  ASSUME NEW dk \in Volume, NEW d \in Inode, NEW n \in Name, MeetsDead(dk, d, n),
         NEW new \in Removed(dk, d, n)
  PROVE  new \in Volume
<1> DEFINE p == First(Named(dk, d, n))
           left == Unlinked(dk, d, p)
<1>1. Named(dk, d, n) # {} /\ At(dk, d, p).inode = 0
  BY DEF MeetsDead
<1>2. Named(dk, d, n) \in SUBSET Position
  BY DEF Named
<1>3. p \in Named(dk, d, n)
  BY <1>1, <1>2, FirstIs
<1>4. p \in Position /\ At(dk, d, p).name # NoName
  BY <1>3, Ext2Assumption DEF Named
<1>5. new \in {left} \cup {[left EXCEPT !.blocks = @ \ {b}] : b \in dk.blocks}
  BY <1>1 DEF Removed
<1> HIDE DEF p
<1>6. left \in Volume
  BY <1>4, UnlinkedTyped
<1> HIDE DEF left
<1>7. \A b \in dk.blocks : [left EXCEPT !.blocks = @ \ {b}] \in Volume
  BY <1>6 DEF Volume
<1> QED
  BY <1>5, <1>6, <1>7

-----------------------------------------------------------------------------
(* Open files.                                                             *)

LEMMA OpenKeeps ==
  ASSUME node \in Nodes, Shape(disk, node, gone), Counted(disk), Single(disk),
         NEW h \in Handle, NEW d \in DirsOf(disk), NEW n \in Name, Open(h, d, n)
  PROVE  disk' = disk /\ node' \in Nodes /\ Shape(disk, node', gone)
<1> DEFINE i == Find(disk, d, n)
           copy == [idx |-> i, inode |-> disk.inode[i]]
<1>1. /\ i # 0 /\ disk.inode[i].kind = "File"
      /\ node' = [node EXCEPT ![h] = copy] /\ disk' = disk
  BY Zenon DEF Open
<1>2. disk \in Volume /\ RootKept(disk) /\ Tidy(disk)
  BY DEF Shape
<1>3. i \in disk.inodes
  <2>1. PICK p \in Position : /\ At(disk, d, p).name = n /\ At(disk, d, p).inode # 0
                              /\ i = At(disk, d, p).inode
    BY <1>1, FindIs
  <2>2. n # Dot
    BY Ext2Assumption
  <2> QED
    BY <1>2, <2>1, <2>2, NamedInUse
<1> HIDE DEF i
<1>4. disk.inode[i] \in InodeRecord /\ i \in Inode
  BY <1>2, <1>3 DEF Volume
<1>5. copy \in Ext2Node /\ copy.idx = i /\ copy.inode = disk.inode[i]
  BY <1>4 DEF Ext2Node
<1> HIDE DEF copy
<1>6. /\ node' \in Nodes /\ node'[h] = copy
      /\ \A g \in Handle \ {h} : node'[g] = node[g]
  BY <1>1, <1>5 DEF Nodes
<1>7. \A g \in Held(node', gone) : g = h \/ (g \in Held(node, gone) /\ node'[g] = node[g])
  BY <1>6 DEF Held
<1>8. ASSUME NEW j \in Inode, NEW b \in Block, Has(disk, node', gone, j, b)
      PROVE  Has(disk, node, gone, j, b)
  <2>1. CASE j \in disk.inodes /\ \E k \in Index : disk.inode[j].block[k] = b
    BY <2>1, Zenon DEF Has
  <2>2. ASSUME NEW g \in Held(node', gone), NEW k \in Index,
               node'[g].idx = j, node'[g].inode.block[k] = b
        PROVE  Has(disk, node, gone, j, b)
    <3>1. CASE g = h
      BY <3>1, <2>2, <1>3, <1>5, <1>6 DEF Has
    <3>2. CASE g \in Held(node, gone) /\ node'[g] = node[g]
      BY <3>2, <2>2 DEF Has
    <3> QED
      BY <3>1, <3>2, <1>7
  <2> QED
    BY <1>8, <2>1, <2>2, Zenon DEF Has
<1>9. Owned(disk, node', gone)
  <2>1. Extended(disk, node, gone, disk, node', gone, i)
    <3>1. disk.blocks \subseteq disk.blocks
      OBVIOUS
    <3> QED
      BY <1>8, <3>1, Zenon DEF Extended
  <2>2. Owned(disk, node, gone)
    BY DEF Shape
  <2> QED
    BY <2>1, <2>2, OwnedMore, Zenon
<1>10. Copies(disk, node', gone)
  <2> SUFFICES ASSUME NEW g \in Held(node', gone)
               PROVE  /\ node'[g].idx \in disk.inodes /\ disk.inode[node'[g].idx].kind = "File"
                      /\ node'[g].inode.kind = "File" /\ node'[g].inode.links = 1
                      /\ Clean(node'[g].inode)
    BY DEF Copies
  <2>1. CASE g = h
    <3>1. disk.inode[i].links = 1 /\ Clean(disk.inode[i])
      BY <1>1, <1>2, <1>3 DEF Single, Tidy
    <3> QED
      BY <2>1, <3>1, <1>1, <1>3, <1>5, <1>6
  <2>2. CASE g \in Held(node, gone) /\ node'[g] = node[g]
    BY <2>2 DEF Shape, Copies
  <2> QED
    BY <2>1, <2>2, <1>7
<1> QED
  BY <1>1, <1>2, <1>6, <1>9, <1>10 DEF Shape

LEMMA CloseKeeps ==
  ASSUME node \in Nodes, Shape(disk, node, gone), NEW h \in Handle, Close(h)
  PROVE  disk' = disk /\ node' \in Nodes /\ Shape(disk, node', gone \ {h})
<1>1. disk' = disk /\ node' = [node EXCEPT ![h] = NoNode]
  BY DEF Close
<1>2. /\ node' \in Nodes /\ node'[h] = NoNode
      /\ \A g \in Handle \ {h} : node'[g] = node[g]
  BY <1>1 DEF Nodes
<1> DEFINE gn2 == gone \ {h}
<1>3. \A g \in Held(node', gn2) : g \in Held(node, gone) /\ node'[g] = node[g]
  BY <1>2 DEF Held
<1>4. \A j \in Inode, b \in Block : Has(disk, node', gn2, j, b) => Has(disk, node, gone, j, b)
  BY <1>3 DEF Has
<1>5. Owned(disk, node', gn2)
  <2>1. Extended(disk, node, gone, disk, node', gn2, Root)
    BY <1>4 DEF Extended
  <2>2. Owned(disk, node, gone)
    BY DEF Shape
  <2> QED
    BY <2>1, <2>2, OwnedMore, Zenon
<1>6. Copies(disk, node', gn2)
  <2>1. Copies(disk, node, gone)
    BY DEF Shape
  <2> QED
    BY <2>1, <1>3 DEF Copies
<1> QED
  BY <1>1, <1>2, <1>5, <1>6 DEF Shape

(* A write changes the inode record of its file: to the copy, which may    *)
(* have got a free block.                                                  *)
LEMMA WriteTyped ==
  ASSUME disk \in Volume, node \in Nodes, NEW h \in Handle, NEW k \in Index, Write(h, k)
  PROVE  LET i == node[h].idx
             copy == node[h].inode
         IN  /\ node[h] # NoNode /\ node[h] \in Ext2Node
             /\ \E r \in InodeRecord, b \in Block :
                  /\ r.kind = copy.kind /\ r.links = copy.links
                  /\ disk' \in Volume /\ disk'.inodes = disk.inodes
                  /\ \A f \in Block \ {b} : disk'.content[f] = disk.content[f]
                  /\ disk'.content[b] = Zeroed
                  /\ \A j \in Inode \ {i} : disk'.inode[j] = disk.inode[j]
                  /\ node' \in Nodes
                  /\ \A g \in Handle \ {h} : node'[g] = node[g]
                  /\ node'[h] # NoNode /\ node'[h].idx = i /\ node'[h].inode = r
                  /\ \/ /\ r = copy /\ copy.block[k] = b
                        /\ disk'.blocks = disk.blocks
                        /\ disk'.inode[i] \in {disk.inode[i], copy}
                     \/ /\ b \notin disk.blocks /\ disk'.blocks = disk.blocks \cup {b}
                        /\ disk'.inode[i] = r /\ copy.block[k] = 0
                        /\ \A l \in Index : r.block[l] = IF l = k THEN b ELSE copy.block[l]
<1> DEFINE i == node[h].idx
           copy == node[h].inode
           b == FreeBlock(disk)
           more == [copy EXCEPT !.block[k] = b]
<1>1. node[h] # NoNode
  BY DEF Write
<1>2. node[h] \in Ext2Node /\ i \in Inode /\ copy \in InodeRecord
  BY <1>1 DEF Nodes, Ext2Node
<1>3. NoNode.idx # i
  BY <1>2 DEF NoNode, Inode, Root
<1>4. Zeroed \in [Slots -> DirectoryEntry]
  BY DEF Zeroed, Unused, DirectoryEntry
<1>5. CASE /\ copy.block[k] # 0
           /\ \E grows \in BOOLEAN :
                disk' = [disk EXCEPT !.content[copy.block[k]] = Zeroed,
                                     !.inode[i] = IF grows THEN copy ELSE @]
           /\ UNCHANGED node
  <2> DEFINE f == copy.block[k]
  <2>1. f \in Block
    BY <1>2, <1>5 DEF InodeRecord
  <2>2. PICK r \in {disk.inode[i], copy} :
          disk' = [disk EXCEPT !.content[f] = Zeroed, !.inode[i] = r]
    <3>1. PICK grows \in BOOLEAN :
             disk' = [disk EXCEPT !.content[f] = Zeroed, !.inode[i] = IF grows THEN copy ELSE @]
      BY <1>5
    <3> DEFINE r == IF grows THEN copy ELSE disk.inode[i]
    <3>2. disk' = [disk EXCEPT !.content[f] = Zeroed, !.inode[i] = r]
      BY <3>1
    <3>3. r \in {disk.inode[i], copy}
      OBVIOUS
    <3> HIDE DEF r
    <3> QED
      BY <3>2, <3>3
  <2>3. r \in InodeRecord
    BY <1>2, <2>2 DEF Volume
  <2> HIDE DEF f
  <2>4. /\ disk' \in Volume /\ disk'.inodes = disk.inodes /\ disk'.blocks = disk.blocks
        /\ disk'.content[f] = Zeroed /\ \A g \in Block \ {f} : disk'.content[g] = disk.content[g]
        /\ disk'.inode[i] = r /\ \A j \in Inode \ {i} : disk'.inode[j] = disk.inode[j]
    BY <1>2, <1>4, <2>1, <2>2, <2>3 DEF Volume
  <2>5. node' = node
    BY <1>5
  <2> HIDE DEF i, copy
  <2>6. /\ node' \in Nodes /\ \A g \in Handle \ {h} : node'[g] = node[g]
        /\ node'[h] # NoNode /\ node'[h].idx = i /\ node'[h].inode = copy
    BY <1>1, <2>5 DEF i, copy
  <2> QED
    BY <1>1, <1>2, <2>1, <2>2, <2>4, <2>6 DEF f, i, copy
<1>6. CASE /\ copy.block[k] = 0 /\ b # 0
           /\ disk' = [disk EXCEPT !.inode[i] = more, !.blocks = @ \cup {b}, !.content[b] = Zeroed]
           /\ node' = [node EXCEPT ![h].inode = more]
  <2>1. b \in Block \ disk.blocks
    BY <1>6, FreeBlockIs
  <2> HIDE DEF b
  <2>2. /\ more \in InodeRecord /\ more.kind = copy.kind /\ more.links = copy.links
        /\ \A l \in Index : more.block[l] = IF l = k THEN b ELSE copy.block[l]
    BY <1>2, <2>1 DEF InodeRecord
  <2>3. node' = [node EXCEPT ![h] = [node[h] EXCEPT !.inode = more]]
    BY <1>6
  <2>4. disk' = [disk EXCEPT !.inode[i] = more, !.blocks = @ \cup {b}, !.content[b] = Zeroed]
    BY <1>6
  <2> HIDE DEF more
  <2>5. /\ disk' \in Volume /\ disk'.inodes = disk.inodes /\ disk'.blocks = disk.blocks \cup {b}
        /\ disk'.content[b] = Zeroed /\ \A g \in Block \ {b} : disk'.content[g] = disk.content[g]
        /\ disk'.inode[i] = more /\ \A j \in Inode \ {i} : disk'.inode[j] = disk.inode[j]
    BY <1>2, <1>4, <2>1, <2>2, <2>4 DEF Volume
  <2>6. /\ [node[h] EXCEPT !.inode = more] \in Ext2Node
        /\ [node[h] EXCEPT !.inode = more].idx = i /\ [node[h] EXCEPT !.inode = more].inode = more
    BY <1>2, <2>2 DEF Ext2Node
  <2>7. /\ node' \in Nodes /\ \A g \in Handle \ {h} : node'[g] = node[g]
        /\ node'[h].idx = i /\ node'[h].inode = more
    BY <2>3, <2>6 DEF Nodes
  <2>8. node'[h] # NoNode
    BY <1>3, <2>7
  <2> HIDE DEF i, copy
  <2> QED
    BY <1>1, <1>2, <1>6, <2>1, <2>2, <2>5, <2>7, <2>8 DEF i, copy
<1> QED
  BY <1>5, <1>6, Zenon DEF Write

LEMMA WriteKeeps ==
  ASSUME node \in Nodes, Shape(disk, node, gone), Counted(disk), Single(disk),
         NEW h \in Handle \ gone, NEW k \in Index, Write(h, k)
  PROVE  /\ node' \in Nodes /\ Shape(disk', node', gone) /\ Counted(disk') /\ Single(disk')
         /\ node[h].idx \in disk.inodes /\ DirsOf(disk') = DirsOf(disk)
         /\ \A c \in DirsOf(disk), p \in Position : At(disk', c, p) = At(disk, c, p)
<1> DEFINE i == node[h].idx
           copy == node[h].inode
<1>1. disk \in Volume
  BY DEF Shape
<1>2. node[h] # NoNode /\ node[h] \in Ext2Node
  BY <1>1, WriteTyped
<1>3. PICK r \in InodeRecord, b \in Block :
        /\ r.kind = copy.kind /\ r.links = copy.links
        /\ disk' \in Volume /\ disk'.inodes = disk.inodes
        /\ \A f \in Block \ {b} : disk'.content[f] = disk.content[f]
        /\ disk'.content[b] = Zeroed
        /\ \A j \in Inode \ {i} : disk'.inode[j] = disk.inode[j]
        /\ node' \in Nodes
        /\ \A g \in Handle \ {h} : node'[g] = node[g]
        /\ node'[h] # NoNode /\ node'[h].idx = i /\ node'[h].inode = r
        /\ \/ /\ r = copy /\ copy.block[k] = b
              /\ disk'.blocks = disk.blocks
              /\ disk'.inode[i] \in {disk.inode[i], copy}
           \/ /\ b \notin disk.blocks /\ disk'.blocks = disk.blocks \cup {b}
              /\ disk'.inode[i] = r
              /\ \A l \in Index : r.block[l] = IF l = k THEN b ELSE copy.block[l]
  BY <1>1, WriteTyped
<1>4. h \in Held(node, gone)
  BY <1>2 DEF Held
<1>5. /\ i \in disk.inodes /\ i \in Inode /\ disk.inode[i].kind = "File"
      /\ copy.kind = "File" /\ copy.links = 1 /\ Clean(copy) /\ copy \in InodeRecord
  BY <1>1, <1>2, <1>4 DEF Shape, Copies, Volume, Ext2Node
<1>6. \A l \in Index : Has(disk, node, gone, i, copy.block[l])
  BY <1>4 DEF Has
<1> HIDE DEF i, copy
<1>7. \A f \in Block, c \in Inode :
        /\ Has(disk, node, gone, i, f) => f \in disk.blocks
        /\ Has(disk, node, gone, i, f) /\ Has(disk, node, gone, c, f) => c = i
        /\ Has(disk, node, gone, c, f) => f \in disk.blocks
  <2>1. Owned(disk, node, gone)
    BY DEF Shape
  <2> QED
    BY <1>5, <2>1, Zenon DEF Owned
<1>8. \A l \in Index : copy.block[l] # 0 => copy.block[l] \in disk.blocks
  <2>1. \A l \in Index : copy.block[l] # 0 => copy.block[l] \in Block
    BY <1>5 DEF InodeRecord
  <2> QED
    BY <1>5, <1>6, <1>7, <2>1
<1>9. Clean(r)
  <2>1. CASE r = copy
    BY <2>1, <1>5
  <2>2. CASE b \notin disk.blocks /\ \A l \in Index : r.block[l] = IF l = k THEN b ELSE copy.block[l]
    <3>1. b # 0
      BY Ext2Assumption DEF Block
    <3> QED
      BY <2>2, <3>1, <1>5, <1>8 DEF Clean
  <2> QED
    BY <2>1, <2>2, <1>3
<1>10. /\ disk'.inode[i].kind = "File" /\ disk'.inode[i].links = 1 /\ Clean(disk'.inode[i])
  <2>1. disk.inode[i].links = 1 /\ Clean(disk.inode[i])
    BY <1>5 DEF Single, Shape, Tidy
  <2>2. disk'.inode[i] \in {disk.inode[i], copy, r}
    BY <1>3
  <2>3. r.kind = "File" /\ r.links = 1
    BY <1>3, <1>5
  <2> QED
    BY <1>5, <1>9, <2>1, <2>2, <2>3
<1>11. \A j \in disk'.inodes : j \in disk.inodes /\ j \in Inode /\ (j # i => disk'.inode[j] = disk.inode[j])
  BY <1>1, <1>3 DEF Volume
<1>12. DirsOf(disk') = DirsOf(disk) /\ i \notin DirsOf(disk)
  BY <1>3, <1>5, <1>10, <1>11 DEF DirsOf
<1>13. ASSUME NEW c \in DirsOf(disk), NEW p \in Position
       PROVE  At(disk', c, p) = At(disk, c, p)
  <2> DEFINE f == disk.inode[c].block[p[1]]
  <2>1. c \in disk.inodes /\ c \in Inode /\ c # i /\ p[1] \in Index
    BY <1>1, <1>12 DEF DirsOf, Volume, Position
  <2>2. f \in Block \cup {0} /\ disk'.inode[c] = disk.inode[c]
    BY <1>1, <1>3, <2>1 DEF Volume, InodeRecord
  <2>3. Has(disk, node, gone, c, f)
    BY <2>1 DEF Has
  <2>4. f # 0 => f # b
    <3> SUFFICES ASSUME f \in Block, f = b PROVE FALSE
      BY <2>2
    <3>1. ~Has(disk, node, gone, i, f) /\ f \in disk.blocks
      BY <1>7, <2>1, <2>3
    <3>2. f \notin disk.blocks \/ copy.block[k] = f
      BY <1>3
    <3> QED
      BY <3>1, <3>2, <1>6
  <2> QED
    BY <1>3, <2>2, <2>4 DEF At
<1>14. \A j : NamesOf(disk', j) = NamesOf(disk, j)
  <2>1. \A x \in DirsOf(disk) \X Position : At(disk', x[1], x[2]) = At(disk, x[1], x[2])
    BY <1>13
  <2> QED
    BY <1>12, <2>1 DEF NamesOf
<1>15. RootKept(disk')
  BY <1>12, <1>14 DEF RootKept, Shape
<1>16. Tidy(disk')
  <2> SUFFICES ASSUME NEW j \in disk'.inodes
               PROVE  Clean(disk'.inode[j]) /\ (disk'.inode[j].kind = "Dir" => Filled(disk'.inode[j]))
    BY DEF Tidy
  <2>1. CASE j = i
    BY <2>1, <1>10
  <2>2. CASE j # i
    BY <2>2, <1>11 DEF Shape, Tidy
  <2> QED
    BY <2>1, <2>2
<1>17. \A g \in Held(node', gone) :
          g \in Held(node, gone) /\ node'[g].idx = node[g].idx /\ (g # h => node'[g] = node[g])
  BY <1>2, <1>3, <1>4 DEF Held, i
<1>18. ASSUME NEW l \in Index, NEW f \in Block, r.block[l] = f
       PROVE  Has(disk, node, gone, i, f) \/ f \in disk'.blocks \ disk.blocks
  <2>1. \/ r.block[l] = copy.block[l]
        \/ r.block[l] = b /\ b \notin disk.blocks /\ b \in disk'.blocks
    BY <1>3
  <2> QED
    BY <2>1, <1>6, <1>18
<1>19. ASSUME NEW j \in Inode, NEW f \in Block, Has(disk', node', gone, j, f)
       PROVE  Has(disk, node, gone, j, f) \/ (j = i /\ f \in disk'.blocks \ disk.blocks)
  <2>1. ASSUME NEW l \in Index, j \in disk'.inodes, disk'.inode[j].block[l] = f
        PROVE  Has(disk, node, gone, j, f) \/ (j = i /\ f \in disk'.blocks \ disk.blocks)
    <3>1. CASE j # i
      BY <3>1, <2>1, <1>11 DEF Has
    <3>2. CASE j = i /\ disk'.inode[i] = disk.inode[i]
      BY <3>2, <2>1, <1>5 DEF Has
    <3>3. CASE j = i /\ disk'.inode[i] = copy
      BY <3>3, <2>1, <1>6
    <3>4. CASE j = i /\ disk'.inode[i] = r
      BY <3>4, <2>1, <1>18
    <3> QED
      BY <3>1, <3>2, <3>3, <3>4, <1>3
  <2>2. ASSUME NEW g \in Held(node', gone), NEW l \in Index,
               node'[g].idx = j, node'[g].inode.block[l] = f
        PROVE  Has(disk, node, gone, j, f) \/ (j = i /\ f \in disk'.blocks \ disk.blocks)
    <3>1. CASE g = h
      BY <3>1, <2>2, <1>3, <1>18
    <3>2. CASE g # h
      BY <3>2, <2>2, <1>17 DEF Has
    <3> QED
      BY <3>1, <3>2
  <2> QED
    BY <1>19, <2>1, <2>2, Zenon DEF Has
<1>20. Owned(disk', node', gone)
  <2>1. Extended(disk, node, gone, disk', node', gone, i)
    <3>1. disk.blocks \subseteq disk'.blocks
      BY <1>3
    <3> QED
      BY <1>19, <3>1, Zenon DEF Extended
  <2>2. Owned(disk, node, gone)
    BY DEF Shape
  <2> QED
    BY <2>1, <2>2, OwnedMore, Zenon
<1>21. Copies(disk', node', gone)
  <2> SUFFICES ASSUME NEW g \in Held(node', gone)
               PROVE  /\ node'[g].idx \in disk'.inodes /\ disk'.inode[node'[g].idx].kind = "File"
                      /\ node'[g].inode.kind = "File" /\ node'[g].inode.links = 1
                      /\ Clean(node'[g].inode)
    BY DEF Copies
  <2>1. /\ node[g].idx \in disk.inodes /\ disk.inode[node[g].idx].kind = "File"
        /\ node[g].inode.kind = "File" /\ node[g].inode.links = 1 /\ Clean(node[g].inode)
    BY <1>17 DEF Shape, Copies
  <2>2. node'[g].idx \in disk'.inodes /\ disk'.inode[node'[g].idx].kind = "File"
    BY <1>3, <1>10, <1>11, <1>17, <2>1
  <2>3. node'[g].inode.kind = "File" /\ node'[g].inode.links = 1 /\ Clean(node'[g].inode)
    <3>1. CASE g = h
      BY <3>1, <1>3, <1>5, <1>9
    <3>2. CASE g # h
      BY <3>2, <2>1, <1>17
    <3> QED
      BY <3>1, <3>2
  <2> QED
    BY <2>2, <2>3
<1>22. Counted(disk')
  <2>1. ASSUME NEW j \in Inode, NamesOf(disk', j) # {}
        PROVE  /\ NamesOf(disk', j) \subseteq NamesOf(disk, j)
               /\ j \in disk'.inodes /\ disk'.inode[j].links >= disk.inode[j].links
    <3>1. j \in disk.inodes /\ j \in disk'.inodes
      BY <1>3, <1>14, <2>1 DEF Counted
    <3>2. disk'.inode[j].links = disk.inode[j].links
      <4>1. CASE j = i
        BY <4>1, <1>5, <1>10 DEF Single
      <4>2. CASE j # i
        BY <4>2, <3>1, <1>11
      <4> QED
        BY <4>1, <4>2
    <3>3. disk.inode[j].links \in Nat
      BY <1>1 DEF Volume, InodeRecord
    <3> QED
      BY <3>1, <3>2, <3>3, <1>14
  <2> QED
    BY <2>1, <1>1, <1>3, CountedFewer
<1>23. Single(disk')
  BY <1>10, <1>11 DEF Single
<1>24. Blank(disk')
  <2>1. Blank(disk)
    BY DEF Shape
  <2> QED
    BY <1>12, <1>13, <2>1 DEF Blank
<1> QED
  BY <1>3, <1>5, <1>12, <1>13, <1>15, <1>16, <1>20, <1>21, <1>22, <1>23, <1>24 DEF Shape, i

-----------------------------------------------------------------------------
(* The invariant.                                                          *)

LEMMA InitIInv == HInit => IInv
<1> SUFFICES ASSUME HInit PROVE IInv
  OBVIOUS
<1> DEFINE e == [name |-> Home, inode |-> Root + 1]
           rr == [New("Dir") EXCEPT !.links = 3, !.block[1] = 1]
           rh == [New("Dir") EXCEPT !.links = 2, !.block[1] = 2]
<1>1. /\ disk.inodes = {Root, Root + 1} /\ disk.blocks = {1, 2} /\ gone = {}
      /\ node = [h \in Handle |-> NoNode]
      /\ disk.inode = [i \in Inode |-> CASE i = Root -> rr [] i = Root + 1 -> rh [] OTHER -> FreeRecord]
      /\ disk.content = [b \in Block |-> CASE b = 1 -> Made(Root, Root, e)
                                           [] b = 2 -> Made(Root + 1, Root, Unused)
                                           [] OTHER -> Zeroed]
      /\ disk = [inode |-> disk.inode, inodes |-> disk.inodes, blocks |-> disk.blocks,
                 content |-> disk.content]
  BY DEF HInit, Init
<1>2. /\ Root = 2 /\ Root \in Inode /\ Root + 1 \in Inode /\ Root # Root + 1
      /\ 1 \in Block /\ 2 \in Block /\ 1 \in Index /\ {1, 2, 3} \subseteq Slots
      /\ 0 \notin Block /\ 0 \notin Inode
  BY Ext2Assumption DEF Root, Inode, Block, Index, Slots
<1>3. /\ rr \in InodeRecord /\ rr.kind = "Dir" /\ rr.links = 3
      /\ \A k \in Index : rr.block[k] = IF k = 1 THEN 1 ELSE 0
      /\ rh \in InodeRecord /\ rh.kind = "Dir" /\ rh.links = 2
      /\ \A k \in Index : rh.block[k] = IF k = 1 THEN 2 ELSE 0
      /\ FreeRecord \in InodeRecord
  BY <1>2 DEF New, InodeRecord, FreeRecord
<1>4. ASSUME NEW self \in Inode, NEW parent \in Inode, NEW x \in DirectoryEntry
      PROVE  /\ Made(self, parent, x) \in [Slots -> DirectoryEntry]
             /\ \A s \in Slots : \/ s = 3 /\ Made(self, parent, x)[s] = x
                                 \/ Made(self, parent, x)[s].name = Dot
                                 \/ Made(self, parent, x)[s] = Unused
  <2> DEFINE y1 == [name |-> Dot, inode |-> self]
             y2 == [name |-> Dot, inode |-> parent]
             made == Made(self, parent, x)
  <2>1. /\ y1 \in DirectoryEntry /\ y2 \in DirectoryEntry /\ Unused \in DirectoryEntry
        /\ y1.name = Dot /\ y2.name = Dot
    BY DEF DirectoryEntry, Unused
  <2>2. made = [Zeroed EXCEPT ![1] = y1, ![2] = y2, ![3] = x]
    BY DEF Made
  <2> HIDE DEF y1, y2, made
  <2>3. /\ made \in [Slots -> DirectoryEntry]
        /\ \A s \in Slots : made[s] = IF s = 3 THEN x ELSE IF s = 2 THEN y2
                                      ELSE IF s = 1 THEN y1 ELSE Unused
    BY <1>2, <2>1, <2>2 DEF Zeroed
  <2> QED
    BY <2>1, <2>3 DEF made
<1>5. e \in DirectoryEntry /\ Unused \in DirectoryEntry /\ Zeroed \in [Slots -> DirectoryEntry]
  BY <1>2, Ext2Assumption DEF DirectoryEntry, Unused, Zeroed
<1> HIDE DEF rr, rh, e
<1>6. \A s \in Slots :
         /\ \/ s = 3 /\ Made(Root, Root, e)[s] = e
            \/ Made(Root, Root, e)[s].name = Dot
            \/ Made(Root, Root, e)[s] = Unused
         /\ \/ Made(Root + 1, Root, Unused)[s].name = Dot
            \/ Made(Root + 1, Root, Unused)[s] = Unused
  <2>1. \A s \in Slots : \/ s = 3 /\ Made(Root, Root, e)[s] = e
                         \/ Made(Root, Root, e)[s].name = Dot
                         \/ Made(Root, Root, e)[s] = Unused
    BY <1>2, <1>4, <1>5, Zenon
  <2>2. \A s \in Slots : \/ s = 3 /\ Made(Root + 1, Root, Unused)[s] = Unused
                         \/ Made(Root + 1, Root, Unused)[s].name = Dot
                         \/ Made(Root + 1, Root, Unused)[s] = Unused
    BY <1>2, <1>4, <1>5, Zenon
  <2> QED
    BY <2>1, <2>2, Zenon
<1>7. /\ Made(Root, Root, e) \in [Slots -> DirectoryEntry]
       /\ Made(Root + 1, Root, Unused) \in [Slots -> DirectoryEntry]
  BY <1>2, <1>4, <1>5, Zenon
<1>8. /\ disk.inode \in [Inode -> InodeRecord] /\ disk.inode[Root] = rr
      /\ disk.inode[Root + 1] = rh
  BY <1>1, <1>2, <1>3
<1>9. /\ disk.content \in [Block -> [Slots -> DirectoryEntry]]
      /\ disk.content[1] = Made(Root, Root, e) /\ disk.content[2] = Made(Root + 1, Root, Unused)
  BY <1>1, <1>2, <1>5, <1>7
<1>10. disk \in Volume
  BY <1>1, <1>2, <1>8, <1>9 DEF Volume
<1>11. DirsOf(disk) = {Root, Root + 1}
  BY <1>1, <1>3, <1>8 DEF DirsOf
<1>12. ASSUME NEW i \in Inode, NEW x \in NamesOf(disk, i)
       PROVE  i = Root + 1 /\ x = <<Root, <<1, 3>>>>
  <2>1. /\ x = <<x[1], x[2]>> /\ x[2] = <<x[2][1], x[2][2]>>
        /\ x[1] \in {Root, Root + 1} /\ x[2][1] \in Index /\ x[2][2] \in Slots
        /\ At(disk, x[1], x[2]).inode = i /\ At(disk, x[1], x[2]).name # Dot
    BY <1>11 DEF NamesOf, Position
  <2>2. At(disk, x[1], x[2]) # Unused
    BY <1>2, <2>1 DEF Unused
  <2>3. x[2][1] = 1
    BY <1>3, <1>8, <2>1, <2>2 DEF At
  <2>4. CASE x[1] = Root
    <3>1. At(disk, x[1], x[2]) = Made(Root, Root, e)[x[2][2]]
      <4>1. disk.inode[x[1]].block[x[2][1]] = 1
        BY <1>3, <1>8, <2>1, <2>3, <2>4
      <4>2. At(disk, x[1], x[2]) = disk.content[1][x[2][2]]
        BY <4>1 DEF At
      <4> QED
        BY <1>9, <4>2
    <3>2. x[2][2] = 3 /\ At(disk, x[1], x[2]) = e
      BY <1>6, <2>1, <2>2, <3>1
    <3>3. e.inode = Root + 1
      BY DEF e
    <3> QED
      BY <2>1, <2>3, <2>4, <3>2, <3>3
  <2>5. CASE x[1] = Root + 1
    <3>1. At(disk, x[1], x[2]) = Made(Root + 1, Root, Unused)[x[2][2]]
      <4>1. disk.inode[x[1]].block[x[2][1]] = 2
        BY <1>3, <1>8, <2>1, <2>3, <2>5
      <4>2. At(disk, x[1], x[2]) = disk.content[2][x[2][2]]
        BY <4>1 DEF At
      <4> QED
        BY <1>9, <4>2
    <3> QED
      BY <1>6, <2>1, <2>2, <3>1
  <2> QED
    BY <2>1, <2>4, <2>5
<1>13. RootKept(disk)
  BY <1>2, <1>11, <1>12 DEF RootKept
<1>14. Counted(disk)
  <2> SUFFICES ASSUME NEW i \in Inode, NamesOf(disk, i) # {}
               PROVE  i \in disk.inodes /\ disk.inode[i].links >= Cardinality(NamesOf(disk, i))
    BY DEF Counted
  <2>1. i = Root + 1 /\ NamesOf(disk, i) = {<<Root, <<1, 3>>>>}
    BY <1>12
  <2>2. Cardinality(NamesOf(disk, i)) = 1
    BY <2>1, FS_Singleton
  <2> QED
    BY <1>1, <1>3, <1>8, <2>1, <2>2
<1>15. Tidy(disk)
  BY <1>1, <1>3, <1>8 DEF Tidy, Clean, Filled, Index
<1>16. Held(node, gone) = {}
  BY <1>1 DEF Held
<1>17. Owned(disk, node, gone)
  <2> SUFFICES ASSUME NEW b \in Block, NEW i \in Inode, NEW j \in Inode, Has(disk, node, gone, i, b)
               PROVE  b \in disk.blocks /\ (Has(disk, node, gone, j, b) => i = j)
    BY Zenon DEF Owned
  <2>1. ASSUME NEW c, Has(disk, node, gone, c, b)
        PROVE  (c = Root /\ b = 1) \/ (c = Root + 1 /\ b = 2)
    <3>1. c \in {Root, Root + 1} /\ \E k \in Index : disk.inode[c].block[k] = b
      BY <1>1, <1>16, <2>1 DEF Has
    <3> QED
      BY <1>2, <1>3, <1>8, <3>1
  <2> QED
    BY <1>1, <2>1
<1>18. Copies(disk, node, gone)
  BY <1>16 DEF Copies
<1>19. Single(disk)
  BY <1>1, <1>3, <1>8 DEF Single
<1>20. node \in Nodes
  BY <1>1 DEF Nodes
<1>21. Blank(disk)
  <2> SUFFICES ASSUME NEW c \in DirsOf(disk), NEW p \in Position, At(disk, c, p).inode # 0
               PROVE  At(disk, c, p).name # NoName
    BY DEF Blank
  <2> DEFINE i == At(disk, c, p).inode
  <2>1. i \in Inode
    BY <1>10, EntryIs DEF DirectoryEntry, DirsOf, Volume
  <2>2. CASE At(disk, c, p).name = Dot
    BY <2>2 DEF Dot, NoName
  <2>3. CASE At(disk, c, p).name # Dot
    <3>1. <<c, p>> \in NamesOf(disk, i)
      BY <2>3 DEF NamesOf
    <3>2. c = Root /\ p = <<1, 3>>
      BY <2>1, <3>1, <1>12
    <3>3. At(disk, c, p) = Made(Root, Root, e)[3]
      BY <1>2, <1>3, <1>8, <1>9, <3>2 DEF At
    <3>4. Made(Root, Root, e)[3] = e \/ Made(Root, Root, e)[3] = Unused
      BY <1>2, <1>6, <2>3, <3>3
    <3>5. e.name # NoName
      BY Ext2Assumption DEF e
    <3> QED
      BY <3>3, <3>4, <3>5 DEF Unused
  <2> QED
    BY <2>2, <2>3
<1> QED
  BY <1>10, <1>13, <1>14, <1>15, <1>17, <1>18, <1>19, <1>20, <1>21 DEF IInv, Shape, TypeOK, Volume, Nodes

LEMMA NextIInv == IInv /\ [HNext]_hvars => IInv'
<1> SUFFICES ASSUME IInv, [HNext]_hvars PROVE IInv'
  OBVIOUS
<1> DEFINE Good == Shape(disk, node, gone) /\ Counted(disk) /\ Single(disk)
           Types == disk' \in Volume /\ node' \in Nodes
           Goods == Shape(disk', node', gone') /\ Counted(disk') /\ Single(disk')
<1>1. disk \in Volume /\ node \in Nodes
  BY DEF IInv, TypeOK, Volume, Nodes
<1>2. SUFFICES Types /\ (~damaged' => Goods)
  BY DEF IInv, TypeOK, Volume, Nodes
<1>3. CASE UNCHANGED hvars
  <2>1. disk' = disk /\ node' = node /\ gone' = gone /\ damaged' = damaged
    BY <1>3 DEF hvars, vars
  <2>2. ~damaged => Good
    BY DEF IInv
  <2> QED
    BY <1>1, <2>1, <2>2
<1>4. CASE ~damaged /\ Calls
  <2>1. Good
    BY <1>4 DEF IInv
  <2>2. Opened \subseteq DirsOf(disk)
    BY <1>1, <2>1, OpenedIsDirectory DEF Shape
  <2>3. DirsOf(disk) \subseteq Inode
    BY <1>1 DEF DirsOf, Volume
  <2>4. ASSUME NEW h \in Handle, HClose(h) PROVE Types /\ Goods
    <3>1. Close(h) /\ gone' = gone \ {h}
      BY <2>4 DEF HClose
    <3>2. disk' = disk /\ node' \in Nodes /\ Shape(disk, node', gone \ {h})
      BY <1>1, <2>1, <3>1, CloseKeeps
    <3> QED
      BY <1>1, <2>1, <3>1, <3>2
  <2>5. ASSUME NEW h \in Handle, NEW k \in Index, HWrite(h, k) PROVE Types /\ (~damaged' => Goods)
    <3>1. Write(h, k) /\ damaged' = (h \in gone) /\ gone' = gone
      BY <2>5 DEF HWrite
    <3>2. Types
      BY <1>1, <3>1, WriteTyped
    <3>3. ASSUME ~damaged' PROVE Goods
      <4>1. h \in Handle \ gone
        BY <3>1, <3>3
      <4> QED
        BY <1>1, <2>1, <3>1, <4>1, WriteKeeps
    <3> QED
      BY <3>2, <3>3
  <2>6. ASSUME NEW d \in Opened, NEW n \in Name, HRemove(d, n) PROVE Types /\ (~damaged' => Goods)
    <3>1. /\ Remove(d, n) /\ gone' = gone \cup NowGone /\ damaged' = MeetsDead(disk, d, n)
          /\ node' = node /\ d \in DirsOf(disk) /\ d \in Inode /\ disk' \in Removed(disk, d, n)
      BY <2>2, <2>3, <2>6 DEF HRemove, Remove
    <3>2. CASE MeetsDead(disk, d, n)
      <4>1. disk' \in Volume
        BY <1>1, <3>1, <3>2, RemovedTyped
      <4> QED
        BY <1>1, <3>1, <3>2, <4>1
    <3>3. CASE ~MeetsDead(disk, d, n)
      <4>1. /\ Shape(disk', node, gone \cup Gone(node, disk.inodes \ disk'.inodes))
            /\ Counted(disk') /\ Single(disk')
        BY <2>1, <3>1, <3>3, RemoveKeeps
      <4>2. NowGone = Gone(node, disk.inodes \ disk'.inodes)
        BY DEF NowGone, Gone
      <4> QED
        BY <1>1, <3>1, <4>1, <4>2 DEF Shape
    <3> QED
      BY <3>2, <3>3
  <2>7. ASSUME NEW d \in Opened, NEW old \in Name, NEW new \in Name, HRename(d, old, new)
        PROVE  Types /\ (~damaged' => Goods)
    <3> DEFINE linked == Relinked(d, old, new)
               L == linked.disk
    <3>1. /\ Rename(d, old, new) /\ gone' = gone \cup NowGone /\ damaged' = MeetsDead(L, d, old)
          /\ node' = node /\ d \in DirsOf(disk) /\ d \in Inode
          /\ Target(disk, d, old) # 0
          /\ disk' \in IF linked.ok THEN Removed(L, d, old) ELSE {L}
      BY <2>2, <2>3, <2>7 DEF HRename, Rename
    <3>2. CASE MeetsDead(L, d, old)
      <4>1. L \in Volume
        BY <2>1, <3>1, LinkMade DEF Shape
      <4> HIDE DEF L, linked
      <4>2. disk' \in Volume
        BY <3>1, <3>2, <4>1, RemovedTyped
      <4> QED
        BY <1>1, <3>1, <3>2, <4>2
    <3>3. CASE ~MeetsDead(L, d, old)
      <4>1. /\ Shape(disk', node, gone \cup Gone(node, disk.inodes \ disk'.inodes))
            /\ Counted(disk') /\ Single(disk')
        BY <2>1, <3>1, <3>3, RenameKeeps
      <4>2. NowGone = Gone(node, disk.inodes \ disk'.inodes)
        BY DEF NowGone, Gone
      <4> QED
        BY <1>1, <3>1, <4>1, <4>2 DEF Shape
    <3> QED
      BY <3>2, <3>3
  <2>8. ASSUME Others, UNCHANGED <<gone, damaged>> PROVE Types /\ Goods
    <3>1. ASSUME NEW h \in Handle, NEW d \in Opened, NEW n \in Name, Open(h, d, n)
          PROVE  Types /\ Goods
      <4>1. d \in DirsOf(disk)
        BY <2>2
      <4>2. disk' = disk /\ node' \in Nodes /\ Shape(disk, node', gone)
        BY <1>1, <2>1, <3>1, <4>1, OpenKeeps
      <4> QED
        BY <1>1, <2>1, <2>8, <4>2
    <3>2. ASSUME NEW d \in Opened, NEW n \in Name, NEW kind \in {"File", "Dir"}, Create(d, n, kind)
          PROVE  Types /\ Goods
      <4>1. d \in DirsOf(disk) /\ node' = node
        BY <2>2, <3>2 DEF Create
      <4>2. Shape(disk', node, gone) /\ Counted(disk') /\ Single(disk')
        BY <2>1, <3>2, <4>1, CreateKeeps
      <4> QED
        BY <1>1, <2>8, <4>1, <4>2 DEF Shape
    <3> QED
      BY <2>8, <3>1, <3>2 DEF Others
  <2> QED
    BY <1>4, <2>4, <2>5, <2>6, <2>7, <2>8 DEF Calls
<1> QED
  BY <1>3, <1>4 DEF HNext

LEMMA IInvSound == IInv => DiskSound
<1> SUFFICES ASSUME IInv, ~damaged PROVE BlocksApart /\ EntriesCounted
  BY DEF IInv, DiskSound, BlocksApart, EntriesCounted
<1>1. Shape(disk, node, gone) /\ Counted(disk) /\ Apart(disk) /\ disk \in Volume
  BY ShapeApart DEF IInv, Shape
<1>2. \A i \in disk.inodes, k \in Index :
        LET b == disk.inode[i].block[k]
        IN  b # 0 => /\ b \in disk.blocks
                     /\ \A j \in disk.inodes, l \in Index :
                           disk.inode[j].block[l] = b => i = j /\ k = l
  BY <1>1 DEF Apart
<1>3. ASSUME NEW h \in Handle \ gone, node[h] # NoNode, NEW b \in BlocksOf(node[h].inode)
      PROVE  /\ b \in disk.blocks
             /\ \A j \in disk.inodes \ {node[h].idx} : b \notin BlocksOf(disk.inode[j])
  <2>1. h \in Held(node, gone)
    BY <1>3 DEF Held
  <2>2. PICK k \in Index : b = node[h].inode.block[k] /\ b # 0
    BY DEF BlocksOf
  <2>3. node[h].idx \in Inode /\ b \in Block
    <3>1. node[h] \in Ext2Node
      BY <1>3 DEF IInv, TypeOK
    <3> QED
      BY <2>2, <3>1 DEF Ext2Node, InodeRecord
  <2>4. Has(disk, node, gone, node[h].idx, b)
    BY <2>1, <2>2 DEF Has
  <2>5. Owned(disk, node, gone)
    BY <1>1 DEF Shape
  <2>6. b \in disk.blocks /\ \A j \in Inode : Has(disk, node, gone, j, b) => node[h].idx = j
    BY <2>3, <2>4, <2>5, Zenon DEF Owned
  <2>7. ASSUME NEW j \in disk.inodes \ {node[h].idx}, b \in BlocksOf(disk.inode[j]) PROVE FALSE
    <3>1. Has(disk, node, gone, j, b) /\ j \in Inode
      BY <1>1, <2>7 DEF BlocksOf, Has, Volume
    <3> QED
      BY <2>6, <3>1
  <2> QED
    BY <2>6, <2>7
<1>4. BlocksApart
  BY <1>2, <1>3 DEF BlocksApart
<1>5. EntriesCounted
  <2>1. Directories = DirsOf(disk)
    BY DEF Directories, DirsOf
  <2> QED
    BY <1>1, <2>1 DEF EntriesCounted, Counted, NamesOf
<1> QED
  BY <1>4, <1>5

(* Types are kept, and until a removed file is written to or a removed     *)
(* name removed again no block has two owners, no open file writes into a  *)
(* block of another or a free one, and nothing with a name is free: for    *)
(* any volume, any names and any number of open files (ext2/fs.rs).        *)
THEOREM Ext2DiskSound == HSpec => []DiskSound
<1>1. HSpec => []IInv
  BY InitIInv, NextIInv, PTL DEF HSpec
<1> QED
  BY <1>1, IInvSound, PTL

-----------------------------------------------------------------------------
(* rename keeps what could be found.                                       *)

LEMMA OtherEntriesStay ==
  ASSUME NEW dk, NEW nd, NEW gn, Shape(dk, nd, gn), Counted(dk), NEW d \in DirsOf(dk),
         NEW n \in Name, NEW new \in Removed(dk, d, n), Named(dk, d, n) # {},
         LET t == At(dk, d, First(Named(dk, d, n))).inode IN t = 0 \/ dk.inode[t].links > 1
  PROVE  \A p \in Position \ {First(Named(dk, d, n))} : At(new, d, p) = At(dk, d, p)
<1> DEFINE x == First(Named(dk, d, n))
           t == At(dk, d, x).inode
           left == Unlinked(dk, d, x)
<1>1. dk \in Volume /\ RootKept(dk) /\ Apart(dk) /\ d \in Inode
  BY ShapeApart DEF Shape, DirsOf, Volume
<1>2. Named(dk, d, n) \in SUBSET Position
  BY DEF Named
<1>3. x \in Named(dk, d, n)
  BY <1>2, FirstIs
<1>4. x \in Position /\ At(dk, d, x).name # NoName
  BY <1>3, Ext2Assumption DEF Named
<1>5. new \in {left, Dropped(left, t)} \cup {[left EXCEPT !.blocks = @ \ {b}] : b \in dk.blocks}
      /\ (t = 0 => new # Dropped(left, t) \/ new = left \/
                   new \in {[left EXCEPT !.blocks = @ \ {b}] : b \in dk.blocks})
  BY DEF Removed
<1>6. t = 0 \/ dk.inode[t].links > 1
  OBVIOUS
<1> HIDE DEF x, t
<1>7. left \in Volume /\ left.inode = dk.inode
  BY <1>1, <1>4, UnlinkedTyped
<1>8. \A p \in Position \ {x} : At(left, d, p) = At(dk, d, p)
  BY <1>1, <1>4, UnlinkedIs
<1> HIDE DEF left
<1>9. CASE new = left
  BY <1>8, <1>9 DEF x
<1>10. CASE new \in {[left EXCEPT !.blocks = @ \ {b}] : b \in dk.blocks}
  <2>1. new.inode = left.inode /\ new.content = left.content
    BY <1>7, <1>10 DEF Volume
  <2>2. \A p \in Position : At(new, d, p) = At(left, d, p)
    BY <2>1 DEF At
  <2> QED
    BY <1>8, <2>2 DEF x
<1>11. CASE t # 0 /\ new = Dropped(left, t)
  <2>1. left.inode[t].links > 1
    BY <1>6, <1>7, <1>11
  <2>2. ~(left.inode[t].links = 0) /\ ~(left.inode[t].links = 1)
    BY <2>1
  <2>3. new = [left EXCEPT !.inode[t].links = @ - 1]
    BY <1>11, <2>2 DEF Dropped
  <2>4. new.content = left.content /\ new.inode[d].block = left.inode[d].block
    BY <1>1, <1>7, <2>3 DEF Volume, InodeRecord
  <2>5. \A p \in Position : At(new, d, p) = At(left, d, p)
    BY <2>4 DEF At
  <2> QED
    BY <1>8, <2>5 DEF x
<1> QED
  BY <1>5, <1>9, <1>10, <1>11

LEMMA RenameKeepsFiles ==
  ASSUME Shape(disk, node, gone), Counted(disk), NEW d \in DirsOf(disk),
         NEW old \in Name, NEW new \in Name, Rename(d, old, new)
  PROVE  \A p \in Live(disk, d) :
           \E q \in Live(disk', d) : At(disk', d, q).inode = At(disk, d, p).inode
<1> DEFINE linked == Relinked(d, old, new)
           L == linked.disk
           t == Target(disk, d, old)
           e == [name |-> new, inode |-> t]
           x == First(Named(L, d, old))
<1>1. /\ t # 0
      /\ disk' \in IF linked.ok THEN Removed(L, d, old) ELSE {L}
  BY Zenon DEF Rename
<1>2. /\ DirsOf(L) = DirsOf(disk) /\ Shape(L, node, gone) /\ Counted(L)
      /\ t \in Inode
      /\ linked.ok => L.inode[t].links = disk.inode[t].links + 1
      /\ \A p \in Position : \/ At(L, d, p) = At(disk, d, p)
                             \/ At(disk, d, p).name = NoName /\ At(L, d, p) = e
      /\ linked.ok => \E q \in Position : At(disk, d, q).name = NoName /\ At(L, d, q) = e
  BY <1>1, LinkMade
<1>3. disk \in Volume /\ RootKept(disk) /\ L \in Volume /\ Blank(disk)
  BY <1>2 DEF Shape
<1> HIDE DEF linked, L
<1>4. e.inode = t
  OBVIOUS
<1>5. \A p \in Live(disk, d) : p \in Position /\ At(L, d, p) = At(disk, d, p) /\ At(disk, d, p).inode # 0
  BY <1>2, <1>3 DEF Live, Blank
<1> HIDE DEF e
<1>6. CASE ~linked.ok
  <2>1. disk' = L
    BY <1>1, <1>6
  <2> QED
    BY <1>5, <2>1 DEF Live
<1>7. CASE linked.ok
  <2>1. PICK q \in Position : At(disk, d, q).name = NoName /\ At(L, d, q) = e
    BY <1>2, <1>7
  <2>2. q \notin Live(disk, d)
    BY <1>3, <2>1 DEF Blank, Live
  <2>3. PICK y \in Position : At(disk, d, y).name = old /\ At(disk, d, y).inode = t
    BY <1>1, <1>3, TargetIs
  <2>4. Named(L, d, old) # {} /\ disk.inode[t].links \in Nat /\ disk.inode[t].links >= 1
    <3>1. old # NoName /\ old # Dot
      BY Ext2Assumption
    <3>2. At(L, d, y) = At(disk, d, y)
      BY <1>2, <2>3, <3>1
    <3>3. <<d, y>> \in NamesOf(disk, t)
      BY <2>3, <3>1 DEF NamesOf
    <3>4. disk.inode[t].links >= Cardinality(NamesOf(disk, t))
      BY <1>2, <3>3 DEF Counted
    <3>5. IsFiniteSet(NamesOf(disk, t)) /\ Cardinality(NamesOf(disk, t)) \in Nat
      BY <1>3, NamesFinite
    <3>6. Cardinality(NamesOf(disk, t)) # 0
      BY <3>3, <3>5, FS_EmptySet
    <3>7. disk.inode[t].links \in Nat
      BY <1>2, <1>3 DEF Volume, InodeRecord
    <3>8. disk.inode[t].links >= 1
      BY ONLY <3>4, <3>5, <3>6, <3>7
    <3> QED
      BY <2>3, <3>2, <3>7, <3>8 DEF Named
  <2>5. At(L, d, x).inode = 0 \/ At(L, d, x).inode = t
    <3>1. CASE MeetsDead(L, d, old)
      BY <3>1 DEF MeetsDead
    <3>2. CASE ~MeetsDead(L, d, old)
      BY <1>1, <1>2, <1>4, <2>4, <3>2, MovesTarget
    <3> QED
      BY <3>1, <3>2
  <2>6. \A p \in Position \ {x} : At(disk', d, p) = At(L, d, p)
    <3>1. disk' \in Removed(L, d, old) /\ d \in DirsOf(L)
      BY <1>1, <1>2, <1>7
    <3>2. At(L, d, x).inode = 0 \/ L.inode[At(L, d, x).inode].links > 1
      BY <1>2, <1>7, <2>4, <2>5
    <3> QED
      BY <1>2, <2>4, <3>1, <3>2, OtherEntriesStay
  <2> HIDE DEF x, t
  <2> SUFFICES ASSUME NEW p \in Live(disk, d)
               PROVE  \E z \in Live(disk', d) : At(disk', d, z).inode = At(disk, d, p).inode
    OBVIOUS
  <2>7. CASE p # x
    <3>1. At(disk', d, p) = At(disk, d, p)
      BY <1>5, <2>6, <2>7
    <3> QED
      BY <1>5, <3>1 DEF Live
  <2>8. CASE p = x
    <3>1. At(L, d, x).inode = t /\ At(disk, d, p).inode = t /\ q # x
      BY <1>5, <2>2, <2>5, <2>8
    <3>2. At(disk', d, q).inode = t
      BY <1>4, <2>1, <2>6, <3>1
    <3> QED
      BY <1>1, <3>1, <3>2 DEF Live, t
  <2> QED
    BY <2>7, <2>8
<1> QED
  BY <1>6, <1>7

(* Whatever rename meets, also the name of a removed file or a full disk,  *)
(* each file that could be found in the directory still can be             *)
(* (ext2/fs.rs, rename).                                                   *)
THEOREM Ext2RenameLosesNothing == HSpec => RenameLosesNothing
<1> DEFINE A == \A d \in Opened : ~(FilesIn(disk, d) \subseteq FilesIn(disk', d)) =>
                                     ~\E old, new \in Name : Rename(d, old, new)
<1>1. ASSUME IInv, [HNext]_hvars PROVE A \/ disk'.content = disk.content
  <2>1. CASE UNCHANGED hvars
    BY <2>1 DEF hvars, vars
  <2>2. CASE ~damaged
    <3>1. Shape(disk, node, gone) /\ Counted(disk)
      BY <1>1, <2>2 DEF IInv
    <3>2. Opened \subseteq DirsOf(disk)
      BY <3>1, OpenedIsDirectory DEF Shape
    <3>3. ASSUME NEW d \in Opened, NEW old \in Name, NEW new \in Name, Rename(d, old, new)
          PROVE  FilesIn(disk, d) \subseteq FilesIn(disk', d)
      <4>1. d \in DirsOf(disk)
        BY <3>2
      <4>2. \A p \in Live(disk, d) :
              \E q \in Live(disk', d) : At(disk', d, q).inode = At(disk, d, p).inode
        BY <3>1, <3>3, <4>1, RenameKeepsFiles
      <4> QED
        BY <4>2 DEF FilesIn
    <3> QED
      BY <3>3
  <2> QED
    BY <1>1, <2>1, <2>2 DEF HNext
<1>2. IInv /\ [HNext]_hvars => [A]_(disk.content)
  BY <1>1
<1>3. HSpec => []IInv
  BY InitIInv, NextIInv, PTL DEF HSpec
<1> QED
  BY <1>2, <1>3, PTL DEF HSpec, RenameLosesNothing

-----------------------------------------------------------------------------
(* Space is lost only in the known ways.                                   *)

Owns(dk) == UNION {BlocksOf(dk.inode[i]) : i \in dk.inodes}

LEMMA LinkedIs ==
  ASSUME NEW dk \in Volume
  PROVE  \A i \in Inode : i \in Linked(dk) <=>
           \A S \in SUBSET Inode :
             /\ Root \in S
             /\ \A d \in S \cap DirsOf(dk) : \A p \in Live(dk, d) : At(dk, d, p).inode \in S
             => i \in S
<1>1. \A S : (\A d \in S \cap DirsOf(dk) : \A p \in Live(dk, d) : At(dk, d, p).inode \in S)
               <=> Closed(dk, S)
  BY DEF Closed, DirsOf
<1> QED
  BY <1>1 DEF Linked

(* What had a path has one still, if the entries of all directories but    *)
(* those of T, which have none, are there still, except those for T.       *)
LEMMA StillLinked ==
  ASSUME NEW dk \in Volume, NEW new \in Volume, NEW T \in SUBSET Inode,
         \A c \in DirsOf(dk) \ T : /\ c \in DirsOf(new)
                                   /\ \A p \in Live(dk, c) : \/ At(dk, c, p).inode \in T
                                                             \/ \E q \in Live(new, c) :
                                                                  At(new, c, q).inode = At(dk, c, p).inode,
         \A c \in DirsOf(dk) \cap T : Live(dk, c) = {}
  PROVE  Linked(dk) \ T \subseteq Linked(new)
<1> SUFFICES ASSUME NEW i \in Linked(dk) \ T, NEW S \in SUBSET Inode, Root \in S,
                    \A d \in S \cap DirsOf(new)  :
                       \A p \in Live(new, d) : At(new, d, p).inode \in S
             PROVE  i \in S
  <2>1. Linked(dk) \subseteq Inode
    BY DEF Linked
  <2> QED
    BY <2>1, LinkedIs
<1> DEFINE U == S \cup T
<1>1. U \in SUBSET Inode /\ Root \in U
  OBVIOUS
<1>2. ASSUME NEW d \in U \cap DirsOf(dk), NEW p \in Live(dk, d) PROVE At(dk, d, p).inode \in U
  <2>1. d \notin T
    BY <1>2
  <2>2. d \in S \cap DirsOf(new)
    BY <2>1
  <2> QED
    BY <2>1, <2>2
<1>3. i \in Inode /\ i \in Linked(dk)
  BY DEF Linked
<1> HIDE DEF U
<1>4. i \in U
  BY <1>1, <1>2, <1>3, LinkedIs
<1> QED
  BY <1>4 DEF U

LEMMA NothingLost ==
  ASSUME NEW dk, NEW new, NEW T, Linked(dk) \ T \subseteq Linked(new),
         \A i \in new.inodes : i \in dk.inodes \ T \/ i \in Linked(new),
         new.blocks \ Owns(new) \subseteq dk.blocks \ Owns(dk)
  PROVE  Lost(new) \subseteq Lost(dk)
<1>1. new.inodes \ Linked(new) \subseteq dk.inodes \ Linked(dk)
  OBVIOUS
<1> QED
  BY <1>1 DEF Lost, Owns

(* A block that is taken is that of the directory that grows.              *)
LEMMA GrowthOwned ==
  ASSUME NEW dk \in Volume, NEW new \in Volume, NEW d \in dk.inodes, OnlyGrows(dk, new, d),
         dk.inodes \subseteq new.inodes
  PROVE  new.blocks \ Owns(new) \subseteq dk.blocks \ Owns(dk)
<1> SUFFICES ASSUME NEW b \in new.blocks, b \notin Owns(new) PROVE b \in dk.blocks /\ b \notin Owns(dk)
  OBVIOUS
<1>1. b # 0
  BY DEF Volume, Block
<1>2. \A i \in new.inodes, k \in Index : new.inode[i].block[k] # b
  BY <1>1 DEF Owns, BlocksOf
<1>3. b \in dk.blocks
  BY <1>2 DEF OnlyGrows
<1>4. ASSUME NEW i \in dk.inodes, NEW k \in Index, dk.inode[i].block[k] = b PROVE FALSE
  <2>1. i \in Inode /\ i \in new.inodes
    BY DEF Volume
  <2>2. new.inode[i].block[k] = b
    BY <1>1, <1>4, <2>1 DEF OnlyGrows
  <2> QED
    BY <1>2, <2>1, <2>2
<1> QED
  BY <1>3, <1>4 DEF Owns, BlocksOf

LEMMA OpenedLinked ==
  ASSUME disk \in Volume, RootKept(disk), Counted(disk)
  PROVE  Opened \subseteq Linked(disk)
<1> SUFFICES ASSUME NEW S \in SUBSET Inode, Root \in S,
                    \A d \in S \cap DirsOf(disk) : \A p \in Live(disk, d) : At(disk, d, p).inode \in S
             PROVE  Opened \subseteq S
  <2>1. Opened \subseteq Inode
    BY OpenedIsDirectory DEF DirsOf, Volume
  <2> QED
    BY <2>1, LinkedIs
<1> DEFINE D == S \cap DirsOf(disk)
<1>1. Root \in D
  BY DEF RootKept
<1>2. \A d \in D : Subs(d) \subseteq D
  BY SubIs
<1> HIDE DEF D
<1>3. Opened \subseteq D
  BY <1>1, <1>2, OpenedWithin
<1> QED
  BY <1>3 DEF D

LEMMA WriteLosesNothing ==
  ASSUME node \in Nodes, Shape(disk, node, gone), Counted(disk), Single(disk),
         NEW h \in Handle \ gone, NEW k \in Index, Write(h, k), ~Outdated(h)
  PROVE  Lost(disk') \subseteq Lost(disk)
<1> DEFINE i == node[h].idx
           copy == node[h].inode
           T == {}
<1>1. disk \in Volume /\ disk' \in Volume
  BY WriteTyped DEF Shape
<1>2. /\ i \in disk.inodes /\ DirsOf(disk') = DirsOf(disk)
      /\ \A c \in DirsOf(disk), p \in Position : At(disk', c, p) = At(disk, c, p)
  BY WriteKeeps
<1>3. copy = disk.inode[i]
  BY DEF Outdated
<1>4. PICK r \in InodeRecord, b \in Block :
        /\ disk'.inodes = disk.inodes
        /\ \A j \in Inode \ {i} : disk'.inode[j] = disk.inode[j]
        /\ \/ /\ disk'.blocks = disk.blocks
              /\ disk'.inode[i] \in {disk.inode[i], copy}
           \/ /\ disk'.blocks = disk.blocks \cup {b}
              /\ disk'.inode[i] = r /\ copy.block[k] = 0
              /\ \A l \in Index : r.block[l] = IF l = k THEN b ELSE copy.block[l]
  BY <1>1, WriteTyped
<1> HIDE DEF i, copy
<1>5. OnlyGrows(disk, disk', i)
  BY <1>2, <1>3, <1>4 DEF OnlyGrows
<1>6. disk'.blocks \ Owns(disk') \subseteq disk.blocks \ Owns(disk)
  BY <1>1, <1>2, <1>4, <1>5, GrowthOwned
<1>7. T \in SUBSET Inode
  OBVIOUS
<1>8. /\ \A c \in DirsOf(disk) \ T : /\ c \in DirsOf(disk')
                                    /\ \A p \in Live(disk, c) : \E q \in Live(disk', c) :
                                         At(disk', c, q).inode = At(disk, c, p).inode
      /\ DirsOf(disk) \cap T = {} /\ disk'.inodes = disk.inodes \ T
  BY <1>2, <1>4 DEF Live
<1> HIDE DEF T
<1>9. Linked(disk) \ T \subseteq Linked(disk')
  BY <1>1, <1>7, <1>8, StillLinked
<1> QED
  BY <1>6, <1>8, <1>9, NothingLost

LEMMA CreateLosesNothing ==
  ASSUME Shape(disk, node, gone), Counted(disk), Single(disk), NEW d \in DirsOf(disk),
         d \in Linked(disk), NEW n \in Name, NEW kind \in {"File", "Dir"}, Create(d, n, kind),
         ~HasFull(disk, d)
  PROVE  Lost(disk') \subseteq Lost(disk)
<1> DEFINE i == FreeInode(disk)
           made == WithInode(disk, i, kind)
           e == [name |-> n, inode |-> i]
           a == Added(made, d, e)
           T == {}
<1>1. /\ i # 0
      /\ disk' = IF a.ok THEN a.disk ELSE Freed(a.disk, i, {})
  BY Zenon DEF Create, WithInode
<1>2. i \in Inode \ disk.inodes
  BY <1>1, FreeInodeIs
<1> HIDE DEF i
<1>3. /\ Shape(made, node, gone) /\ made.inode[i] = New(kind)
      /\ made.inodes = disk.inodes \cup {i} /\ DirsOf(disk) \subseteq DirsOf(made)
      /\ made.blocks = disk.blocks
      /\ \A j \in Inode \ {i} : made.inode[j] = disk.inode[j]
      /\ \A c \in DirsOf(disk), p \in Position : At(made, c, p) = At(disk, c, p)
  BY <1>2, MadeShape
<1>4. d \in DirsOf(made) /\ d # i /\ d \in Inode /\ disk \in Volume /\ d \in disk.inodes
  BY <1>2, <1>3 DEF DirsOf, Shape, Volume
<1>5. e \in DirectoryEntry /\ e.inode = i /\ i # 0
  BY <1>2, Ext2Assumption DEF DirectoryEntry, Inode, Root
<1> HIDE DEF made, e
<1>6. made \in Volume /\ Tidy(made) /\ Apart(made)
  BY <1>3, ShapeApart DEF Shape
<1>7. ~HasFull(made, d)
  <2>1. \A p \in Position : At(made, d, p) = At(disk, d, p)
    BY <1>3
  <2>2. \A p \in Position : At(made, d, <<p[1], 1>>) = At(disk, d, <<p[1], 1>>)
    <3>1. \A p \in Position : <<p[1], 1>> \in Position
      BY Ext2Assumption DEF Position, Slots
    <3> QED
      BY <2>1, <3>1
  <2>3. Room(made, d) = Room(disk, d)
    BY <2>1, <2>2 DEF Room
  <2>4. made.inode[d] = disk.inode[d]
    BY <1>3, <1>4
  <2> QED
    BY <2>3, <2>4 DEF HasFull
<1>8. \/ a.ok /\ Entered(made, a.disk, d, e)
      \/ /\ ~a.ok /\ a.disk = [made EXCEPT !.blocks = a.disk.blocks]
         /\ a.disk.blocks = made.blocks
  BY <1>4, <1>5, <1>6, <1>7, AddedIs DEF HasFull
<1>9. \A c \in DirsOf(disk) : \A p \in Live(disk, c) :
         p \in Position /\ At(disk, c, p).name # NoName /\ At(disk, c, p).inode # 0
  BY DEF Live, Shape, Blank
<1>10. T \in SUBSET Inode /\ DirsOf(disk) \cap T = {} /\ DirsOf(disk) \ T = DirsOf(disk) /\ disk.inodes \ T = disk.inodes
  OBVIOUS
<1> HIDE DEF T
<1>11. CASE a.ok
  <2> DEFINE new == a.disk
  <2>1. disk' = new /\ Entered(made, new, d, e)
    BY <1>1, <1>8, <1>11
  <2> HIDE DEF new
  <2>2. new \in Volume /\ new.inodes = made.inodes /\ DirsOf(new) = DirsOf(made)
    <3>1. \A j \in Inode : new.inode[j].kind = made.inode[j].kind
      BY <2>1 DEF Entered
    <3>2. new \in Volume /\ new.inodes = made.inodes /\ made.inodes \subseteq Inode
      BY <1>6, <2>1 DEF Entered, Volume
    <3> QED
      BY <3>1, <3>2 DEF DirsOf
  <2>3. \A c \in DirsOf(disk) : /\ c \in DirsOf(new)
                               /\ \A p \in Live(disk, c) : \E q \in Live(new, c) :
                                    At(new, c, q).inode = At(disk, c, p).inode
    <3>1. ASSUME NEW c \in DirsOf(disk), NEW p \in Live(disk, c)
          PROVE  p \in Live(new, c) /\ At(new, c, p).inode = At(disk, c, p).inode
      <4>1. c \in DirsOf(made) /\ At(made, c, p) = At(disk, c, p)
        BY <1>3, <1>9
      <4>2. At(new, c, p) = At(made, c, p)
        BY <1>9, <2>1, <4>1 DEF Entered
      <4> QED
        BY <1>9, <4>1, <4>2 DEF Live
    <3> QED
      BY <1>3, <2>2, <3>1
  <2>4. Linked(disk) \ T \subseteq Linked(new)
    BY <1>4, <1>10, <2>2, <2>3, StillLinked
  <2>5. i \in Linked(new)
    <3> SUFFICES ASSUME NEW S \in SUBSET Inode, Root \in S,
                        \A c \in S \cap DirsOf(new) : \A p \in Live(new, c) : At(new, c, p).inode \in S
                 PROVE  i \in S
      BY <1>2, <2>2, LinkedIs
    <3>1. d \in Linked(new)
      BY <1>4, <1>10, <2>4
    <3>2. d \in S
      BY <1>4, <2>2, <3>1, LinkedIs
    <3>3. PICK q \in Position : At(new, d, q) = e
      BY <1>4, <2>1 DEF Entered
    <3>4. q \in Live(new, d) /\ At(new, d, q).inode = i
      BY <1>5, <3>3 DEF Live
    <3> QED
      BY <1>4, <2>2, <3>2, <3>4
  <2>6. OnlyGrows(made, new, d)
    BY <2>1 DEF Entered, OnlyGrows
  <2>7. new.blocks \ Owns(new) \subseteq made.blocks \ Owns(made)
    BY <1>4, <1>6, <2>2, <2>6, GrowthOwned DEF DirsOf
  <2>8. Owns(disk) \subseteq Owns(made)
    <3>1. \A j \in disk.inodes : j \in made.inodes /\ made.inode[j] = disk.inode[j]
      BY <1>2, <1>3, <1>4 DEF Volume
    <3> QED
      BY <3>1 DEF Owns
  <2>9. new.blocks \ Owns(new) \subseteq disk.blocks \ Owns(disk)
    BY <1>3, <2>7, <2>8
  <2>10. \A j \in new.inodes : j \in disk.inodes \ T \/ j \in Linked(new)
    BY <1>3, <1>10, <2>2, <2>5
  <2> QED
    BY <2>1, <2>4, <2>9, <2>10, NothingLost
<1>12. CASE ~a.ok
  <2> DEFINE failed == a.disk
             new == Freed(failed, i, {})
  <2>1. /\ disk' = new /\ failed.blocks = made.blocks
        /\ failed = [made EXCEPT !.blocks = failed.blocks]
    BY <1>1, <1>8, <1>12
  <2> HIDE DEF failed
  <2>2. failed = made
    BY <2>1, <1>6 DEF Volume
  <2>3. FreeRecord \in InodeRecord
    BY DEF FreeRecord, InodeRecord
  <2>4. /\ new.inodes = disk.inodes /\ new.blocks = disk.blocks
        /\ \A j \in Inode \ {i} : new.inode[j] = disk.inode[j]
        /\ \A b \in Block : new.content[b] = made.content[b]
        /\ new \in Volume
    BY <1>2, <1>3, <1>6, <2>2, <2>3 DEF Freed, Volume
  <2> HIDE DEF new
  <2>5. \A j \in disk.inodes : j \in Inode \ {i} /\ new.inode[j] = disk.inode[j]
    BY <1>2, <1>4, <2>4 DEF Volume
  <2>6. ASSUME NEW c \in DirsOf(disk), NEW p \in Position PROVE At(new, c, p) = At(disk, c, p)
    <3>1. c \in Inode \ {i} /\ c \in Inode /\ p[1] \in Index
      BY <2>5 DEF DirsOf, Position
    <3>2. new.inode[c] = made.inode[c] /\ made.inode[c].block[p[1]] \in Block \cup {0}
      BY <1>3, <1>6, <2>4, <3>1 DEF Volume, InodeRecord
    <3>3. At(new, c, p) = At(made, c, p)
      BY <2>4, <3>2 DEF At
    <3> QED
      BY <1>3, <3>3
  <2>7. Owns(new) = Owns(disk)
    BY <2>4, <2>5 DEF Owns
  <2>8. DirsOf(new) = DirsOf(disk)
    BY <2>4, <2>5 DEF DirsOf
  <2>9. \A c \in DirsOf(disk) : /\ c \in DirsOf(new)
                               /\ \A p \in Live(disk, c) : \E q \in Live(new, c) :
                                    At(new, c, q).inode = At(disk, c, p).inode
    BY <1>9, <2>6, <2>8 DEF Live
  <2>10. Linked(disk) \ T \subseteq Linked(new)
    <3>1. disk \in Volume /\ new \in Volume
      BY <1>4, <2>4
    <3> QED
      BY <1>10, <2>9, <3>1, StillLinked
  <2> QED
    BY <1>10, <2>1, <2>4, <2>7, <2>10, NothingLost
<1> QED
  BY <1>11, <1>12

(* The first entry with the name, when it is not that of a removed file,   *)
(* is the one that rename would move.                                      *)
LEMMA TargetFirst ==
  ASSUME NEW dk, NEW d, NEW n, Named(dk, d, n) # {}, ~MeetsDead(dk, d, n)
  PROVE  Target(dk, d, n) = At(dk, d, First(Named(dk, d, n))).inode
<1> DEFINE p == First(Named(dk, d, n))
           live == Firsts(dk, d, n) \cap Live(dk, d)
<1>1. Named(dk, d, n) \in SUBSET Position
  BY DEF Named
<1>2. p \in Named(dk, d, n) /\ \A q \in Named(dk, d, n) \ {p} : Before(p, q)
  BY <1>1, FirstIs
<1>3. At(dk, d, p).inode # 0
  BY DEF MeetsDead
<1> HIDE DEF p
<1>4. p \in Live(dk, d) /\ p \in Position
  BY <1>1, <1>2, <1>3 DEF Live
<1>5. \A q \in Named(dk, d, n) : ~Before(q, p)
  BY <1>1, <1>2, <1>4, BeforeIsStrict
<1>6. p \in live /\ live \in SUBSET Position /\ \A q \in live \ {p} : Before(p, q)
  BY <1>2, <1>4, <1>5 DEF Firsts, Live
<1>7. First(live) = p
  BY <1>6, FirstAlone
<1>8. Target(dk, d, n) = At(dk, d, First(live)).inode
  BY <1>6 DEF Target, Firsts
<1> QED
  BY <1>7, <1>8 DEF p

(* What remove leaves when what it removes has no entries.                 *)
LEMMA RemovedEmpty ==
  ASSUME NEW dk, NEW nd, NEW gn, Shape(dk, nd, gn), Counted(dk), NEW d \in DirsOf(dk),
         NEW n \in Name, Named(dk, d, n) # {}, ~MeetsDead(dk, d, n), NEW new \in Removed(dk, d, n),
         NEW t, t = At(dk, d, First(Named(dk, d, n))).inode,
         dk.inode[t].kind = "Dir" => Live(dk, t) = {}
  PROVE  LET p == First(Named(dk, d, n))
         IN  /\ p \in Live(dk, d) /\ t \in dk.inodes \ {Root} /\ t \in Inode /\ t # d
             /\ dk.inode[t].links \in Nat /\ dk.inode[t].links >= 1
             /\ new \in Volume
             /\ \/ /\ dk.inode[t].links = 1 /\ new.inodes = dk.inodes \ {t}
                   /\ new.blocks = dk.blocks \ BlocksOf(dk.inode[t])
                \/ /\ dk.inode[t].links > 1 /\ new.inodes = dk.inodes /\ new.blocks = dk.blocks
             /\ \A i \in new.inodes : /\ new.inode[i].kind = dk.inode[i].kind
                                      /\ new.inode[i].block = dk.inode[i].block
             /\ \A c \in DirsOf(dk) \cap new.inodes, q \in Position :
                   ~(c = d /\ q = p) => At(new, c, q) = At(dk, c, q)
<1> DEFINE p == First(Named(dk, d, n))
           left == Unlinked(dk, d, p)
<1>1. dk \in Volume /\ RootKept(dk) /\ Apart(dk) /\ d \in Inode /\ d \in dk.inodes
  BY ShapeApart DEF Shape, DirsOf, Volume
<1>2. /\ p \in Position /\ At(dk, d, p).name = n /\ n # NoName /\ n # Dot
      /\ t \in dk.inodes \ {Root} /\ t \in Inode /\ t # 0 /\ <<d, p>> \in NamesOf(dk, t)
  BY <1>1, FirstNamed
<1>3. new = IF NotEmpty(left, t) THEN left ELSE Dropped(left, t)
  BY <1>2 DEF Removed
<1>4. At(dk, d, p).inode = t
  OBVIOUS
<1> HIDE DEF p, left
<1>5. p \in Live(dk, d) /\ t # d
  <2>1. p \in Live(dk, d)
    BY <1>2, <1>4 DEF Live
  <2> QED
    BY <2>1 DEF DirsOf
<1>6. /\ left \in Volume /\ left.inode = dk.inode
      /\ left.inodes = dk.inodes /\ left.blocks = dk.blocks
  BY <1>1, <1>2, UnlinkedTyped DEF left
<1>7. \A c \in DirsOf(dk), q \in Position :
        IF c = d /\ q = p THEN At(left, c, q).inode = 0 ELSE At(left, c, q) = At(dk, c, q)
  BY <1>1, <1>2, UnlinkedIs DEF left
<1>8. Shape(left, nd, gn)
  <2>1. \A c \in DirsOf(dk), q \in Position : At(left, c, q) = At(dk, c, q) \/ At(left, c, q).inode = 0
    BY <1>7
  <2>2. Receded(dk, left, {}, nd, gn)
    BY <1>6, <2>1 DEF Receded
  <2> QED
    BY <2>2, NoneReceded
<1>9. dk.inode[t].links \in Nat /\ dk.inode[t].links >= 1
  <2>1. dk.inode[t].links >= Cardinality(NamesOf(dk, t))
    BY <1>2 DEF Counted
  <2>2. IsFiniteSet(NamesOf(dk, t)) /\ Cardinality(NamesOf(dk, t)) \in Nat
    BY <1>1, NamesFinite
  <2>3. Cardinality(NamesOf(dk, t)) # 0
    BY <1>2, <2>2, FS_EmptySet
  <2>4. dk.inode[t].links \in Nat
    BY <1>1, <1>2 DEF Volume, InodeRecord
  <2> QED
    BY ONLY <2>1, <2>2, <2>3, <2>4
<1>10. ~NotEmpty(left, t)
  <2> SUFFICES ASSUME dk.inode[t].kind = "Dir", Cardinality(Children(left, t)) > 2 PROVE FALSE
    BY <1>6 DEF NotEmpty
  <2>1. t \in DirsOf(dk) /\ Live(dk, t) = {}
    BY <1>2 DEF DirsOf
  <2>2. \A s \in Slots : <<1, s>> \in Position
    BY Ext2Assumption DEF Position, Index
  <2>3. \A s \in Slots : At(left, t, <<1, s>>).inode = 0
    BY <1>5, <1>7, <2>1, <2>2 DEF Live
  <2>4. Children(left, t) = {}
    BY <2>3 DEF Children
  <2> QED
    BY <2>4, FS_EmptySet
<1>11. LinkDropped(left, new, t, nd, gn)
  <2>1. t \in left.inodes \ {Root} /\ left.inode[t].links # 0
    BY <1>2, <1>6, <1>9
  <2>2. LinkDropped(left, Dropped(left, t), t, nd, gn)
    BY <1>8, <2>1, DroppedIs, Zenon
  <2> QED
    BY <1>3, <1>10, <2>2, Zenon
<1>12. /\ new \in Volume
       /\ \A i \in new.inodes : /\ new.inode[i].kind = dk.inode[i].kind
                                /\ new.inode[i].block = dk.inode[i].block
  <2>1. Receded(left, new, left.inodes \ new.inodes, nd, gn)
    BY <1>11, Zenon DEF LinkDropped
  <2> QED
    BY <1>6, <2>1 DEF Receded
<1>13. /\ \/ /\ dk.inode[t].links = 1 /\ new.inodes = dk.inodes \ {t}
             /\ new.blocks = dk.blocks \ BlocksOf(dk.inode[t])
          \/ /\ dk.inode[t].links > 1 /\ new.inodes = dk.inodes /\ new.blocks = dk.blocks
       /\ \A c \in DirsOf(dk) \cap new.inodes, q \in Position : At(new, c, q) = At(left, c, q)
  <2>1. DirsOf(left) = DirsOf(dk)
    BY <1>6 DEF DirsOf
  <2>2. /\ \/ /\ left.inode[t].links = 1 /\ new.inodes = left.inodes \ {t}
              /\ new.blocks = left.blocks \ BlocksOf(left.inode[t])
           \/ left.inode[t].links > 1 /\ new.inodes = left.inodes /\ new.blocks = left.blocks
        /\ \A c \in DirsOf(left) \cap new.inodes, q \in Position : At(new, c, q) = At(left, c, q)
    BY <1>11, Zenon DEF LinkDropped
  <2> QED
    BY <1>6, <2>1, <2>2
<1>14. \A c \in DirsOf(dk) \cap new.inodes, q \in Position :
          ~(c = d /\ q = p) => At(new, c, q) = At(dk, c, q)
  BY <1>7, <1>13
<1> QED
  BY <1>2, <1>5, <1>9, <1>12, <1>13, <1>14 DEF p

LEMMA RemoveLosesNothing ==
  ASSUME Shape(disk, node, gone), Counted(disk), Single(disk), NEW d \in DirsOf(disk),
         NEW n \in Name, Remove(d, n), ~MeetsDead(disk, d, n), ~HasEntries(d, n), ~MoreLinks(d, n)
  PROVE  Lost(disk') \subseteq Lost(disk)
<1> DEFINE p == First(Named(disk, d, n))
           t == At(disk, d, p).inode
           new == disk'
           T == {t}
<1>1. disk \in Volume /\ new \in Removed(disk, d, n)
  BY DEF Shape, Remove
<1>2. CASE Named(disk, d, n) = {}
  <2>1. new = disk
    BY <1>1, <1>2 DEF Removed
  <2> QED
    BY <2>1
<1>3. CASE Named(disk, d, n) # {}
  <2>1. Target(disk, d, n) = t
    BY <1>3, TargetFirst
  <2>2. t # 0
    BY <1>3 DEF MeetsDead
  <2>3. disk.inode[t].kind = "Dir" => Live(disk, t) = {} /\ ~(disk.inode[t].links > 1)
    BY <2>1, <2>2 DEF HasEntries, MoreLinks
  <2>4. /\ p \in Live(disk, d) /\ t \in disk.inodes \ {Root} /\ t \in Inode /\ t # d
        /\ disk.inode[t].links \in Nat /\ disk.inode[t].links >= 1
        /\ new \in Volume
        /\ \/ /\ disk.inode[t].links = 1 /\ new.inodes = disk.inodes \ {t}
              /\ new.blocks = disk.blocks \ BlocksOf(disk.inode[t])
           \/ /\ disk.inode[t].links > 1 /\ new.inodes = disk.inodes /\ new.blocks = disk.blocks
        /\ \A i \in new.inodes : /\ new.inode[i].kind = disk.inode[i].kind
                                 /\ new.inode[i].block = disk.inode[i].block
        /\ \A c \in DirsOf(disk) \cap new.inodes, q \in Position :
              ~(c = d /\ q = p) => At(new, c, q) = At(disk, c, q)
    BY <1>1, <1>3, <2>3, RemovedEmpty
  <2> HIDE DEF p, t, new
  <2>5. disk.inode[t].links = 1
    <3>1. disk.inode[t].kind \in {"File", "Dir"}
      BY <1>1, <2>4 DEF Volume, InodeRecord
    <3>2. disk.inode[t].kind = "File" => disk.inode[t].links = 1
      BY <2>4 DEF Single
    <3> QED
      BY <2>3, <2>4, <3>1, <3>2
  <2>6. new.inodes = disk.inodes \ {t} /\ new.blocks = disk.blocks \ BlocksOf(disk.inode[t])
    BY <2>4, <2>5
  <2>7. At(disk, d, p).inode = t
    BY DEF t
  <2>8. ASSUME NEW c \in DirsOf(disk) \ T
        PROVE  /\ c \in DirsOf(new)
               /\ \A q \in Live(disk, c) : \/ At(disk, c, q).inode \in T
                                          \/ \E r \in Live(new, c) :
                                               At(new, c, r).inode = At(disk, c, q).inode
    <3>1. c \in new.inodes /\ c \in DirsOf(new)
      BY <2>4, <2>6 DEF DirsOf
    <3>2. ASSUME NEW q \in Live(disk, c), ~(c = d /\ q = p)
          PROVE  q \in Live(new, c) /\ At(new, c, q).inode = At(disk, c, q).inode
      BY <2>4, <3>1, <3>2 DEF Live
    <3> QED
      BY <2>7, <3>1, <3>2
  <2>9. \A c \in DirsOf(disk) \cap T : Live(disk, c) = {}
    BY <2>3 DEF DirsOf
  <2>10. T \in SUBSET Inode
    BY <2>4
  <2>11. new.blocks \ Owns(new) \subseteq disk.blocks \ Owns(disk)
    <3> SUFFICES ASSUME NEW b \in new.blocks, b \in Owns(disk) PROVE b \in Owns(new)
      BY <2>6
    <3>1. PICK i \in disk.inodes : b \in BlocksOf(disk.inode[i])
      BY DEF Owns
    <3>2. i # t
      BY <2>6, <3>1
    <3>3. i \in new.inodes /\ BlocksOf(new.inode[i]) = BlocksOf(disk.inode[i])
      BY <2>4, <2>6, <3>2 DEF BlocksOf
    <3> QED
      BY <3>1, <3>3 DEF Owns
  <2>12. \A i \in new.inodes : i \in disk.inodes \ T
    BY <2>6
  <2>13. new \in Volume
    BY <2>4
  <2> HIDE DEF T
  <2>14. Linked(disk) \ T \subseteq Linked(new)
    BY <1>1, <2>8, <2>9, <2>10, <2>13, StillLinked
  <2>15. Lost(new) \subseteq Lost(disk)
    BY <2>11, <2>12, <2>14, NothingLost
  <2> QED
    BY <2>15 DEF new
<1> QED
  BY <1>2, <1>3

LEMMA RenameLosesNoSpace ==
  ASSUME Shape(disk, node, gone), Counted(disk), NEW d \in DirsOf(disk),
         NEW old \in Name, NEW name \in Name, Rename(d, old, name),
         ~MeetsDead(Relinked(d, old, name).disk, d, old), ~HasEntries(d, old), ~HasFull(disk, d)
  PROVE  Lost(disk') \subseteq Lost(disk)
<1> DEFINE linked == Relinked(d, old, name)
           L == linked.disk
           t == Target(disk, d, old)
           e == [name |-> name, inode |-> t]
           new == disk'
           T == {}
<1>1. /\ t # 0
      /\ new \in IF linked.ok THEN Removed(L, d, old) ELSE {L}
  BY Zenon DEF Rename
<1>2. /\ L.inodes = disk.inodes /\ DirsOf(L) = DirsOf(disk)
      /\ Shape(L, node, gone) /\ Counted(L)
      /\ \A i \in Inode : L.inode[i].kind = disk.inode[i].kind
      /\ t \in Inode
      /\ linked.ok => L.inode[t].links = disk.inode[t].links + 1
      /\ \A p \in Position : \/ At(L, d, p) = At(disk, d, p)
                             \/ At(disk, d, p).name = NoName /\ At(L, d, p) = e
      /\ linked.ok => \E q \in Position : At(disk, d, q).name = NoName /\ At(L, d, q) = e
      /\ OnlyGrows(disk, L, d)
  BY <1>1, LinkMade
<1>3. ~MeetsDead(L, d, old)
  OBVIOUS
<1>4. /\ disk \in Volume /\ RootKept(disk) /\ Blank(disk) /\ L \in Volume
      /\ d \in disk.inodes /\ disk.inodes \subseteq Inode
  BY <1>2 DEF Shape, Volume, DirsOf
<1>5. disk.inode[t].kind = "Dir" => Live(disk, t) = {}
  BY <1>1 DEF HasEntries
<1>6. e.inode = t
  OBVIOUS
<1> HIDE DEF linked, L, e, t, new
<1>7. L.blocks \ Owns(L) \subseteq disk.blocks \ Owns(disk)
  BY <1>2, <1>4, GrowthOwned
<1>8. \A c \in DirsOf(disk) : \A p \in Live(disk, c) :
        p \in Position /\ At(L, c, p) = At(disk, c, p) /\ At(disk, c, p).inode # 0
  <2>1. ASSUME NEW c \in DirsOf(disk), NEW p \in Live(disk, c)
        PROVE  p \in Position /\ At(L, c, p) = At(disk, c, p) /\ At(disk, c, p).inode # 0
    <3>1. p \in Position /\ At(disk, c, p).inode # 0 /\ At(disk, c, p).name # NoName
      BY <1>4 DEF Live, Blank
    <3>2. At(L, c, p) = At(disk, c, p)
      BY <1>2, <3>1 DEF OnlyGrows
    <3> QED
      BY <3>1, <3>2
  <2> QED
    BY <2>1
<1>9. T \in SUBSET Inode /\ DirsOf(disk) \cap T = {} /\ disk.inodes \ T = disk.inodes
      /\ DirsOf(disk) \ T = DirsOf(disk)
  OBVIOUS
<1> HIDE DEF T
<1>10. CASE ~linked.ok
  <2>1. new = L
    BY <1>1, <1>10
  <2>2. \A c \in DirsOf(disk) \ T : /\ c \in DirsOf(L)
                                   /\ \A p \in Live(disk, c) : \E q \in Live(L, c) :
                                        At(L, c, q).inode = At(disk, c, p).inode
    BY <1>2, <1>8 DEF Live
  <2>3. Linked(disk) \ T \subseteq Linked(L)
    BY <1>4, <1>9, <2>2, StillLinked
  <2>4. Lost(L) \subseteq Lost(disk)
    BY <1>2, <1>7, <1>9, <2>3, NothingLost
  <2> QED
    BY <2>1, <2>4 DEF new
<1>11. CASE linked.ok
  <2> DEFINE x == First(Named(L, d, old))
             u == At(L, d, x).inode
  <2>1. new \in Removed(L, d, old) /\ d \in DirsOf(L)
    BY <1>1, <1>2, <1>11
  <2>2. PICK y \in Position : At(disk, d, y).name = old /\ At(disk, d, y).inode = t
    BY <1>1, <1>4, TargetIs DEF t
  <2>3. old # NoName
    BY Ext2Assumption
  <2>4. At(L, d, y) = At(disk, d, y)
    BY <1>2, <2>2, <2>3
  <2>5. Named(L, d, old) # {}
    BY <2>2, <2>4 DEF Named
  <2>6. u = t
    BY <1>1, <1>2, <1>3, <1>6, <2>5, MovesTarget DEF t
  <2> HIDE DEF x, u
  <2>7. L.inode[t].kind = "Dir" => Live(L, t) = {}
    <3> SUFFICES ASSUME L.inode[t].kind = "Dir" PROVE Live(L, t) = {}
      OBVIOUS
    <3>1. Live(disk, t) = {}
      BY <1>2, <1>5
    <3>2. t \in disk.inodes
      BY <1>1, <1>4, TargetIs DEF t
    <3>3. t \in DirsOf(disk) /\ t # d
      <4>1. y \in Live(disk, d)
        BY <1>1, <2>2 DEF Live
      <4> QED
        BY <1>2, <3>1, <3>2, <4>1 DEF DirsOf
    <3>4. \A p \in Position : At(L, t, p) = At(disk, t, p)
      BY <1>2, <3>3 DEF OnlyGrows
    <3> QED
      BY <3>1, <3>4 DEF Live
  <2>8. /\ x \in Live(L, d) /\ t \in L.inodes \ {Root} /\ t \in Inode /\ t # d
        /\ L.inode[t].links \in Nat /\ L.inode[t].links >= 1
        /\ new \in Volume
        /\ \/ /\ L.inode[t].links = 1 /\ new.inodes = L.inodes \ {t}
              /\ new.blocks = L.blocks \ BlocksOf(L.inode[t])
           \/ /\ L.inode[t].links > 1 /\ new.inodes = L.inodes /\ new.blocks = L.blocks
        /\ \A i \in new.inodes : /\ new.inode[i].kind = L.inode[i].kind
                                 /\ new.inode[i].block = L.inode[i].block
        /\ \A c \in DirsOf(L) \cap new.inodes, q \in Position :
              ~(c = d /\ q = x) => At(new, c, q) = At(L, c, q)
    BY <1>2, <1>3, <2>1, <2>5, <2>6, <2>7, RemovedEmpty DEF x, u
  <2>9. L.inode[t].links # 1
    <3>1. old # Dot
      BY Ext2Assumption
    <3>2. <<d, y>> \in NamesOf(disk, t)
      BY <2>2, <3>1 DEF NamesOf
    <3>3. disk.inode[t].links >= Cardinality(NamesOf(disk, t))
      BY <1>2, <3>2 DEF Counted
    <3>4. IsFiniteSet(NamesOf(disk, t)) /\ Cardinality(NamesOf(disk, t)) \in Nat
      BY <1>4, NamesFinite
    <3>5. Cardinality(NamesOf(disk, t)) # 0
      BY <3>2, <3>4, FS_EmptySet
    <3>6. disk.inode[t].links \in Nat
      BY <1>2, <1>4 DEF Volume, InodeRecord
    <3>7. disk.inode[t].links >= 1
      BY ONLY <3>3, <3>4, <3>5, <3>6
    <3> QED
      BY <1>2, <1>11, <3>6, <3>7
  <2>10. new.inodes = L.inodes /\ new.blocks = L.blocks
    BY <2>8, <2>9
  <2>11. Owns(new) = Owns(L)
    <3>1. \A i \in L.inodes : BlocksOf(new.inode[i]) = BlocksOf(L.inode[i])
      BY <2>8, <2>10 DEF BlocksOf
    <3> QED
      BY <2>10, <3>1 DEF Owns
  <2>12. PICK z \in Position : At(disk, d, z).name = NoName /\ At(L, d, z) = e
    BY <1>2, <1>11
  <2>13. ASSUME NEW c \in DirsOf(disk), NEW p \in Live(disk, c)
         PROVE  \E q \in Live(new, c) : At(new, c, q).inode = At(disk, c, p).inode
    <3>1. /\ c \in DirsOf(L) \cap new.inodes
          /\ p \in Position /\ At(L, c, p) = At(disk, c, p) /\ At(disk, c, p).inode # 0
      BY <1>2, <1>8, <2>10 DEF DirsOf
    <3>2. CASE ~(c = d /\ p = x)
      <4>1. At(new, c, p) = At(disk, c, p)
        BY <2>8, <3>1, <3>2
      <4> QED
        BY <3>1, <4>1 DEF Live
    <3>3. CASE c = d /\ p = x
      <4>1. At(disk, d, x).inode = t
        BY <2>6, <3>1, <3>3 DEF u
      <4>2. z # x
        BY <1>4, <2>12, <3>1, <3>3 DEF Blank
      <4>3. At(new, d, z) = e
        BY <2>8, <2>12, <3>1, <3>3, <4>2
      <4> QED
        BY <1>1, <1>6, <2>12, <3>3, <4>1, <4>3 DEF Live
    <3> QED
      BY <3>2, <3>3
  <2>14. DirsOf(new) = DirsOf(disk)
    BY <1>2, <2>8, <2>10 DEF DirsOf
  <2>15. \A c \in DirsOf(disk) \ T : /\ c \in DirsOf(new)
                                    /\ \A p \in Live(disk, c) : \E q \in Live(new, c) :
                                         At(new, c, q).inode = At(disk, c, p).inode
    BY <2>13, <2>14
  <2>16. new \in Volume
    BY <2>8
  <2>17. Linked(disk) \ T \subseteq Linked(new)
    BY <1>4, <1>9, <2>15, <2>16, StillLinked
  <2>18. Lost(new) \subseteq Lost(disk)
    BY <1>2, <1>7, <1>9, <2>10, <2>11, <2>17, NothingLost
  <2> QED
    BY <2>18 DEF new
<1> QED
  BY <1>10, <1>11

(* Whatever calls are made, failed ones included, an inode that no path    *)
(* leads to and a block of no inode come about only where the code is      *)
(* known to lose them (ext2/fs.rs).                                        *)
THEOREM Ext2LossOnlyWhereKnown == HSpec => LossOnlyWhereKnown
<1> DEFINE A == damaged' \/ Lost(disk') \subseteq Lost(disk) \/ LossExcused
<1>1. ASSUME IInv, [HNext]_hvars PROVE A \/ disk' = disk
  <2>1. CASE UNCHANGED hvars
    BY <2>1 DEF hvars, vars
  <2>2. CASE damaged /\ UNCHANGED hvars
    BY <2>2 DEF hvars
  <2>3. CASE ~damaged /\ Calls
    <3> SUFFICES ASSUME ~damaged', ~LossExcused, disk' # disk
                 PROVE  Lost(disk') \subseteq Lost(disk)
      OBVIOUS
    <3>1. Shape(disk, node, gone) /\ Counted(disk) /\ Single(disk)
      BY <1>1, <2>3 DEF IInv
    <3>2. disk \in Volume /\ RootKept(disk) /\ node \in Nodes
      BY <1>1, <3>1 DEF Shape, IInv, TypeOK, Nodes
    <3>3. Opened \subseteq DirsOf(disk) /\ Opened \subseteq Linked(disk)
      BY <3>1, <3>2, OpenedIsDirectory, OpenedLinked
    <3>4. \A d : HasFull(disk, d) = Full(d)
      BY DEF HasFull, Full
    <3>5. ASSUME NEW h \in Handle, HClose(h) PROVE FALSE
      BY <3>5 DEF HClose, Close
    <3>6. ASSUME NEW h \in Handle, NEW k \in Index, HWrite(h, k)
          PROVE  Lost(disk') \subseteq Lost(disk)
      <4>1. Write(h, k) /\ h \notin gone
        BY <3>6 DEF HWrite
      <4>2. ~Outdated(h)
        BY <4>1 DEF LossExcused
      <4> QED
        BY <3>1, <3>2, <4>1, <4>2, WriteLosesNothing
    <3>7. ASSUME NEW d \in Opened, NEW n \in Name, HRemove(d, n)
          PROVE  Lost(disk') \subseteq Lost(disk)
      <4>1. Remove(d, n) /\ ~MeetsDead(disk, d, n) /\ d \in DirsOf(disk)
        BY <3>3, <3>7 DEF HRemove
      <4>2. ~HasEntries(d, n) /\ ~MoreLinks(d, n)
        BY <4>1 DEF LossExcused
      <4> QED
        BY <3>1, <4>1, <4>2, RemoveLosesNothing
    <3>8. ASSUME NEW d \in Opened, NEW old \in Name, NEW new \in Name, HRename(d, old, new)
          PROVE  Lost(disk') \subseteq Lost(disk)
      <4>1. /\ Rename(d, old, new) /\ ~MeetsDead(Relinked(d, old, new).disk, d, old)
            /\ d \in DirsOf(disk)
        BY <3>3, <3>8 DEF HRename
      <4>2. ~HasEntries(d, old) /\ ~Full(d)
        BY <4>1 DEF LossExcused
      <4>3. ~HasFull(disk, d)
        BY <3>4, <4>2
      <4> QED
        BY <3>1, <4>1, <4>2, <4>3, RenameLosesNoSpace
    <3>9. ASSUME NEW d \in Opened, NEW n \in Name, NEW kind \in {"File", "Dir"}, Create(d, n, kind)
          PROVE  Lost(disk') \subseteq Lost(disk)
      <4>1. ~Full(d)
        BY <3>9 DEF LossExcused
      <4>2. d \in DirsOf(disk) /\ d \in Linked(disk) /\ ~HasFull(disk, d)
        BY <3>3, <3>4, <4>1
      <4> QED
        BY <3>1, <3>9, <4>2, CreateLosesNothing
    <3>10. ASSUME NEW h \in Handle, NEW d \in Opened, NEW n \in Name, Open(h, d, n) PROVE FALSE
      BY <3>10 DEF Open
    <3> QED
      BY <2>3, <3>5, <3>6, <3>7, <3>8, <3>9, <3>10, Zenon DEF Calls, Others
  <2> QED
    BY <1>1, <2>1, <2>2, <2>3 DEF HNext
<1>2. IInv /\ [HNext]_hvars => [A]_disk
  BY <1>1
<1>3. HSpec => []IInv
  BY InitIInv, NextIInv, PTL DEF HSpec
<1> QED
  BY <1>2, <1>3, PTL DEF HSpec, LossOnlyWhereKnown
=============================================================================
