-------------------------------- MODULE Ext2 --------------------------------
(***************************************************************************)
(* The Ext2 file system, kernel/src/fs/ext2/fs.rs, as the file system      *)
(* calls use it: inodes, their direct blocks, directory entries, and the   *)
(* copy of its inode that every open file keeps.  A call runs with         *)
(* interrupts masked, so each is one step.                                 *)
(*                                                                         *)
(* Left out: indirect blocks, block groups (there is one), the free counts *)
(* (kept with the bitmaps in the same call), sizes in bytes, and crashes.  *)
(* All names have one length, so a directory block is a row of slots, and  *)
(* file data reads as no directory entry.  Free inodes and blocks are      *)
(* shown empty: both are written over before they are used.                *)
(***************************************************************************)
EXTENDS Integers, FiniteSets, FiniteSetsExt

CONSTANTS MAX_INODE,   \* the last inode (bound of the model)
          MAX_BLOCK,   \* the last block (bound of the model)
          DIRECT,      \* direct blocks of an inode: 12 in the code
          MaxLinks,    \* links rename gives an inode (bound of the model)
          SLOTS,       \* entries that fit in a directory block
          Name,        \* names of files and directories
          Home,        \* a directory that is there when the disk is mounted
          Handle       \* files that may be open at a time

Root == 2
Inode == Root .. MAX_INODE
Block == 1 .. MAX_BLOCK
Index == 1 .. DIRECT
Slots == 1 .. SLOTS

(* What is not a name: the entries that mkfs puts into the root, and a     *)
(* slot that belongs to the record before it.                              *)
Dot == "."
NoName == "none"

ASSUME Ext2Assumption ==
    /\ MAX_INODE \in Nat /\ MAX_INODE > Root
    /\ MAX_BLOCK \in Nat /\ MAX_BLOCK > 1
    /\ DIRECT \in Nat \ {0}
    /\ MaxLinks \in Nat
    /\ SLOTS \in Nat /\ SLOTS > 2
    /\ Home \in Name /\ Dot \notin Name /\ NoName \notin Name

VARIABLES disk,   \* what is on the disk
          node    \* [Handle -> Ext2Node \cup {NoNode}]

vars == <<disk, node>>

InodeRecord == [kind : {"File", "Dir"}, links : Nat, block : [Index -> Block \cup {0}]]

DirectoryEntry == [name : Name \cup {Dot, NoName}, inode : Inode \cup {0}]

Unused == [name |-> NoName, inode |-> 0]
Zeroed == [s \in Slots |-> Unused]

Ext2Node == [idx : Inode, inode : InodeRecord]
NoNode == [idx |-> 0]

TypeOK ==
    /\ disk \in [inode : [Inode -> InodeRecord],
                 inodes : SUBSET Inode,            \* set in the inode bitmap
                 blocks : SUBSET Block,            \* set in the block bitmap
                 content : [Block -> [Slots -> DirectoryEntry]]]
    /\ node \in [Handle -> Ext2Node \cup {NoNode}]

FreeRecord == [kind |-> "File", links |-> 0, block |-> [k \in Index |-> 0]]

New(kind) == [kind |-> kind, links |-> 1, block |-> [k \in Index |-> 0]]

(* A directory block as mkfs makes it: "." and "..", and maybe a name. *)
Made(self, parent, e) ==
    [Zeroed EXCEPT ![1] = [name |-> Dot, inode |-> self],
                   ![2] = [name |-> Dot, inode |-> parent],
                   ![3] = e]

(* The disk as it is mounted: the root with the directory Home in it. *)
Init ==
    /\ disk = [inode |-> [i \in Inode |->
                  CASE i = Root -> [New("Dir") EXCEPT !.links = 3, !.block[1] = 1]
                    [] i = Root + 1 -> [New("Dir") EXCEPT !.links = 2, !.block[1] = 2]
                    [] OTHER -> FreeRecord],
               inodes |-> {Root, Root + 1},
               blocks |-> {1, 2},
               content |-> [b \in Block |->
                  CASE b = 1 -> Made(Root, Root, [name |-> Home, inode |-> Root + 1])
                    [] b = 2 -> Made(Root + 1, Root, Unused)
                    [] OTHER -> Zeroed]]
    /\ node = [h \in Handle |-> NoNode]

-----------------------------------------------------------------------------
(* Directories.  dk is a state of the disk, d the inode of a directory.    *)

Position == Index \X Slots

Before(p, q) == p[1] < q[1] \/ (p[1] = q[1] /\ p[2] < q[2])

First(S) == CHOOSE p \in S : \A q \in S \ {p} : Before(p, q)

At(dk, d, p) == LET b == dk.inode[d].block[p[1]]
                IN  IF b = 0 THEN Unused ELSE dk.content[b][p[2]]

(* Entries with the name n, those of removed files included. *)
Named(dk, d, n) == {p \in Position : At(dk, d, p).name = n}

Live(dk, d) == {p \in Position : At(dk, d, p).inode # 0}

(* find: the inode of the first live entry, or 0. *)
Find(dk, d, n) ==
    LET found == Named(dk, d, n) \cap Live(dk, d)
    IN  IF found = {} THEN 0 ELSE At(dk, d, First(found)).inode

(* The directories a path leads to: vfs::open goes from the root through   *)
(* find, one component after the other.                                    *)
Opened ==
    LET Sub(d) == {i \in {Find(disk, d, n) : n \in Name} \ {0} : disk.inode[i].kind = "Dir"}
        Within[depth \in 0 .. Cardinality(Inode)] ==
            IF depth = 0 THEN {Root}
            ELSE LET S == Within[depth - 1] IN S \cup UNION {Sub(d) : d \in S}
    IN  Within[Cardinality(disk.inodes)]

-----------------------------------------------------------------------------
(* What the calls do to the disk.                                          *)

(* alloc_block and alloc_inode: the first clear bit, or 0. *)
FreeBlock(dk) == Min({b \in Block : b \notin dk.blocks} \cup {MAX_BLOCK + 1}) % (MAX_BLOCK + 1)
FreeInode(dk) == Min({i \in Inode : i \notin dk.inodes} \cup {MAX_INODE + 1}) % (MAX_INODE + 1)

(* Slots that an entry of a directory can give up: the first entry of a    *)
(* block keeps its slot even when its file has been removed.               *)
Room(dk, d) ==
    {p \in Position : /\ At(dk, d, p).name = NoName
                      /\ At(dk, d, <<p[1], 1>>).name # NoName}

(* The disk when entry e has been put into a new block of d.  If d has all *)
(* its blocks the new one stays allocated.                                 *)
Grown(dk, d, e) ==
    LET b == FreeBlock(dk)
        k == 1 + Cardinality({j \in Index : dk.inode[d].block[j] # 0})
        taken == [dk EXCEPT !.blocks = @ \cup {b}]
    IN  IF b = 0 THEN [ok |-> FALSE, disk |-> dk]
        ELSE IF k > DIRECT THEN [ok |-> FALSE, disk |-> taken]
        ELSE [ok |-> TRUE,
              disk |-> [taken EXCEPT !.inode[d].block[k] = b,
                                     !.content[b] = [Zeroed EXCEPT ![1] = e]]]

(* add_directory_entry *)
Added(dk, d, e) ==
    IF Room(dk, d) = {} THEN Grown(dk, d, e)
    ELSE LET p == First(Room(dk, d))
         IN  [ok |-> TRUE,
              disk |-> [dk EXCEPT !.content[dk.inode[d].block[p[1]]][p[2]] = e]]

(* remove gives the slot to the record before it, if the block has one. *)
Unlinked(dk, d, p) ==
    LET b == dk.inode[d].block[p[1]]
    IN  IF p[2] > 1 THEN [dk EXCEPT !.content[b][p[2]] = Unused]
                    ELSE [dk EXCEPT !.content[b][p[2]].inode = 0]

(* Entries in the first block of a directory; remove takes two to be the   *)
(* "." and ".." that create_dir does not make.                             *)
Children(dk, t) == {s \in Slots : At(dk, t, <<1, s>>).inode # 0}
NotEmpty(dk, t) == dk.inode[t].kind = "Dir" /\ Cardinality(Children(dk, t)) > 2

BlocksOf(record) == {record.block[k] : k \in Index} \ {0}

(* The disk when the inode t and the blocks S are free. *)
Freed(dk, t, S) ==
    [dk EXCEPT !.inode[t] = FreeRecord,
               !.inodes = @ \ {t},
               !.blocks = @ \ S,
               !.content = [b \in Block |-> IF b \in S THEN Zeroed ELSE @[b]]]

(* Variant of Dropped: the blocks of the last link stay allocated. *)
DroppedKeepingBlocks(dk, t) ==
    IF dk.inode[t].links = 1 THEN Freed(dk, t, {})
    ELSE [dk EXCEPT !.inode[t].links = @ - 1]


(* One link less; with the last, the blocks and the inode are freed, even  *)
(* if the file is open.                                                    *)
Dropped(dk, t) ==
    IF dk.inode[t].links = 0 THEN dk
    ELSE IF dk.inode[t].links = 1 THEN Freed(dk, t, BlocksOf(dk.inode[t]))
    ELSE [dk EXCEPT !.inode[t].links = @ - 1]

(* The first entry named n is that of a file removed before. *)
MeetsDead(dk, d, n) ==
    /\ Named(dk, d, n) # {}
    /\ At(dk, d, First(Named(dk, d, n))).inode = 0

(* What remove may leave on the disk.  The entry is gone before a          *)
(* directory is found not to be empty.  If the name is still that of a     *)
(* removed first entry, remove goes on with inode 0, for which read_inode  *)
(* computes a place far off: what is there may be no inode, or one with    *)
(* up to twelve blocks, which are freed (one here: bound of the model).    *)
Removed(dk, d, n) ==
    IF Named(dk, d, n) = {} THEN {dk}
    ELSE LET p    == First(Named(dk, d, n))
             t    == At(dk, d, p).inode
             left == Unlinked(dk, d, p)
         IN  IF t = 0
             THEN {left} \cup {[left EXCEPT !.blocks = @ \ {b}] : b \in dk.blocks}
             ELSE IF NotEmpty(left, t) THEN {left}
             ELSE {Dropped(left, t)}

(* The file that rename moves: in each block only the first entry with the *)
(* name is looked at.                                                      *)
Target(dk, d, n) ==
    LET firsts == {p \in Named(dk, d, n) : \A q \in Named(dk, d, n) :
                                              q[1] = p[1] => ~Before(q, p)}
        live   == firsts \cap Live(dk, d)
    IN  IF live = {} THEN 0 ELSE At(dk, d, First(live)).inode

-----------------------------------------------------------------------------
(* The calls.                                                              *)

(* sys_open of a file *)
Open(h, d, n) ==
    LET i == Find(disk, d, n)
    IN  /\ node[h] = NoNode
        /\ i # 0
        /\ disk.inode[i].kind = "File"
        /\ node' = [node EXCEPT ![h] = [idx |-> i, inode |-> disk.inode[i]]]
        /\ UNCHANGED disk

Close(h) ==
    /\ node[h] # NoNode
    /\ node' = [node EXCEPT ![h] = NoNode]
    /\ UNCHANGED disk

(* Variant of Write: the new block is not marked in the bitmap. *)
WriteUnmarked(h, k) ==
    LET b    == FreeBlock(disk)
        more == [node[h].inode EXCEPT !.block[k] = b]
    IN  /\ node[h] # NoNode
        /\ \A j \in 1 .. k - 1 : node[h].inode.block[j] # 0
        /\ node[h].inode.block[k] = 0 /\ b # 0
        /\ disk' = [disk EXCEPT !.inode[node[h].idx] = more, !.content[b] = Zeroed]
        /\ node' = [node EXCEPT ![h].inode = more]

(* write to block k of an open file: by the copy of the inode taken when   *)
(* it was opened, which is written back if the file grows.  Programs write *)
(* from the front: blocks before k are there (bound of the model).         *)
Write(h, k) ==
    LET i    == node[h].idx
        copy == node[h].inode
        b    == FreeBlock(disk)
        more == [copy EXCEPT !.block[k] = b]
    IN  /\ node[h] # NoNode
        /\ \A j \in 1 .. k - 1 : copy.block[j] # 0
        /\ \/ /\ copy.block[k] # 0
              /\ \E grows \in BOOLEAN :
                    disk' = [disk EXCEPT !.content[copy.block[k]] = Zeroed,
                                         !.inode[i] = IF grows THEN copy ELSE @]
              /\ UNCHANGED node
           \/ /\ copy.block[k] = 0 /\ b # 0
              /\ disk' = [disk EXCEPT !.inode[i] = more,
                                      !.blocks = @ \cup {b},
                                      !.content[b] = Zeroed]
              /\ node' = [node EXCEPT ![h].inode = more]

(* create_file and create_dir: neither looks whether the name is taken. *)
Create(d, n, kind) ==
    LET i     == FreeInode(disk)
        made  == [disk EXCEPT !.inode[i] = New(kind), !.inodes = @ \cup {i}]
        added == Added(made, d, [name |-> n, inode |-> i])
    IN  /\ i # 0
        /\ disk' = IF added.ok THEN added.disk
                   ELSE Freed(added.disk, i, {})
        /\ UNCHANGED node

Remove(d, n) ==
    /\ disk' \in Removed(disk, d, n)
    /\ UNCHANGED node

(* The disk when rename has made the new link. *)
Relinked(d, old, new) ==
    LET t     == Target(disk, d, old)
        added == Added(disk, d, [name |-> new, inode |-> t])
    IN  IF added.ok THEN [added EXCEPT !.disk.inode[t].links = @ + 1] ELSE added

(* Variant of Rename: that the new link could not be made is not noticed. *)
RenameUnchecked(d, old, new) ==
    LET t == Target(disk, d, old)
    IN  /\ t # 0
        /\ disk.inode[t].links < MaxLinks
        /\ disk' \in Removed(Relinked(d, old, new).disk, d, old)
        /\ UNCHANGED node

Rename(d, old, new) ==
    LET linked == Relinked(d, old, new)
        t      == Target(disk, d, old)
    IN  /\ t # 0
        /\ disk.inode[t].links < MaxLinks
        /\ disk' \in IF linked.ok THEN Removed(linked.disk, d, old) ELSE {linked.disk}
        /\ UNCHANGED node

Next ==
    \/ \E h \in Handle, d \in Opened, n \in Name : Open(h, d, n)
    \/ \E h \in Handle : Close(h)
    \/ \E h \in Handle, k \in Index : Write(h, k)
    \/ \E d \in Opened, n \in Name, kind \in {"File", "Dir"} : Create(d, n, kind)
    \/ \E d \in Opened, n \in Name : Remove(d, n)
    \/ \E d \in Opened, old, new \in Name : Rename(d, old, new)

Spec == Init /\ [][Next]_vars

=============================================================================
