----------------------------- MODULE Ext2History -----------------------------
(***************************************************************************)
(* Module Ext2 with two history variables for what the kernel does not     *)
(* keep: which open files have lost their inode, and whether the disk has  *)
(* been damaged - by a write to such a file, or by the removal of a name   *)
(* that is still that of a removed file.                                   *)
(***************************************************************************)
EXTENDS Ext2

VARIABLES gone,      \* handles whose inode was freed since they were opened
          damaged

hvars == <<vars, gone, damaged>>

HInit == Init /\ gone = {} /\ damaged = FALSE

NowGone == {h \in Handle : node[h] # NoNode /\ node[h].idx \in disk.inodes \ disk'.inodes}

HClose(h) == Close(h) /\ gone' = gone \ {h} /\ UNCHANGED damaged

HWrite(h, k) == Write(h, k) /\ damaged' = (h \in gone) /\ UNCHANGED gone

HRemove(d, n) ==
    /\ Remove(d, n)
    /\ gone' = gone \cup NowGone
    /\ damaged' = MeetsDead(disk, d, n)

HRename(d, old, new) ==
    /\ Rename(d, old, new)
    /\ gone' = gone \cup NowGone
    /\ damaged' = MeetsDead(Relinked(d, old, new).disk, d, old)

Others ==
    \/ \E h \in Handle, d \in Opened, n \in Name : Open(h, d, n)
    \/ \E d \in Opened, n \in Name, kind \in {"File", "Dir"} : Create(d, n, kind)

Calls ==
    \/ \E h \in Handle : HClose(h)
    \/ \E h \in Handle, k \in Index : HWrite(h, k)
    \/ \E d \in Opened, n \in Name : HRemove(d, n)
    \/ \E d \in Opened, old, new \in Name : HRename(d, old, new)
    \/ Others /\ UNCHANGED <<gone, damaged>>

(* What happens to a damaged disk is not followed. *)
HNext == \/ ~damaged /\ Calls
         \/ damaged /\ UNCHANGED hvars

HSpec == HInit /\ [][HNext]_hvars

-----------------------------------------------------------------------------
(* What is kept apart on the disk.                                         *)

(* A block has one owner, which the bitmap shows: no two files share a     *)
(* block, and no open file writes into a block of another or into a free   *)
(* one, also if several handles on one file, each with a copy of the inode *)
(* of its own, extend it in turn.                                          *)
BlocksApart ==
    ~damaged =>
       /\ \A i \in disk.inodes, k \in Index :
             LET b == disk.inode[i].block[k]
             IN  b # 0 =>
                    /\ b \in disk.blocks
                    /\ \A j \in disk.inodes, l \in Index :
                          disk.inode[j].block[l] = b => i = j /\ k = l
       /\ \A h \in Handle \ gone : node[h] # NoNode =>
             \A b \in BlocksOf(node[h].inode) :
                /\ b \in disk.blocks
                /\ \A j \in disk.inodes \ {node[h].idx} : b \notin BlocksOf(disk.inode[j])

Directories == {d \in disk.inodes : disk.inode[d].kind = "Dir"}

(* Nothing is freed while a name leads to it: a file or directory has at   *)
(* least as many links as entries, whichever call failed half-way.         *)
EntriesCounted ==
    ~damaged =>
       \A i \in Inode :
          LET names == {e \in Directories \X Position :
                           /\ At(disk, e[1], e[2]).inode = i
                           /\ At(disk, e[1], e[2]).name # Dot}
          IN  names # {} => i \in disk.inodes /\ disk.inode[i].links >= Cardinality(names)

(* Until a removed file is written to or a removed name removed again, the *)
(* disk is well-formed: no block is shared, nothing with a name is free.   *)
DiskSound == TypeOK /\ BlocksApart /\ EntriesCounted

(* What entries lead to from the root: what is in every set that has the   *)
(* root and, with a directory, all that its entries lead to.               *)
Closed(dk, S) ==
    \A d \in S \cap dk.inodes :
       dk.inode[d].kind = "Dir" => \A p \in Live(dk, d) : At(dk, d, p).inode \in S

Linked(dk) == {i \in Inode : \A S \in SUBSET Inode : Root \in S /\ Closed(dk, S) => i \in S}

(* Inodes that no path leads to and blocks that belong to no inode. *)
Lost(dk) ==
    {<<"inode", i>> : i \in dk.inodes \ Linked(dk)}
      \cup {<<"block", b>> : b \in dk.blocks \ UNION {BlocksOf(dk.inode[i]) : i \in dk.inodes}}

(* The ways to lose space: a write through a copy that is not what is on   *)
(* the disk; the removal of a directory that has entries, or more links    *)
(* than its name - from mkfs, which counts its "." and "..", or from a     *)
(* rename, which leaves the link it made when the directory has entries -; *)
(* and a new entry for a directory without room.                           *)
Outdated(h) == node[h].inode # disk.inode[node[h].idx]

HasEntries(d, n) ==
    LET t == Target(disk, d, n)
    IN  t # 0 /\ disk.inode[t].kind = "Dir" /\ Live(disk, t) # {}

MoreLinks(d, n) ==
    LET t == Target(disk, d, n)
    IN  t # 0 /\ disk.inode[t].kind = "Dir" /\ disk.inode[t].links > 1

Full(d) == Room(disk, d) = {} /\ \A k \in Index : disk.inode[d].block[k] # 0

LossExcused ==
    \/ \E h \in Handle, k \in Index : Write(h, k) /\ Outdated(h)
    \/ \E d \in Opened, n \in Name : Remove(d, n) /\ (HasEntries(d, n) \/ MoreLinks(d, n))
    \/ \E d \in Opened, n \in Name, kind \in {"File", "Dir"} : Create(d, n, kind) /\ Full(d)
    \/ \E d \in Opened, old, new \in Name :
          Rename(d, old, new) /\ (HasEntries(d, old) \/ Full(d))

(* No other call loses an inode or a block, failed calls included. *)
LossOnlyWhereKnown == [][damaged' \/ Lost(disk') \subseteq Lost(disk) \/ LossExcused]_disk

FilesIn(dk, d) == {At(dk, d, p).inode : p \in Live(dk, d)}

(* Whatever rename meets - a taken name, that of a removed file, a full    *)
(* disk, a full directory, a directory with entries -, what could be found *)
(* in the directory can still be found there.                              *)
RenameLosesNothing ==
    [][\A d \in Opened : ~(FilesIn(disk, d) \subseteq FilesIn(disk', d)) =>
          ~\E old, new \in Name : Rename(d, old, new)]_(disk.content)
=============================================================================
