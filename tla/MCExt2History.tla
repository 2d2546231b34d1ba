---------------------------- MODULE MCExt2History ----------------------------
(* A disk with the root, one directory on it and one more inode; two names, *)
(* two blocks to an inode, three entries to a block; two open files, which  *)
(* are interchangeable.                                                     *)
EXTENDS Ext2History, TLC

MCName == {"a", "b"}
MCSymmetry == Permutations(Handle)
=============================================================================
