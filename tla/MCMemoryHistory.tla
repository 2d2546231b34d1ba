--------------------------- MODULE MCMemoryHistory ---------------------------
(* The kernel and two processes; six blocks, enough to start both.  Blocks *)
(* are only compared, so they are interchangeable.                         *)
EXTENDS MemoryHistory, TLC

CONSTANTS b1, b2, b3, b4, b5, b6

MCBlock == {b1, b2, b3, b4, b5, b6}

MCSymmetry == Permutations(MCBlock)
=============================================================================
