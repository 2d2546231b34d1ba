----------------------------- MODULE FrameStore -----------------------------
(***************************************************************************)
(* What the physical memory manager promises: a block it hands out is      *)
(* usable memory above the kernel's image, nobody else holds any page of   *)
(* it, and it stays with its owner until it is given back.  Where a block  *)
(* is placed, and which requests are refused, is left open.                *)
(***************************************************************************)
EXTENDS Integers

CONSTANTS LOW,        \* pages the kernel image and the loader occupy
          Ram,        \* usable memory: a set of regions [base, end), in pages
          Pid,        \* owners; 0 is the kernel
          MaxPages    \* longest request (bound of the model)

VARIABLES blocks,     \* the blocks that are taken
          result      \* what the last call returned: a page number, or 0

fvars == <<blocks, result>>

Block == [pid : Pid, start : Nat, count : Nat \ {0}]

End(b) == b.start + b.count

Apart(a, b) == End(a) <= b.start \/ End(b) <= a.start

(* A block may be placed inside one region of usable memory. *)
Usable(b) == /\ b.start >= LOW
             /\ \E r \in Ram : r.base <= b.start /\ End(b) <= r.end

KernelImage == [pid |-> 0, start |-> 0, count |-> LOW]

Init ==
    /\ blocks = {KernelImage}
    /\ result = 0

Grant(b) ==
    /\ Usable(b)
    /\ \A a \in blocks : Apart(a, b)
    /\ blocks' = blocks \cup {b}
    /\ result' = b.start

Refuse ==
    /\ result' = 0
    /\ UNCHANGED blocks

Release(start) ==
    /\ blocks' = {b \in blocks : b.start # start}
    /\ UNCHANGED result

ReleaseOwned(pid) ==
    /\ blocks' = {b \in blocks : b.pid # pid}
    /\ UNCHANGED result

(* Every place a block of at most MaxPages pages may take. *)
Places == UNION {{[pid |-> p, start |-> s, count |-> n] :
                     p \in Pid, s \in r.base .. r.end, n \in 1 .. MaxPages} : r \in Ram}

Next ==
    \/ \E b \in Places : Grant(b)
    \/ Refuse
    \/ \E b \in blocks \ {KernelImage} : Release(b.start)
    \/ \E pid \in Pid \ {0} : ReleaseOwned(pid)

Spec == Init /\ [][Next]_fvars

=============================================================================
