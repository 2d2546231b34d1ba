--------------------------------- MODULE PMM ---------------------------------
(***************************************************************************)
(* The physical memory manager, kernel/src/memory/pmm.rs: a table of       *)
(* allocations sorted by address, searched first-fit.  Every function      *)
(* holds the manager's lock and runs with interrupts masked, so each is    *)
(* one step.  Addresses and sizes are in pages.  The zeroing of freed      *)
(* memory is left out, and so are reserve_frame and reserve_frames, which  *)
(* nothing calls.                                                          *)
(***************************************************************************)
EXTENDS Integers, Sequences, FiniteSets, FiniteSetsExt, Functions

CONSTANTS MAX_ALLOCS,   \* entries of the table (4096)
          LOW,          \* 0xA00000: below it nothing is handed out
          Ram,          \* the memory map: regions [base, end) of type 1
          total_ram,    \* the end of the last region of any type
          Pid,          \* owners; 0 is the kernel
          MaxPages      \* longest request (bound of the model)

ASSUME PMMAssumption ==
    /\ MAX_ALLOCS \in Nat \ {0}
    /\ LOW \in Nat \ {0}
    /\ Ram \subseteq [base : Nat, end : 0 .. total_ram]
    /\ total_ram \in Nat
    /\ 0 \in Pid
    /\ MaxPages \in Nat

VARIABLES allocations,  \* the entries in use, in table order
          result        \* what the last call returned: a page number, or 0

mvars == <<allocations, result>>

FrameAllocation == [pid : Pid, start : Nat, count : Nat \ {0}]

TypeOK ==
    /\ allocations \in Seq(FrameAllocation)
    /\ Len(allocations) <= MAX_ALLOCS
    /\ result \in Nat

End(b) == b.start + b.count

Entry == 1 .. Len(allocations)

(* init *)
Init ==
    /\ allocations = <<[pid |-> 0, start |-> 0, count |-> LOW]>>
    /\ result = 0

-----------------------------------------------------------------------------
(* The table.                                                              *)

(* Variant of WithAllocation: the entry goes to the end of the table. *)
WithAllocationLast(b) == Append(allocations, b)

(* add_allocation: b goes in front of the first entry that starts later.   *)
WithAllocation(b) ==
    LET later == {i \in Entry : allocations[i].start > b.start}
        place == Min(later \cup {Len(allocations) + 1})
    IN  [i \in 1 .. Len(allocations) + 1 |->
            IF i < place THEN allocations[i]
            ELSE IF i = place THEN b
            ELSE allocations[i - 1]]

(* remove_allocation, once it has found the entry. *)
WithoutEntry(found) ==
    [i \in 1 .. Len(allocations) - 1 |->
        IF i < found THEN allocations[i] ELSE allocations[i + 1]]

(* is_valid_ram *)
ValidRam(start, pages) ==
    \E r \in Ram : r.base <= start /\ start + pages <= r.end

(* prev_end when the search has come to entry i: where the entries before  *)
(* it end.  The search starts from the end of the first.                   *)
PrevEnd(i) == Max({LOW} \cup {End(allocations[k]) : k \in Entry \cap ({1} \cup 1 .. i - 1)})

(* The gap in front of entry i takes the request: only its first address   *)
(* is tried.                                                               *)
FitsBefore(i, pages) ==
    /\ allocations[i].start >= PrevEnd(i) + pages
    /\ ValidRam(PrevEnd(i), pages)

(* The address found by allocate_memory, or 0: the first gap that takes    *)
(* the request, or what follows the last entry.                            *)
FirstFit(pages) ==
    LET gaps == {i \in Entry : FitsBefore(i, pages)}
        tail == PrevEnd(Len(allocations) + 1)
    IN  IF gaps # {} THEN PrevEnd(Min(gaps))
        ELSE IF tail + pages <= total_ram /\ ValidRam(tail, pages) THEN tail
        ELSE 0

-----------------------------------------------------------------------------
(* The calls.                                                              *)

(* allocate_frames for at least one page. *)
Allocate(pid, pages) ==
    LET start == FirstFit(pages)
    IN  IF start # 0 /\ Len(allocations) < MAX_ALLOCS
        THEN /\ allocations' = WithAllocation([pid |-> pid, start |-> start,
                                               count |-> pages])
             /\ result' = start
        ELSE /\ result' = 0
             /\ UNCHANGED allocations

(* free_frame: the last entry that starts there, if any. *)
FreeFrame(addr) ==
    LET found == {i \in Entry : allocations[i].start = addr}
    IN  /\ allocations' = IF found = {} THEN allocations ELSE WithoutEntry(Max(found))
        /\ UNCHANGED result

(* The k-th smallest member of S. *)
Nth(S, k) == CHOOSE i \in S : Cardinality({j \in S : j <= i}) = k

(* Variant of FreeFramesByPid: the scan moves on after closing a gap, so of *)
(* neighbouring entries only the first is freed.                           *)
FreeFramesByPidSkipping(pid) ==
    LET kept == {i \in Entry : \/ allocations[i].pid # pid
                               \/ i > 1 /\ allocations[i - 1].pid = pid}
    IN  /\ allocations' = [k \in 1 .. Cardinality(kept) |-> allocations[Nth(kept, k)]]
        /\ UNCHANGED result

(* free_frames_by_pid for a process: the entries of the others close up.   *)
(* For pid 0 it would free the entries of all; waitpid cannot call it so,  *)
(* because the idle task does not die (IdleReady in module Tasks).         *)
FreeFramesByPid(pid) ==
    LET kept == {i \in Entry : allocations[i].pid # pid}
    IN  /\ allocations' = [k \in 1 .. Cardinality(kept) |-> allocations[Nth(kept, k)]]
        /\ UNCHANGED result

Next ==
    \/ \E pid \in Pid, pages \in 1 .. MaxPages : Allocate(pid, pages)
    \/ \E i \in 2 .. Len(allocations) : FreeFrame(allocations[i].start)
    \/ \E pid \in Pid \ {0} : FreeFramesByPid(pid)

Spec == Init /\ [][Next]_mvars

-----------------------------------------------------------------------------
(* Properties.                                                             *)

(* What print_allocations calls a collision never happens: the table stays *)
(* sorted and an allocation starts only where all before it have ended, on *)
(* which the first-fit search relies.                                      *)
NoCollision ==
    \A i, j \in Entry : i < j => End(allocations[i]) <= allocations[j].start

(* The table implements the abstract store: what is granted is usable and  *)
(* free, what a process owns is given back entirely, all else stays.       *)
Store == INSTANCE FrameStore WITH blocks <- Range(allocations)

ImplementsStore == Store!Spec

(* free_frame gives up the block it is called with and no other, although  *)
(* it moves every later entry of the table.                                *)
FreesTheNamed ==
    [][\A i \in 2 .. Len(allocations) :
          FreeFrame(allocations[i].start) =>
             Range(allocations') =
                {b \in Range(allocations) : b.start # allocations[i].start}]_mvars

=============================================================================
