-------------------------------- MODULE Memory --------------------------------
(***************************************************************************)
(* Who owns which physical memory: the task table, the loader and the      *)
(* frame allocator together, kernel/src/interrupts/task.rs (init_user),    *)
(* syscalls/process.rs, syscalls/memory.rs, fs/elf.rs and memory/pmm.rs.   *)
(*                                                                         *)
(* Of the allocator only its promise is used (module FrameStore, which     *)
(* module PMM implements): a block is handed out to one owner.  A block    *)
(* stands for its first address and any free block may be handed out.      *)
(***************************************************************************)
EXTENDS Integers, FiniteSets

CONSTANTS MAX_TASKS,   \* slots of the task table (125)
          Block        \* the blocks of physical memory; none is at address 0

Task == 0 .. MAX_TASKS - 1

ASSUME MemoryAssumption ==
    /\ MAX_TASKS \in Nat /\ MAX_TASKS >= 2
    /\ 0 \notin Block /\ -1 \notin Block

VARIABLES state,          \* [Task -> TaskState]; a sleeping task is Ready here
          current,        \* the running task
          kernel_stack,   \* [Task -> Block \cup {0}]
          owner           \* [Block -> Task \cup {Free}]: whom the allocator has for it

vars == <<state, current, kernel_stack, owner>>

TaskState == {"Null", "Reserved", "Ready", "Zombie"}

Free == -1

TypeOK ==
    /\ state \in [Task -> TaskState]
    /\ current \in Task
    /\ kernel_stack \in [Task -> Block \cup {0}]
    /\ owner \in [Block -> Task \cup {Free}]

Init ==
    /\ state = [t \in Task |-> IF t = 0 THEN "Ready" ELSE "Null"]
    /\ current = 0
    /\ kernel_stack = [t \in Task |-> 0]
    /\ owner = [b \in Block |-> Free]

FreeBlocks == {b \in Block : owner[b] = Free}

(* The owners after pid has been given the blocks in S. *)
Given(S, pid) == [b \in Block |-> IF b \in S THEN pid ELSE owner[b]]

-----------------------------------------------------------------------------
(* spawn_process, one action for each way it can end.  The lowest free     *)
(* slot is reserved; nothing in it but its state is touched before the     *)
(* program has been loaded.                                                *)

Slot(t) == state[t] = "Null" /\ \A u \in 0 .. t - 1 : state[u] # "Null"

(* Variant of Started: the kernel stack is allocated for the kernel. *)
StartedOnKernelStack(t, image, k_frame, u_frame) ==
    /\ Slot(t)
    /\ {image, k_frame, u_frame} \subseteq FreeBlocks
    /\ Cardinality({image, k_frame, u_frame}) = 3
    /\ owner' = [Given({image, u_frame}, t) EXCEPT ![k_frame] = 0]
    /\ kernel_stack' = [kernel_stack EXCEPT ![t] = k_frame]
    /\ state' = [state EXCEPT ![t] = "Ready"]
    /\ UNCHANGED current

Started(t, image, k_frame, u_frame) ==
    /\ Slot(t)
    /\ {image, k_frame, u_frame} \subseteq FreeBlocks
    /\ Cardinality({image, k_frame, u_frame}) = 3
    /\ owner' = Given({image, k_frame, u_frame}, t)
    /\ kernel_stack' = [kernel_stack EXCEPT ![t] = k_frame]
    /\ state' = [state EXCEPT ![t] = "Ready"]
    /\ UNCHANGED current

(* load_elf fails, before or after it has allocated the image: the slot    *)
(* stays reserved.                                                         *)
NotLoaded(t, image) ==
    /\ Slot(t)
    /\ image \subseteq FreeBlocks
    /\ owner' = Given(image, t)
    /\ state' = [state EXCEPT ![t] = "Reserved"]
    /\ UNCHANGED <<current, kernel_stack>>

(* No kernel stack: the slot is free again, the image is not. *)
NoKernelStack(t, image) ==
    /\ Slot(t)
    /\ image \in FreeBlocks
    /\ owner' = Given({image}, t)
    /\ UNCHANGED <<state, current, kernel_stack>>

(* No user stack: the kernel stack is given back, but the slot still names *)
(* it.                                                                     *)
NoUserStack(t, image, k_frame) ==
    /\ Slot(t)
    /\ {image, k_frame} \subseteq FreeBlocks /\ image # k_frame
    /\ owner' = Given({image}, t)
    /\ kernel_stack' = [kernel_stack EXCEPT ![t] = k_frame]
    /\ UNCHANGED <<state, current>>

Spawn ==
    \E t \in Task :
        \/ \E i, k, u \in Block : Started(t, i, k, u)
        \/ \E image \in {{}} \cup {{b} : b \in Block} : NotLoaded(t, image)
        \/ \E i \in Block : NoKernelStack(t, i)
        \/ \E i, k \in Block : NoUserStack(t, i, k)

-----------------------------------------------------------------------------

(* sys_malloc by the running task, which need not be alive. *)
Malloc(b) ==
    /\ current # 0
    /\ b \in FreeBlocks
    /\ owner' = Given({b}, current)
    /\ UNCHANGED <<state, current, kernel_stack>>

(* The kernel allocates for itself and keeps it. *)
KernelTakes(b) ==
    /\ b \in FreeBlocks
    /\ owner' = Given({b}, 0)
    /\ UNCHANGED <<state, current, kernel_stack>>

(* A task dies, by its own exit or fault or by a signal. *)
Die(t) ==
    /\ t # 0 /\ state[t] \in {"Reserved", "Ready"}
    /\ state' = [state EXCEPT ![t] = "Zombie"]
    /\ UNCHANGED <<current, kernel_stack, owner>>

(* sys_sleep by a task that was killed while it ran revives it. *)
Sleep ==
    /\ current # 0
    /\ state' = [state EXCEPT ![current] = "Ready"]
    /\ UNCHANGED <<current, kernel_stack, owner>>

Switch(t) ==
    /\ state[t] = "Ready"
    /\ current' = t
    /\ UNCHANGED <<state, kernel_stack, owner>>

(* Variant of Freed: the stack is freed by its address alone. *)
FreedStackOnly(t) == {b \in Block : b = kernel_stack[t]}

(* What sys_waitpid on t frees: all blocks t owns and, by its address, the *)
(* block the slot names as kernel stack, whoever owns it.                  *)
Freed(t) == {b \in Block : owner[b] = t \/ b = kernel_stack[t]}


(* sys_waitpid by another task; no program waits for itself. *)
WaitPid(t) ==
    /\ current # 0 /\ t # current
    /\ state[t] = "Zombie"
    /\ owner' = Given(Freed(t), Free)
    /\ kernel_stack' = [kernel_stack EXCEPT ![t] = 0]
    /\ state' = [state EXCEPT ![t] = "Null"]
    /\ UNCHANGED current

Next ==
    \/ Spawn
    \/ \E b \in Block : Malloc(b) \/ KernelTakes(b)
    \/ \E t \in Task : Die(t) \/ Switch(t) \/ WaitPid(t)
    \/ Sleep

Spec == Init /\ [][Next]_vars
=============================================================================
