----------------------------- MODULE MemoryHistory -----------------------------
(***************************************************************************)
(* Module Memory with two history variables for what the kernel does not   *)
(* keep: the blocks that failed spawns left behind, and whether memory has *)
(* ever been freed under its owner.                                        *)
(***************************************************************************)
EXTENDS Memory

VARIABLES lost,      \* blocks left by failed spawns to the slot they failed in
          damaged    \* some block was freed that belonged to another task

hvars == <<vars, lost, damaged>>

HInit == Init /\ lost = {} /\ damaged = FALSE

(* The blocks a step hands to a slot that stays free. *)
LeftBehind == {b \in Block : owner[b] = Free /\ owner'[b] # Free /\ state'[owner'[b]] = "Null"}

(* The blocks that a step frees under an owner other than the task it      *)
(* collects: the block that the slot of t names as its kernel stack.       *)
TakenAway(t) == {b \in Freed(t) : owner[b] \notin {t, Free}}

HWaitPid(t) ==
    /\ WaitPid(t)
    /\ lost' = lost \ Freed(t)
    /\ damaged' = (damaged \/ TakenAway(t) # {})

Others ==
    \/ \E b \in Block : Malloc(b) \/ KernelTakes(b)
    \/ \E t \in Task : Die(t) \/ Switch(t)
    \/ Sleep

HNext ==
    \/ Spawn /\ lost' = lost \cup LeftBehind /\ UNCHANGED damaged
    \/ \E t \in Task : HWaitPid(t)
    \/ Others /\ UNCHANGED <<lost, damaged>>

HSpec == HInit /\ [][HNext]_hvars

-----------------------------------------------------------------------------

(* Whoever runs or may run stands on a kernel stack of his own, also the   *)
(* task that was killed while it ran - until a block is freed under its    *)
(* owner.                                                                  *)
StackOwned ==
    ~damaged =>
       \A t \in Task \ {0} :
          state[t] = "Ready" \/ t = current =>
             kernel_stack[t] # 0 /\ owner[kernel_stack[t]] = t

(* Collecting a process returns all its memory: what a free slot still     *)
(* owns was left behind by spawns that failed in that slot.                *)
NothingElseLeaks ==
    \A b \in Block : owner[b] > 0 /\ state[owner[b]] = "Null" => b \in lost
=============================================================================
