----------------------------- MODULE MemoryProofs -----------------------------
(***************************************************************************)
(* Who owns memory, for every number of tasks and blocks: nobody runs on a *)
(* kernel stack that is not his, and collecting a process returns all it   *)
(* had.  The proofs need that the running task is never a free slot, which *)
(* sys_waitpid owes to the fact that no program waits for itself.          *)
(***************************************************************************)
EXTENDS MemoryHistory, TLAPS

(* The inductive invariant. *)
IInv ==
    /\ TypeOK
    /\ state[current] # "Null"
    /\ state[0] = "Ready"
    /\ StackOwned
    /\ NothingElseLeaks

LEMMA InitIInv == HInit => IInv
  BY MemoryAssumption DEF HInit, Init, IInv, TypeOK, StackOwned, NothingElseLeaks, Task,
                          TaskState, Free

-----------------------------------------------------------------------------
(* spawn_process.                                                          *)

(* Blocks go from the allocator to the slot t; only its entries change.    *)
Fills(t, S) ==
    /\ Slot(t)
    /\ S \subseteq FreeBlocks
    /\ owner' = Given(S, t)
    /\ current' = current
    /\ \A u \in Task \ {t} : state'[u] = state[u] /\ kernel_stack'[u] = kernel_stack[u]

LEMMA FillsKeepsOthers ==
    ASSUME IInv, NEW t \in Task, NEW S, Fills(t, S)
    PROVE  /\ t # current /\ t # 0
           /\ owner' \in [Block -> Task \cup {Free}]
           /\ \A b \in Block : owner'[b] = IF b \in S THEN t ELSE owner[b]
           /\ \A b \in S : owner[b] = Free
           /\ ~damaged => \A u \in Task \ {0, t} :
                 state'[u] = "Ready" \/ u = current' =>
                    kernel_stack'[u] # 0 /\ owner'[kernel_stack'[u]] = u
  <1>1. t # current /\ t # 0
    BY DEF IInv, Fills, Slot
  <1>2. /\ owner' \in [Block -> Task \cup {Free}]
        /\ \A b \in Block : owner'[b] = IF b \in S THEN t ELSE owner[b]
        /\ \A b \in S : owner[b] = Free
    BY DEF IInv, Fills, Given, TypeOK, FreeBlocks
  <1>3. ASSUME ~damaged, NEW u \in Task \ {0, t}, state'[u] = "Ready" \/ u = current'
        PROVE  kernel_stack'[u] # 0 /\ owner'[kernel_stack'[u]] = u
    <2>1. state[u] = "Ready" \/ u = current
      BY <1>3 DEF Fills
    <2>2. kernel_stack[u] # 0 /\ owner[kernel_stack[u]] = u
      BY <1>3, <2>1 DEF IInv, StackOwned
    <2>3. u # Free /\ kernel_stack[u] \in Block
      BY <2>2, MemoryAssumption DEF IInv, TypeOK, Task, Free
    <2> QED
      BY <1>2, <2>2, <2>3 DEF Fills
  <1> QED
    BY <1>1, <1>2, <1>3

(* What NothingElseLeaks asks of a spawn holds by what lost records. *)
LEMMA SpawnLeavesNoMore ==
    ASSUME IInv, NEW t \in Task, NEW S, Fills(t, S), lost' = lost \cup LeftBehind
    PROVE  NothingElseLeaks'
  <1> SUFFICES ASSUME NEW b \in Block, owner'[b] > 0, state'[owner'[b]] = "Null"
               PROVE  b \in lost'
    BY DEF NothingElseLeaks
  <1>1. CASE b \in S
    <2>1. owner[b] = Free /\ owner'[b] = t /\ t # Free
      BY <1>1, FillsKeepsOthers, MemoryAssumption DEF Task, Free
    <2> QED
      BY <2>1 DEF LeftBehind
  <1>2. CASE b \notin S
    <2>1. owner'[b] = owner[b]
      BY <1>2, FillsKeepsOthers
    <2>2. owner[b] \in Task
      BY <2>1, MemoryAssumption DEF IInv, TypeOK, Free
    <2>3. CASE owner[b] = t
      BY <2>1, <2>3 DEF IInv, NothingElseLeaks, Fills, Slot
    <2>4. CASE owner[b] # t
      BY <2>1, <2>2, <2>4 DEF IInv, NothingElseLeaks, Fills
    <2> QED
      BY <2>3, <2>4
  <1> QED
    BY <1>1, <1>2

(* A spawn keeps the invariant if the slot, once ready, names a stack of   *)
(* its own.                                                                *)
LEMMA FillsKeepsIInv ==
    ASSUME IInv, NEW t \in Task, NEW S, Fills(t, S),
           lost' = lost \cup LeftBehind, damaged' = damaged,
           state' \in [Task -> TaskState], kernel_stack' \in [Task -> Block \cup {0}],
           state'[t] = "Ready" => kernel_stack'[t] # 0 /\ owner'[kernel_stack'[t]] = t
    PROVE  IInv'
  <1>1. t # current /\ t # 0 /\ current' = current
    BY FillsKeepsOthers DEF Fills
  <1>2. current' \in Task /\ state'[current'] # "Null" /\ state'[0] = "Ready"
    BY <1>1, MemoryAssumption DEF IInv, TypeOK, Fills, Task
  <1>3. TypeOK'
    BY <1>2, FillsKeepsOthers DEF TypeOK
  <1>4. StackOwned'
    BY <1>1, FillsKeepsOthers DEF StackOwned
  <1> QED
    BY <1>2, <1>3, <1>4, SpawnLeavesNoMore DEF IInv

LEMMA SpawnStep ==
    ASSUME IInv, Spawn, lost' = lost \cup LeftBehind, UNCHANGED damaged
    PROVE  IInv'
  <1>1. PICK t \in Task :
          \/ \E i, k, u \in Block : Started(t, i, k, u)
          \/ \E image \in {{}} \cup {{b} : b \in Block} : NotLoaded(t, image)
          \/ \E i \in Block : NoKernelStack(t, i)
          \/ \E i, k \in Block : NoUserStack(t, i, k)
    BY DEF Spawn
  <1>2. ASSUME NEW i \in Block, NEW k \in Block, NEW u \in Block, Started(t, i, k, u)
        PROVE  IInv'
    <2>1. Fills(t, {i, k, u})
      BY <1>2 DEF Started, Fills, IInv, TypeOK
    <2>2. /\ state' \in [Task -> TaskState] /\ kernel_stack' \in [Task -> Block \cup {0}]
          /\ kernel_stack'[t] = k
      BY <1>2 DEF Started, IInv, TypeOK, TaskState
    <2>3. kernel_stack'[t] # 0 /\ owner'[kernel_stack'[t]] = t
      BY <2>1, <2>2, FillsKeepsOthers, MemoryAssumption
    <2> QED
      BY <2>1, <2>2, <2>3, FillsKeepsIInv
  <1>3. ASSUME NEW image \in {{}} \cup {{b} : b \in Block}, NotLoaded(t, image)
        PROVE  IInv'
    <2>1. Fills(t, image)
      BY <1>3 DEF NotLoaded, Fills, IInv, TypeOK
    <2>2. state' \in [Task -> TaskState] /\ state'[t] = "Reserved" /\ kernel_stack' = kernel_stack
      BY <1>3 DEF NotLoaded, IInv, TypeOK, TaskState
    <2> QED
      BY <2>1, <2>2, FillsKeepsIInv DEF IInv, TypeOK
  <1>4. ASSUME NEW i \in Block, NoKernelStack(t, i)
        PROVE  IInv'
    <2>1. Fills(t, {i})
      BY <1>4 DEF NoKernelStack, Fills, IInv, TypeOK
    <2>2. state' = state /\ state[t] = "Null" /\ kernel_stack' = kernel_stack
      BY <1>4 DEF NoKernelStack, Slot
    <2> QED
      BY <2>1, <2>2, FillsKeepsIInv DEF IInv, TypeOK
  <1>5. ASSUME NEW i \in Block, NEW k \in Block, NoUserStack(t, i, k)
        PROVE  IInv'
    <2>1. Fills(t, {i})
      BY <1>5 DEF NoUserStack, Fills, IInv, TypeOK
    <2>2. state' = state /\ state[t] = "Null" /\ kernel_stack' \in [Task -> Block \cup {0}]
      BY <1>5 DEF NoUserStack, Slot, IInv, TypeOK
    <2> QED
      BY <2>1, <2>2, FillsKeepsIInv DEF IInv, TypeOK
  <1> QED
    BY <1>1, <1>2, <1>3, <1>4, <1>5

-----------------------------------------------------------------------------

LEMMA MallocStep ==
    ASSUME IInv, NEW b \in Block, Malloc(b) \/ KernelTakes(b), UNCHANGED <<lost, damaged>>
    PROVE  IInv'
  <1>1. PICK pid \in {current, 0} : owner' = Given({b}, pid)
    BY DEF Malloc, KernelTakes
  <1>2. /\ owner[b] = Free
        /\ UNCHANGED <<state, current, kernel_stack>>
    BY DEF Malloc, KernelTakes, FreeBlocks
  <1>3. pid \in Task /\ (pid = 0 \/ state[pid] # "Null")
    BY MemoryAssumption DEF IInv, TypeOK, Task
  <1>4. \A c \in Block : owner'[c] = IF c = b THEN pid ELSE owner[c]
    BY <1>1 DEF Given
  <1>5. TypeOK'
    BY <1>1, <1>2, <1>3 DEF IInv, TypeOK, Given
  <1>6. StackOwned'
    BY <1>2, <1>4, MemoryAssumption DEF IInv, StackOwned, TypeOK, Task, Free
  <1>7. NothingElseLeaks'
    BY <1>2, <1>3, <1>4 DEF IInv, NothingElseLeaks
  <1> QED
    BY <1>2, <1>5, <1>6, <1>7 DEF IInv

LEMMA LifeStep ==
    ASSUME IInv, (\E t \in Task : Die(t) \/ Switch(t)) \/ Sleep, UNCHANGED <<lost, damaged>>
    PROVE  IInv'
  <1>1. ASSUME NEW t \in Task, Die(t)
        PROVE  IInv'
    BY <1>1 DEF Die, IInv, TypeOK, TaskState, StackOwned, NothingElseLeaks, Free
  <1>2. ASSUME NEW t \in Task, Switch(t)
        PROVE  IInv'
    BY <1>2 DEF Switch, IInv, TypeOK, StackOwned, NothingElseLeaks
  <1>3. ASSUME Sleep
        PROVE  IInv'
    BY <1>3 DEF Sleep, IInv, TypeOK, TaskState, StackOwned, NothingElseLeaks, Free
  <1> QED
    BY <1>1, <1>2, <1>3

(* sys_waitpid frees by address what may be another's stack; unless that   *)
(* happens, and is noted, everybody keeps his own.                         *)
LEMMA WaitPidStep ==
    ASSUME IInv, NEW t \in Task, HWaitPid(t)
    PROVE  IInv'
  <1>1. /\ t # current /\ t # 0 /\ state[t] = "Zombie"
        /\ owner' = Given(Freed(t), Free)
        /\ kernel_stack' = [kernel_stack EXCEPT ![t] = 0]
        /\ state' = [state EXCEPT ![t] = "Null"]
        /\ current' = current
        /\ lost' = lost \ Freed(t)
        /\ damaged' = (damaged \/ TakenAway(t) # {})
    BY DEF HWaitPid, WaitPid, IInv
  <1>2. \A b \in Block : owner'[b] = IF b \in Freed(t) THEN Free ELSE owner[b]
    BY <1>1 DEF Given
  <1>3. TypeOK'
    BY <1>1, MemoryAssumption DEF IInv, TypeOK, TaskState, Given, Task
  <1>4. StackOwned'
    <2> SUFFICES ASSUME ~damaged', NEW u \in Task \ {0}, state'[u] = "Ready" \/ u = current'
                 PROVE  kernel_stack'[u] # 0 /\ owner'[kernel_stack'[u]] = u
      BY DEF StackOwned
    <2>1. u # t /\ (state[u] = "Ready" \/ u = current)
      BY <1>1 DEF IInv, TypeOK
    <2>2. /\ kernel_stack'[u] = kernel_stack[u] /\ kernel_stack[u] # 0
          /\ owner[kernel_stack[u]] = u
      BY <1>1, <2>1 DEF IInv, StackOwned, TypeOK
    <2>3. u # Free /\ kernel_stack[u] \in Block
      BY <2>2, MemoryAssumption DEF IInv, TypeOK, Task, Free
    <2>4. kernel_stack[u] \notin Freed(t)
      BY <1>1, <2>1, <2>2, <2>3 DEF TakenAway, Freed
    <2> QED
      BY <1>2, <2>2, <2>3, <2>4
  <1>5. NothingElseLeaks'
    <2> SUFFICES ASSUME NEW b \in Block, owner'[b] > 0, state'[owner'[b]] = "Null"
                 PROVE  b \in lost'
      BY DEF NothingElseLeaks
    <2>1. b \notin Freed(t) /\ owner'[b] = owner[b] /\ owner[b] # t
      BY <1>2 DEF Freed, Free
    <2>2. state[owner[b]] = "Null"
      BY <1>1, <2>1 DEF IInv, TypeOK, Free
    <2> QED
      BY <1>1, <2>1, <2>2 DEF IInv, NothingElseLeaks
  <1> QED
    BY <1>1, <1>3, <1>4, <1>5 DEF IInv, TypeOK

LEMMA StepIInv == IInv /\ [HNext]_hvars => IInv'
  <1> SUFFICES ASSUME IInv, [HNext]_hvars PROVE IInv'
    OBVIOUS
  <1>1. CASE Others /\ UNCHANGED <<lost, damaged>>
    BY <1>1, MallocStep, LifeStep DEF Others
  <1>2. CASE UNCHANGED hvars
    BY <1>2 DEF hvars, vars, IInv, TypeOK, StackOwned, NothingElseLeaks
  <1> QED
    BY <1>1, <1>2, SpawnStep, WaitPidStep DEF HNext

LEMMA Inductive == HSpec => []IInv
  BY InitIInv, StepIInv, PTL DEF HSpec

-----------------------------------------------------------------------------

(* The task table, the loader and the allocator together keep their types, *)
(* and the running task is never a free slot (sys_waitpid, schedule).      *)
THEOREM MemoryTypes == HSpec => [](TypeOK /\ state[current] # "Null")
<1>1. IInv => TypeOK /\ state[current] # "Null"
  BY DEF IInv
<1> QED
  BY <1>1, Inductive, PTL

(* Whoever runs or may run stands on a kernel stack of his own, until a    *)
(* sys_waitpid frees the block that the slot it collects still names from  *)
(* a spawn that failed (init_user, sys_waitpid).                           *)
THEOREM MemoryStackOwned == HSpec => []StackOwned
<1>1. IInv => StackOwned
  BY DEF IInv
<1> QED
  BY <1>1, Inductive, PTL

(* Collecting a process returns all its memory: a free slot owns only what *)
(* spawns that failed in it left behind (sys_waitpid, spawn_process).      *)
THEOREM MemoryNothingElseLeaks == HSpec => []NothingElseLeaks
<1>1. IInv => NothingElseLeaks
  BY DEF IInv
<1> QED
  BY <1>1, Inductive, PTL
=============================================================================
