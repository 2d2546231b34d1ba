-------------------------------- MODULE Files --------------------------------
(***************************************************************************)
(* The open-file table of the kernel and the descriptor tables of its      *)
(* tasks: who refers to which open file, when a file is closed, and when a *)
(* pipe is marked closed.  Models kernel/src/fs/vfs.rs together with every *)
(* handler that touches it: open, close, pipe, spawn, exit, kill, waitpid, *)
(* the default action of a signal, a fault, and the keyboard shortcuts.    *)
(*                                                                         *)
(* The processor is single and system calls, interrupts and exceptions run *)
(* with interrupts masked, so each handler is one step.  The order in      *)
(* which tasks are resumed is the business of module Tasks: here the       *)
(* scheduler resumes any ready task.  A task's state Sleeping is Ready     *)
(* here, the only difference being when it is resumed.                     *)
(***************************************************************************)
EXTENDS Integers, FiniteSets

CONSTANTS MAX_TASKS,   \* slots of the task table (125)
          MAX_FDS,     \* descriptors of a task (16)
          FIRST,       \* first global handle given out (3)
          MAX_OPEN,    \* slots of the open-file table (256)
          MaxRef,      \* bound on a reference count (below 2^16, where it wraps)
          Signalable,  \* tasks some program or shortcut signals
          NoFile,      \* an empty slot of the open-file table
          Regular      \* a slot that holds a file or a directory

Task   == 0 .. MAX_TASKS - 1
Fd     == 0 .. MAX_FDS - 1
Global == FIRST .. MAX_OPEN - 1
Pipes  == Global \X Global     \* a pipe is known by the handles of its two ends
None   == -1

(* The idle task runs kernel code and no program signals it: sysmon spares *)
(* the first pids, the shell and the terminal signal their own children,   *)
(* and the shortcut signals the owner of a window.                         *)
ASSUME FilesAssumption ==
    /\ MAX_TASKS \in Nat /\ MAX_TASKS >= 2
    /\ MAX_FDS \in Nat
    /\ FIRST \in Nat /\ MAX_OPEN \in Nat
    /\ MaxRef \in Nat \ {0}
    /\ Signalable \subseteq Task \ {0}
    /\ NoFile # Regular /\ NoFile \notin Pipes /\ Regular \notin Pipes

VARIABLES state,      \* [Task -> TaskState], the state of each slot
          current,    \* the running task, None until the first switch
          halted,     \* the running task waits in sys_exit to be switched out
          fd_table,   \* [Task -> [Fd -> Global \cup {None}]]
          file,       \* OPEN_FILES: [Global -> what the slot holds]
          refcount,   \* GLOBAL_FILE_REFCOUNT: [Global -> Nat]
          closed      \* the pipes whose buffer is marked closed

tvars == <<state, current, halted>>
fvars == <<fd_table, file, refcount, closed>>
vars  == <<tvars, fvars>>

TaskState == {"Null", "Reserved", "Ready", "Zombie"}

TypeOK ==
    /\ state \in [Task -> TaskState]
    /\ current \in Task \cup {None}
    /\ halted \in BOOLEAN
    /\ fd_table \in [Task -> [Fd -> Global \cup {None}]]
    /\ file \in [Global -> {NoFile, Regular} \cup Pipes]
    /\ refcount \in [Global -> 0 .. MaxRef]
    /\ closed \subseteq Pipes

Lowest(S) == CHOOSE x \in S : \A y \in S : x <= y

EmptyTable == [l \in Fd |-> None]

Init ==
    /\ state = [t \in Task |-> IF t <= 1 THEN "Ready" ELSE "Null"]
    /\ current = None
    /\ halted = FALSE
    /\ fd_table = [t \in Task |-> EmptyTable]
    /\ file = [g \in Global |-> NoFile]
    /\ refcount = [g \in Global |-> 0]
    /\ closed = {}

-----------------------------------------------------------------------------
(* The open-file table.                                                    *)

Descriptor == Task \X Fd

(* The descriptors in S that name the open file g. *)
Naming(S, g) == {d \in S : fd_table[d[1]][d[2]] = g}

(* The handles whose last reference goes when the descriptors in S close. *)
Dropped(S) == {g \in Global : /\ refcount[g] > 0
                              /\ Cardinality(Naming(S, g)) >= refcount[g]}

(* Variant of ShutBy: every close of an end marks the pipe. *)
ShutByAny(S) ==
    {p \in Pipes : /\ \E d \in S : /\ fd_table[d[1]][d[2]] # None
                                   /\ file[fd_table[d[1]][d[2]]] = p
                   /\ \E g \in Global \ Dropped(S) : file[g] = p}

(* The pipes that losing the handles Dropped(S) marks closed.  The buffer  *)
(* lives on while the other end holds it.                                  *)
ShutBy(S) ==
    {p \in Pipes : /\ \E g \in Dropped(S) : file[g] = p
                   /\ \E g \in Global \ Dropped(S) : file[g] = p}

(* close_file for every descriptor in S, which is emptied. *)
CloseDescriptors(S) ==
    /\ refcount' = [g \in Global |->
            LET n == Cardinality(Naming(S, g))
            IN  IF n >= refcount[g] THEN 0 ELSE refcount[g] - n]
    /\ file' = [g \in Global |-> IF g \in Dropped(S) THEN NoFile ELSE file[g]]
    /\ closed' = ShutBy(S) \cup
                 {p \in closed : \E g \in Global \ Dropped(S) : file[g] = p}
    /\ fd_table' = [t \in Task |-> [l \in Fd |->
            IF <<t, l>> \in S THEN None ELSE fd_table[t][l]]]

FreeGlobals == {g \in Global : file[g] = NoFile}
FreeFds(t)  == {l \in Fd : fd_table[t][l] = None}

-----------------------------------------------------------------------------
(* System calls of the running task on its descriptors.                    *)

(* The running task executes user code: it is neither the idle task nor    *)
(* halted at the end of sys_exit.  It need not be alive: a task that was   *)
(* killed while running keeps the processor until the next switch.         *)
UserCode == current \in Task \ {0} /\ ~halted

(* sys_open: the file takes the lowest free handle.  When every descriptor *)
(* of the caller is in use the call fails but the handle stays open.       *)
Open ==
    /\ UserCode
    /\ FreeGlobals # {}
    /\ LET g == Lowest(FreeGlobals)
       IN  /\ file' = [file EXCEPT ![g] = Regular]
           /\ refcount' = [refcount EXCEPT ![g] = 1]
           /\ fd_table' = IF FreeFds(current) = {} THEN fd_table
                          ELSE [fd_table EXCEPT
                                  ![current][Lowest(FreeFds(current))] = g]
    /\ UNCHANGED <<tvars, closed>>

(* Variant of Close: the descriptor is not emptied. *)
CloseWithoutReset(l) ==
    /\ UserCode
    /\ fd_table[current][l] # None
    /\ LET S == {<<current, l>>}
       IN  /\ refcount' = [g \in Global |->
                 refcount[g] - Cardinality({d \in Naming(S, g) : refcount[g] > 0})]
           /\ file' = [g \in Global |-> IF g \in Dropped(S) THEN NoFile ELSE file[g]]
    /\ UNCHANGED <<tvars, closed, fd_table>>

(* sys_close *)
Close(l) ==
    /\ UserCode
    /\ fd_table[current][l] # None
    /\ CloseDescriptors({<<current, l>>})
    /\ UNCHANGED tvars

(* sys_pipe: two free handles and two free descriptors, or nothing. *)
Pipe ==
    /\ UserCode
    /\ Cardinality(FreeGlobals) >= 2
    /\ Cardinality(FreeFds(current)) >= 2
    /\ LET g1 == Lowest(FreeGlobals)
           g2 == Lowest(FreeGlobals \ {g1})
           l1 == Lowest(FreeFds(current))
           l2 == Lowest(FreeFds(current) \ {l1})
       IN  /\ file' = [file EXCEPT ![g1] = <<g1, g2>>, ![g2] = <<g1, g2>>]
           /\ refcount' = [refcount EXCEPT ![g1] = 1, ![g2] = 1]
           /\ fd_table' = [fd_table EXCEPT ![current][l1] = g1,
                                           ![current][l2] = g2]
    /\ UNCHANGED <<tvars, closed>>

-----------------------------------------------------------------------------
(* Processes.                                                              *)

Alive == {t \in Task : state[t] \notin {"Null", "Zombie"}}

(* Variant of Kill: the descriptors of the victim are forgotten. *)
KillWithoutClose(victims) ==
    /\ state' = [t \in Task |-> IF t \in victims \cap Alive THEN "Zombie"
                                                           ELSE state[t]]
    /\ fd_table' = [t \in Task |-> IF t \in victims \cap Alive THEN EmptyTable
                                                              ELSE fd_table[t]]
    /\ UNCHANGED <<file, refcount, closed>>

(* kill_process(pid, 9) for each pid in victims. *)
Kill(victims) ==
    /\ state' = [t \in Task |-> IF t \in victims \cap Alive THEN "Zombie"
                                                           ELSE state[t]]
    /\ CloseDescriptors((victims \cap Alive) \X Fd)

(* sys_kill with SIGKILL, or the shortcut that kills the owner of the      *)
(* active window, which may come while any task runs.                      *)
KillProcess(pid) ==
    /\ pid \in Signalable
    /\ Kill({pid})
    /\ UNCHANGED <<current, halted>>

(* sys_exit marks the task, closes its descriptors and halts in the kernel *)
(* until the timer switches to another task.                               *)
Exit ==
    /\ UserCode
    /\ state' = [state EXCEPT ![current] = "Zombie"]
    /\ CloseDescriptors({current} \X Fd)
    /\ halted' = TRUE
    /\ UNCHANGED current

(* sys_sleep sets the state of the caller whatever it was. *)
Sleep ==
    /\ UserCode
    /\ state' = [state EXCEPT ![current] = "Ready"]
    /\ UNCHANGED <<current, halted, fvars>>

(* sys_waitpid on a zombie frees the slot; its descriptor table is not     *)
(* closed again but cleared.                                               *)
WaitPid(pid) ==
    /\ UserCode
    /\ state[pid] = "Zombie"
    /\ state' = [state EXCEPT ![pid] = "Null"]
    /\ fd_table' = [fd_table EXCEPT ![pid] = EmptyTable]
    /\ UNCHANGED <<current, halted, file, refcount, closed>>

(* The table a child gets: descriptor l is the parent's m[l].  Without a   *)
(* map the whole table is copied, which is the identity map.               *)
Inherit(m) ==
    [l \in Fd |-> IF m[l] = None \/ current = None THEN None
                                                   ELSE fd_table[current][m[l]]]

(* Variant of Gained: a handle inherited twice is counted once. *)
GainedOnce(table, g) ==
    IF file[g] # NoFile /\ \E l \in Fd : table[l] = g THEN 1 ELSE 0

(* increment_ref for every entry of a child's table. *)
Gained(table, g) ==
    IF file[g] = NoFile THEN 0 ELSE Cardinality({l \in Fd : table[l] = g})

(* spawn_process: the lowest free slot is reserved; if the program does    *)
(* not load it stays reserved; if the stacks cannot be allocated the slot  *)
(* is free again but keeps the table and the references it was given.      *)
Spawn(m, outcome) ==
    /\ \E t \in Task : state[t] = "Null"
    /\ LET slot  == Lowest({t \in Task : state[t] = "Null"})
           table == Inherit(m)
       IN  IF outcome = "BadProgram"
           THEN /\ state' = [state EXCEPT ![slot] = "Reserved"]
                /\ UNCHANGED fvars
           ELSE /\ \A g \in Global : refcount[g] + Gained(table, g) <= MaxRef
                /\ refcount' = [g \in Global |-> refcount[g] + Gained(table, g)]
                /\ fd_table' = [fd_table EXCEPT ![slot] = table]
                /\ state' = IF outcome = "NoMemory" THEN state
                            ELSE [state EXCEPT ![slot] = "Ready"]
                /\ UNCHANGED <<file, closed>>
    /\ UNCHANGED <<current, halted>>

Outcome == {"Started", "BadProgram", "NoMemory"}

CopyAll == [l \in Fd |-> l]

(* sys_spawn, with a map or without. *)
SysSpawn ==
    /\ UserCode
    /\ \E m \in [Fd -> Fd \cup {None}], outcome \in Outcome : Spawn(m, outcome)

(* Super+T starts a terminal as a child of whatever task is running. *)
ShortcutSpawn == \E outcome \in Outcome : Spawn(CopyAll, outcome)

-----------------------------------------------------------------------------
(* Switching.                                                              *)

(* schedule: a ready task is resumed.  If a terminating signal is pending  *)
(* the task is killed and resumed nevertheless.                            *)
Switch(t, signalled) ==
    /\ state[t] = "Ready"
    /\ signalled => t \in Signalable
    /\ Kill(IF signalled THEN {t} ELSE {})
    /\ current' = t
    /\ halted' = FALSE

(* An exception in user code kills the running task and switches at once.  *)
Fault(t, signalled) ==
    /\ UserCode
    /\ t # current
    /\ state[t] = "Ready"
    /\ signalled => t \in Signalable
    /\ Kill({current} \cup IF signalled THEN {t} ELSE {})
    /\ current' = t
    /\ halted' = FALSE

Next ==
    \/ Open
    \/ \E l \in Fd : Close(l)
    \/ Pipe
    \/ \E pid \in Task : KillProcess(pid)
    \/ Exit
    \/ Sleep
    \/ \E pid \in Task : WaitPid(pid)
    \/ SysSpawn
    \/ ShortcutSpawn
    \/ \E t \in Task, signalled \in BOOLEAN : Switch(t, signalled)
    \/ \E t \in Task, signalled \in BOOLEAN : Fault(t, signalled)

Spec == Init /\ [][Next]_vars

-----------------------------------------------------------------------------
(* Properties.                                                             *)

Refs(g) == Cardinality(Naming(Descriptor, g))

(* A descriptor never names a closed handle, whatever mix of inheritance,  *)
(* duplicate entries in a map, failed spawns, kills and slot reuse led     *)
(* there: otherwise the next open would take the handle and the task would *)
(* silently read and write another task's file.                            *)
NoDangling ==
    \A t \in Task, l \in Fd :
        fd_table[t][l] # None => file[fd_table[t][l]] # NoFile

(* A handle is counted at least as often as descriptors name it, and is    *)
(* open exactly while it is counted.                                       *)
RefsCounted ==
    \A g \in Global : /\ Refs(g) <= refcount[g]
                      /\ file[g] = NoFile <=> refcount[g] = 0

(* A pipe is marked closed exactly when one of its two handles is gone: a  *)
(* writer is never refused while somebody still holds the reading end, and *)
(* never keeps filling a buffer that nobody can read.                      *)
ClosedIffEndGone ==
    \A p \in Pipes :
        p \in closed <=> (file[p[1]] = p) # (file[p[2]] = p)

(* References get lost in two ways only: an open that finds no free        *)
(* descriptor, and the descriptors a task holds after its death (or that a *)
(* failed spawn left in a free slot).  No other call leaks a handle.       *)
LeakCause(g) ==
    \/ file[g] = NoFile /\ FreeFds(current) = {}
    \/ \E t \in Task \ Alive : Naming({t} \X Fd, g) # {}
    \/ \E t \in Task : state[t] = "Reserved" /\ Naming({t} \X Fd, g) # {}

LeaksOnlyWhereKnown ==
    [][\A g \in Global : refcount'[g] - Refs(g)' > refcount[g] - Refs(g)
                            => LeakCause(g)]_vars

=============================================================================
