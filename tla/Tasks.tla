-------------------------------- MODULE Tasks --------------------------------
(***************************************************************************)
(* The life of a process and the round-robin scheduler: models             *)
(* kernel/src/interrupts/task.rs, the process system calls, sys_sleep and  *)
(* what the exception and keyboard handlers do to tasks.                   *)
(*                                                                         *)
(* One processor; system calls, interrupts and exceptions run with         *)
(* interrupts masked, so each handler is one step.  Between two switches   *)
(* the running task makes any system calls it likes.  Open files, windows  *)
(* and memory of a task are the business of other modules.  task_count is  *)
(* left out: only add_task reads it, once, at boot.                        *)
(***************************************************************************)
EXTENDS Integers, FiniteSets

CONSTANTS MAX_TASKS,   \* slots of the task table (125)
          MaxDelay,    \* longest sleep, in timer interrupts (bound of the model)
          Signalable   \* tasks some program or shortcut signals

Task == 0 .. MAX_TASKS - 1
None == -1

(* The idle task runs kernel code and no program signals it: sysmon spares *)
(* the first pids, the shell and the terminal signal their own children,   *)
(* and the shortcut signals the owner of a window.                         *)
ASSUME TasksAssumption ==
    /\ MAX_TASKS \in Nat /\ MAX_TASKS >= 2
    /\ MaxDelay \in Nat
    /\ Signalable \subseteq Task \ {0}

VARIABLES state,      \* [Task -> TaskState]
          current,    \* current_task: the running task, None until the first switch
          halted,     \* the running task waits in sys_exit to be switched out
          delay,      \* timer interrupts until a sleeping task may wake
          pending,    \* [Task -> SUBSET Signal]: pending_signals
          exit_code   \* [Task -> Code]

vars == <<state, current, halted, delay, pending, exit_code>>

TaskState == {"Null", "Reserved", "Ready", "Sleeping", "Zombie"}

(* Signals other than SIGKILL: those whose default action terminates       *)
(* (SIGINT, SIGQUIT, SIGTERM) and the rest.  No call installs a handler.   *)
Signal == {"Terminating", "Other"}

(* 0xDEAD, what a task passed to exit, or what a fresh slot holds. *)
Code == {"Dead", "Own", "Zero"}

TypeOK ==
    /\ state \in [Task -> TaskState]
    /\ current \in Task \cup {None}
    /\ halted \in BOOLEAN
    /\ delay \in [Task -> 0 .. MaxDelay]
    /\ pending \in [Task -> SUBSET Signal]
    /\ exit_code \in [Task -> Code]

Init ==
    /\ state = [t \in Task |-> IF t <= 1 THEN "Ready" ELSE "Null"]
    /\ current = None
    /\ halted = FALSE
    /\ delay = [t \in Task |-> 0]
    /\ pending = [t \in Task |-> {}]
    /\ exit_code = [t \in Task |-> "Zero"]

Alive == {t \in Task : state[t] \notin {"Null", "Zombie"}}

-----------------------------------------------------------------------------
(* The scheduler.                                                          *)

(* The task i places after the running one, round the table; the boot code *)
(* counts as place -1.                                                     *)
After(i) == (current + i) % MAX_TASKS

(* Variant of NextTask: the scan starts at the front of the table. *)
NextFromFront(st) ==
    IF \E t \in Task : st[t] = "Ready"
    THEN CHOOSE t \in Task : st[t] = "Ready" /\ \A u \in 0 .. t - 1 : st[u] # "Ready"
    ELSE None

(* get_next_task: the first ready task after the running one, which comes  *)
(* last itself.                                                            *)
NextTask(st) ==
    IF \E i \in 1 .. MAX_TASKS : st[After(i)] = "Ready"
    THEN After(CHOOSE i \in 1 .. MAX_TASKS :
                  /\ st[After(i)] = "Ready"
                  /\ \A j \in 1 .. i - 1 : st[After(j)] # "Ready")
    ELSE None

(* Variant of Woken: everybody is woken. *)
WokenAll(st, left) ==
    [t \in Task |-> IF st[t] = "Sleeping" THEN "Ready" ELSE st[t]]

(* Variant of Woken: nobody is woken. *)
WokenNobody(st, left) == st

(* The states after schedule has woken the sleepers whose time has come. *)
Woken(st, left) ==
    [t \in Task |-> IF st[t] = "Sleeping" /\ left[t] = 0 THEN "Ready" ELSE st[t]]

(* Variant of Schedule: the pending signals of the next task are ignored. *)
ScheduleDeaf(st, codes, left) ==
    LET awake == Woken(st, left)
        next  == NextTask(awake)
    IN  /\ current' = next
        /\ halted' = IF next = None THEN halted ELSE FALSE
        /\ delay' = [t \in Task |-> IF awake[t] = "Sleeping" THEN left[t] ELSE 0]
        /\ state' = awake
        /\ exit_code' = codes
        /\ UNCHANGED pending

(* schedule, from the states st, exit codes and remaining delays the       *)
(* calling handler has set.  A pending terminating signal kills the task   *)
(* that is picked, which is resumed nevertheless, and stays pending.       *)
Schedule(st, codes, left) ==
    LET awake == Woken(st, left)
        next  == NextTask(awake)
        dies  == next # None /\ "Terminating" \in pending[next]
    IN  /\ current' = next
        /\ halted' = IF next = None THEN halted ELSE FALSE
        /\ delay' = [t \in Task |-> IF awake[t] = "Sleeping" THEN left[t] ELSE 0]
        /\ state' = [t \in Task |-> IF dies /\ t = next THEN "Zombie" ELSE awake[t]]
        /\ exit_code' = [t \in Task |-> IF dies /\ t = next THEN "Dead" ELSE codes[t]]
        /\ UNCHANGED pending

(* The timer interrupt advances the clock and switches. *)
Timer ==
    Schedule(state, exit_code,
             [t \in Task |-> IF delay[t] > 0 THEN delay[t] - 1 ELSE 0])

-----------------------------------------------------------------------------
(* What the running task does.                                             *)

(* The running task executes user code: it is neither the idle task nor    *)
(* halted at the end of sys_exit.  It need not be alive: a task that was   *)
(* killed while running keeps the processor until the next switch.         *)
UserCode == current \in Task \ {0} /\ ~halted

(* int 0x81 *)
Yield ==
    /\ UserCode
    /\ Schedule(state, exit_code, delay)

(* An exception in user code: kill_process(current, 9) and a switch. *)
Fault ==
    /\ UserCode
    /\ LET hit == {current} \cap Alive
       IN  Schedule([t \in Task |-> IF t \in hit THEN "Zombie" ELSE state[t]],
                    [t \in Task |-> IF t \in hit THEN "Dead" ELSE exit_code[t]],
                    [t \in Task |-> IF t \in hit THEN 0 ELSE delay[t]])

(* sys_sleep sets the state of the caller whatever it was; the caller goes *)
(* on until it yields or the timer strikes.                                *)
Sleep(n) ==
    /\ UserCode
    /\ state' = [state EXCEPT ![current] = "Sleeping"]
    /\ delay' = [delay EXCEPT ![current] = n]
    /\ UNCHANGED <<current, halted, pending, exit_code>>

(* sys_exit marks the task and halts in the kernel until the timer         *)
(* switches to another task.                                               *)
Exit ==
    /\ UserCode
    /\ state' = [state EXCEPT ![current] = "Zombie"]
    /\ delay' = [delay EXCEPT ![current] = 0]
    /\ exit_code' = [exit_code EXCEPT ![current] = "Own"]
    /\ halted' = TRUE
    /\ UNCHANGED <<current, pending>>


(* sys_waitpid on a zombie frees the slot.  On anything else it returns at *)
(* once and changes nothing.                                               *)
WaitPid(pid) ==
    /\ UserCode
    /\ state[pid] = "Zombie"
    /\ state' = [state EXCEPT ![pid] = "Null"]
    /\ pending' = [pending EXCEPT ![pid] = {}]
    /\ exit_code' = [exit_code EXCEPT ![pid] = "Zero"]
    /\ UNCHANGED <<current, halted, delay>>

-----------------------------------------------------------------------------
(* What any task, or a keyboard shortcut at any moment, does to others.    *)

(* Variant of Kill: the target need not be alive. *)
KillAnybody(pid) ==
    /\ pid \in Task
    /\ state' = [state EXCEPT ![pid] = "Zombie"]
    /\ delay' = [delay EXCEPT ![pid] = 0]
    /\ exit_code' = [exit_code EXCEPT ![pid] = "Dead"]
    /\ UNCHANGED <<current, halted, pending>>

(* kill_process(pid, 9) *)
Kill(pid) ==
    /\ pid \in Signalable \cap Alive
    /\ state' = [state EXCEPT ![pid] = "Zombie"]
    /\ delay' = [delay EXCEPT ![pid] = 0]
    /\ exit_code' = [exit_code EXCEPT ![pid] = "Dead"]
    /\ UNCHANGED <<current, halted, pending>>

(* kill_process(pid, sig) for the other signals; a sleeper is woken. *)
Post(pid, sig) ==
    /\ pid \in Signalable \cap Alive
    /\ pending' = [pending EXCEPT ![pid] = @ \cup {sig}]
    /\ state' = [state EXCEPT ![pid] = IF @ = "Sleeping" THEN "Ready" ELSE @]
    /\ delay' = [delay EXCEPT ![pid] = 0]
    /\ UNCHANGED <<current, halted, exit_code>>

Outcome == {"Started", "BadProgram", "NoMemory"}

(* spawn_process, by sys_spawn or the shortcut that starts a terminal: the *)
(* lowest free slot is reserved; if the program does not load it stays     *)
(* reserved; if the stacks cannot be allocated it is free again.           *)
Spawn(outcome) ==
    \E slot \in Task :
        /\ state[slot] = "Null"
        /\ \A t \in 0 .. slot - 1 : state[t] # "Null"
        /\ state' = [state EXCEPT ![slot] =
              CASE outcome = "Started"    -> "Ready"
                [] outcome = "BadProgram" -> "Reserved"
                [] outcome = "NoMemory"   -> "Null"]
        /\ UNCHANGED <<current, halted, delay, pending, exit_code>>

Next ==
    \/ Timer
    \/ Yield
    \/ Fault
    \/ \E n \in 0 .. MaxDelay : Sleep(n)
    \/ Exit
    \/ \E pid \in Task : WaitPid(pid)
    \/ \E pid \in Task : Kill(pid)
    \/ \E pid \in Task, sig \in Signal : Post(pid, sig)
    \/ \E outcome \in Outcome : Spawn(outcome)

(* The interval timer keeps interrupting: user code and the idle loop run  *)
(* with interrupts enabled, and every handler ends.                        *)
Fairness == WF_vars(Timer)

Spec == Init /\ [][Next]_vars /\ Fairness

-----------------------------------------------------------------------------
(* Properties.                                                             *)

(* The idle task can always be picked.  Otherwise a switch may find nothing *)
(* ready, and the switch after it scans the table for ever: get_next_task   *)
(* stops when it is back where it started, and from -1 it never is.         *)
IdleReady == state[0] = "Ready"

(* The signals sent to a task die with it: a slot that may be given to a   *)
(* new process holds none, or the process would die on its first slice.    *)
FreshStart == \A t \in Task : state[t] = "Null" => pending[t] = {}

(* The exit code of a dead task stays what its death made it until the     *)
(* parent collects it, however often it is killed again; only the task     *)
(* itself, if it still runs, can replace it.                               *)
ExitCodeKept ==
    [][\A t \in Task : state[t] = "Zombie" /\ state'[t] = "Zombie" /\ t # current
                           => exit_code'[t] = exit_code[t]]_vars

(* No starvation: a ready task runs, or is no longer ready. *)
ReadyRuns ==
    \A t \in Task : state[t] = "Ready" ~> (current = t \/ state[t] # "Ready")

(* A sleeping task wakes up. *)
SleeperWakes == \A t \in Task : state[t] = "Sleeping" ~> state[t] # "Sleeping"

(* A terminating signal kills every process it is sent to, also one that   *)
(* does nothing but sleep.                                                 *)
SignalKills ==
    \A t \in Task :
        /\ "Terminating" \in pending[t]
        /\ state[t] \in {"Ready", "Sleeping"}
        ~> state[t] \in {"Zombie", "Null"}

(* What the code says of the default action of SIGINT, SIGQUIT and SIGTERM *)
(* ("terminate"): a process that died does not come back to life, its slot *)
(* is only ever freed.  It does come back: it is resumed once more and may *)
(* call sys_sleep.                                                         *)
DeadStaysDead ==
    [][\A t \in Task : state[t] = "Zombie" => state'[t] \in {"Zombie", "Null"}]_vars
=============================================================================
