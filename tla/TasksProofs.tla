----------------------------- MODULE TasksProofs -----------------------------
(***************************************************************************)
(* For any number of tasks: the scheduler always finds a task, a fresh     *)
(* slot carries no signal of its last owner, exit codes are kept, and      *)
(* nobody is passed over more often than there are other tasks.            *)
(***************************************************************************)
EXTENDS TasksHistory, WellFoundedInduction, TLAPS

-----------------------------------------------------------------------------
(* The ring of tasks.                                                      *)

LEMMA ModOnce ==
    \A x \in 0 .. (2 * MAX_TASKS - 1) :
        x % MAX_TASKS = IF x < MAX_TASKS THEN x ELSE x - MAX_TASKS
<1> SUFFICES ASSUME NEW x \in 0 .. (2 * MAX_TASKS - 1)
             PROVE  x % MAX_TASKS = IF x < MAX_TASKS THEN x ELSE x - MAX_TASKS
  OBVIOUS
<1> USE TasksAssumption
<1>1. CASE x \in 0 .. (MAX_TASKS - 1)
  BY <1>1, SMTT(20)
<1>2. CASE x \in MAX_TASKS .. (2 * MAX_TASKS - 1)
  BY <1>2, SMTT(20)
<1> QED
  BY <1>1, <1>2

LEMMA AfterOnce ==
    ASSUME current \in Task \cup {None}, NEW i \in 1 .. MAX_TASKS
    PROVE  /\ After(i) = IF current + i < MAX_TASKS THEN current + i
                         ELSE current + i - MAX_TASKS
           /\ After(i) \in Task
<1> USE TasksAssumption DEF Task, None
<1>1. current + i \in 0 .. (2 * MAX_TASKS - 1) /\ current \in Int
  OBVIOUS
<1>2. (current + i) % MAX_TASKS
        = IF current + i < MAX_TASKS THEN current + i ELSE current + i - MAX_TASKS
  BY <1>1, ModOnce
<1> QED
  BY <1>1, <1>2 DEF After

(* How many places after the running task t stands; the running task       *)
(* itself stands last.                                                     *)
Dist(t) == IF t > current THEN t - current ELSE t - current + MAX_TASKS

LEMMA DistPlace ==
    ASSUME current \in Task \cup {None}, NEW t \in Task
    PROVE  /\ Dist(t) \in 1 .. MAX_TASKS
           /\ After(Dist(t)) = t
<1> USE TasksAssumption DEF Task, None
<1>1. Dist(t) \in 1 .. MAX_TASKS
  BY DEF Dist
<1>2. After(Dist(t)) = IF current + Dist(t) < MAX_TASKS THEN current + Dist(t)
                       ELSE current + Dist(t) - MAX_TASKS
  BY <1>1, AfterOnce
<1> QED
  BY <1>1, <1>2 DEF Dist

LEMMA LeastExists ==
    ASSUME NEW S \in SUBSET Nat, NEW e \in S
    PROVE  \E x \in S : \A y \in S : x <= y
<1> DEFINE R == {ss \in Nat \X Nat : ss[1] < ss[2]}
<1>1. IsWellFoundedOn(R, Nat)
  BY NatLessThanWellFounded DEF OpToRel
<1>2. PICK x \in S : \A y \in S : <<y, x>> \notin R
  BY <1>1, WFMin, Zenon
<1>3. ASSUME NEW y \in S PROVE x <= y
  <2>1. /\ <<y, x>> \in Nat \X Nat
        /\ <<y, x>>[1] = y /\ <<y, x>>[2] = x
    OBVIOUS
  <2>2. ~(y < x)
    BY <1>2, <2>1
  <2> QED
    BY <2>2
<1> QED
  BY <1>3

(* The task that is picked is ready and stands no further away than any    *)
(* other ready task.                                                       *)
LEMMA Picked ==
    ASSUME current \in Task \cup {None}, NEW st, NEW t \in Task, st[t] = "Ready"
    PROVE  \E i \in 1 .. MAX_TASKS :
               /\ NextTask(st) = After(i)
               /\ st[After(i)] = "Ready"
               /\ i <= Dist(t)
               /\ After(i) \in Task
<1> DEFINE S == {j \in 1 .. MAX_TASKS : st[After(j)] = "Ready"}
<1>1. Dist(t) \in S
  BY DistPlace
<1>2. S \in SUBSET Nat
  BY TasksAssumption
<1>3. PICK i \in S : \A j \in S : i <= j
  <2> HIDE DEF S
  <2> QED
    BY <1>1, <1>2, LeastExists
<1> DEFINE First(k) == /\ st[After(k)] = "Ready"
                       /\ \A j \in 1 .. k - 1 : st[After(j)] # "Ready"
<1>4. First(i)
  <2> SUFFICES ASSUME NEW j \in 1 .. i - 1 PROVE st[After(j)] # "Ready"
    OBVIOUS
  <2>1. j \in 1 .. MAX_TASKS /\ ~(i <= j)
    BY TasksAssumption
  <2> QED
    BY <1>3, <2>1
<1> DEFINE c == CHOOSE k \in 1 .. MAX_TASKS : First(k)
<1>5. c \in 1 .. MAX_TASKS /\ First(c)
  <2> HIDE DEF First
  <2> QED
    BY <1>4
<1>6. NextTask(st) = After(c)
  BY <1>3, Zenon DEF NextTask
<1> HIDE DEF c
<1>7. c <= Dist(t)
  <2>1. ~(Dist(t) \in 1 .. c - 1)
    BY <1>1, <1>5
  <2> QED
    BY <1>1, <1>5, <2>1, TasksAssumption
<1> QED
  BY <1>5, <1>6, <1>7, AfterOnce

-----------------------------------------------------------------------------
(* The inductive invariant: the idle task stays ready because nothing      *)
(* sends it a signal.                                                      *)

IInv == TypeOK /\ IdleReady /\ pending[0] = {} /\ FreshStart

LEMMA ZeroTask == 0 \in Task
  BY TasksAssumption DEF Task

(* Whatever states the calling handler has set, as long as the idle task   *)
(* is ready, a switch resumes a ready task; only that task may die.        *)
LEMMA ScheduleFacts ==
    ASSUME IInv, NEW st \in [Task -> TaskState], NEW codes \in [Task -> Code],
           NEW left \in [Task -> 0 .. MaxDelay], st[0] = "Ready",
           Schedule(st, codes, left)
    PROVE  /\ TypeOK' /\ IdleReady' /\ pending' = pending
           /\ current' = NextTask(Woken(st, left))
           /\ current' \in Task
           /\ \A t \in Task : state'[t] = "Null" => st[t] = "Null"
           /\ \A t \in Task : state'[t] = "Ready" => Woken(st, left)[t] = "Ready"
           /\ \A t \in Task : st[t] = "Zombie" => exit_code'[t] = codes[t]
<1> DEFINE awake == Woken(st, left)
           next  == NextTask(awake)
           dies  == next # None /\ "Terminating" \in pending[next]
<1>1. /\ awake \in [Task -> TaskState]
      /\ awake[0] = "Ready"
      /\ \A t \in Task : awake[t] = "Null" => st[t] = "Null"
      /\ \A t \in Task : st[t] = "Zombie" => awake[t] = "Zombie"
  BY ZeroTask DEF Woken, TaskState
<1>2. next \in Task /\ awake[next] = "Ready"
  <2> HIDE DEF awake
  <2> QED
    BY <1>1, ZeroTask, Picked DEF IInv, TypeOK
<1>3. /\ current' = next
      /\ halted' = IF next = None THEN halted ELSE FALSE
      /\ delay' = [t \in Task |-> IF awake[t] = "Sleeping" THEN left[t] ELSE 0]
      /\ state' = [t \in Task |-> IF dies /\ t = next THEN "Zombie" ELSE awake[t]]
      /\ exit_code' = [t \in Task |-> IF dies /\ t = next THEN "Dead" ELSE codes[t]]
      /\ pending' = pending
  BY Zenon DEF Schedule
<1>4. ~(dies /\ next = 0)
  BY DEF IInv
<1> HIDE DEF awake, next, dies
<1>5. TypeOK'
  <2>1. state' \in [Task -> TaskState]
    BY <1>1, <1>3 DEF TaskState
  <2>2. current' \in Task \cup {None}
    BY <1>2, <1>3
  <2>3. halted' \in BOOLEAN
    BY <1>3 DEF IInv, TypeOK
  <2>4. delay' \in [Task -> 0 .. MaxDelay]
    BY <1>3, TasksAssumption
  <2>5. pending' \in [Task -> SUBSET Signal]
    BY <1>3 DEF IInv, TypeOK
  <2>6. exit_code' \in [Task -> Code]
    BY <1>3 DEF Code
  <2> QED
    BY <2>1, <2>2, <2>3, <2>4, <2>5, <2>6 DEF TypeOK
<1>6. IdleReady'
  BY <1>1, <1>3, <1>4, ZeroTask DEF IdleReady
<1>7. current' = NextTask(Woken(st, left))
  BY <1>3 DEF next, awake
<1>8. \A t \in Task : state'[t] = "Ready" => Woken(st, left)[t] = "Ready"
  BY <1>3 DEF awake
<1>9. \A t \in Task : state'[t] = "Null" => st[t] = "Null"
  BY <1>1, <1>3
<1>10. \A t \in Task : st[t] = "Zombie" => exit_code'[t] = codes[t]
  BY <1>1, <1>2, <1>3
<1> QED
  BY <1>2, <1>3, <1>5, <1>6, <1>7, <1>8, <1>9, <1>10

(* The arguments the three switching handlers pass to schedule.            *)
TimerLeft  == [t \in Task |-> IF delay[t] > 0 THEN delay[t] - 1 ELSE 0]
FaultHit   == {current} \cap Alive
FaultState == [t \in Task |-> IF t \in FaultHit THEN "Zombie" ELSE state[t]]
FaultCodes == [t \in Task |-> IF t \in FaultHit THEN "Dead" ELSE exit_code[t]]
FaultLeft  == [t \in Task |-> IF t \in FaultHit THEN 0 ELSE delay[t]]

LEMMA TimerIs == Timer <=> Schedule(state, exit_code, TimerLeft)
  BY DEF Timer, TimerLeft

LEMMA FaultIs == Fault => UserCode /\ Schedule(FaultState, FaultCodes, FaultLeft)
  BY DEF Fault, FaultHit, FaultState, FaultCodes, FaultLeft

(* Every switch comes from states with a ready idle task in which a slot   *)
(* is free, or a task other than the running one is dead, only if it was.  *)
LEMMA Switching ==
    ASSUME IInv, Timer \/ Yield \/ Fault
    PROVE  \E st \in [Task -> TaskState], codes \in [Task -> Code],
              left \in [Task -> 0 .. MaxDelay] :
                /\ st[0] = "Ready"
                /\ Schedule(st, codes, left)
                /\ \A t \in Task : st[t] = "Null" => state[t] = "Null"
                /\ \A t \in Task : state[t] = "Zombie" =>
                      st[t] = "Zombie" /\ codes[t] = exit_code[t]
<1> USE DEF IInv, TypeOK, IdleReady
<1>1. CASE Timer
  <2>1. TimerLeft \in [Task -> 0 .. MaxDelay]
    BY TasksAssumption DEF TimerLeft
  <2> QED
    BY <1>1, <2>1, TimerIs
<1>2. CASE Yield
  BY <1>2 DEF Yield
<1>3. CASE Fault
  <2>1. /\ FaultState \in [Task -> TaskState]
        /\ FaultCodes \in [Task -> Code]
        /\ FaultLeft \in [Task -> 0 .. MaxDelay]
    BY TasksAssumption DEF FaultState, FaultCodes, FaultLeft, TaskState, Code
  <2>2. FaultState[0] = "Ready"
    BY <1>3, FaultIs, ZeroTask DEF FaultState, FaultHit, UserCode
  <2>3. \A t \in Task : FaultState[t] = "Null" => state[t] = "Null"
    BY DEF FaultState
  <2>4. \A t \in Task : state[t] = "Zombie" =>
            FaultState[t] = "Zombie" /\ FaultCodes[t] = exit_code[t]
    BY DEF FaultState, FaultCodes, FaultHit, Alive
  <2> QED
    BY <1>3, FaultIs, <2>1, <2>2, <2>3, <2>4
<1> QED
  BY <1>1, <1>2, <1>3
LEMMA SwitchKeeps == IInv /\ (Timer \/ Yield \/ Fault) => IInv'
<1> SUFFICES ASSUME IInv, Timer \/ Yield \/ Fault
             PROVE  IInv'
  OBVIOUS
<1>1. PICK st \in [Task -> TaskState], codes \in [Task -> Code],
           left \in [Task -> 0 .. MaxDelay] :
              /\ st[0] = "Ready"
              /\ Schedule(st, codes, left)
              /\ \A t \in Task : st[t] = "Null" => state[t] = "Null"
  BY Switching
<1>2. /\ TypeOK' /\ IdleReady' /\ pending' = pending
      /\ \A t \in Task : state'[t] = "Null" => st[t] = "Null"
  BY <1>1, ScheduleFacts
<1> QED
  BY <1>1, <1>2 DEF IInv, FreshStart

LEMMA InitIInv == Init => IInv
<1> SUFFICES ASSUME Init PROVE IInv
  OBVIOUS
<1> USE TasksAssumption, ZeroTask DEF Init
<1>1. state \in [Task -> TaskState] /\ exit_code \in [Task -> Code]
  BY DEF TaskState, Code
<1>2. /\ delay \in [Task -> 0 .. MaxDelay]
      /\ current \in Task \cup {None}
  OBVIOUS
<1>5. halted \in BOOLEAN
  BY Zenon
<1>3. pending \in [Task -> SUBSET Signal]
  BY Zenon
<1>4. IdleReady /\ pending[0] = {} /\ FreshStart
  BY DEF IdleReady, FreshStart
<1> QED
  BY <1>1, <1>2, <1>3, <1>4, <1>5 DEF IInv, TypeOK

(* The calls that do not switch change the state of a task other than the  *)
(* idle one, and post signals to none but tasks that are alive.            *)
LEMMA CallsKeep ==
    ASSUME IInv,
           \/ \E n \in 0 .. MaxDelay : Sleep(n)
           \/ Others
           \/ UNCHANGED vars
    PROVE  IInv'
<1> USE TasksAssumption, ZeroTask
    DEF IInv, TypeOK, IdleReady, FreshStart, TaskState, Code
<1>1. CASE \E n \in 0 .. MaxDelay : Sleep(n)
  BY <1>1 DEF Sleep, UserCode
<1>2. CASE Exit
  BY <1>2 DEF Exit, UserCode
<1>3. CASE \E pid \in Task : WaitPid(pid)
  BY <1>3 DEF WaitPid
<1>4. CASE \E pid \in Task : Kill(pid)
  BY <1>4 DEF Kill
<1>5. CASE \E pid \in Task, sig \in Signal : Post(pid, sig)
  <2>1. PICK pid \in Task, sig \in Signal : Post(pid, sig)
    BY <1>5
  <2>2. /\ pid \in Alive /\ pid # 0
        /\ pending' = [pending EXCEPT ![pid] = @ \cup {sig}]
        /\ state' = [state EXCEPT ![pid] = IF @ = "Sleeping" THEN "Ready" ELSE @]
        /\ delay' = [delay EXCEPT ![pid] = 0]
        /\ UNCHANGED <<current, halted, exit_code>>
    BY <2>1 DEF Post
  <2>3. /\ state' \in [Task -> TaskState]
        /\ pending' \in [Task -> SUBSET Signal]
        /\ delay' \in [Task -> 0 .. MaxDelay]
    BY <2>2
  <2>4. TypeOK'
    BY <2>2, <2>3
  <2>5. IdleReady' /\ pending'[0] = {}
    BY <2>2
  <2>6. FreshStart'
    BY <2>2 DEF Alive
  <2> QED
    BY <2>4, <2>5, <2>6
<1>6. CASE \E outcome \in Outcome : Spawn(outcome)
  <2>1. PICK outcome \in Outcome : Spawn(outcome)
    BY <1>6
  <2>2. PICK slot \in Task :
           /\ state[slot] = "Null"
           /\ state' = [state EXCEPT ![slot] =
                CASE outcome = "Started"    -> "Ready"
                  [] outcome = "BadProgram" -> "Reserved"
                  [] outcome = "NoMemory"   -> "Null"]
           /\ UNCHANGED <<current, halted, delay, pending, exit_code>>
    BY <2>1 DEF Spawn
  <2>3. slot # 0
    BY <2>2
  <2>4. state' \in [Task -> TaskState]
    BY <2>1, <2>2 DEF Outcome
  <2>5. FreshStart'
    BY <2>2
  <2> QED
    BY <2>2, <2>3, <2>4, <2>5
<1>7. CASE UNCHANGED vars
  BY <1>7 DEF vars
<1> QED
  BY <1>1, <1>2, <1>3, <1>4, <1>5, <1>6, <1>7 DEF Others

LEMMA NextKeeps == IInv /\ [Next]_vars => IInv'
  BY SwitchKeeps, CallsKeep DEF Next, Others

LEMMA Invariance == Spec => []IInv
<1> QED
  BY InitIInv, NextKeeps, PTL DEF Spec

(* Types of the scheduler's variables. *)
THEOREM TasksTypes == Spec => []TypeOK
<1>1. IInv => TypeOK
  BY DEF IInv
<1> QED
  BY <1>1, Invariance, PTL

(* The idle task is always ready, so that every switch finds a task to     *)
(* resume and the scan of the table ends.                                  *)
THEOREM TasksIdleReady == Spec => []IdleReady
<1>1. IInv => IdleReady
  BY DEF IInv
<1> QED
  BY <1>1, Invariance, PTL

(* A free slot holds no signal that the process placed in it next would    *)
(* die of.                                                                 *)
THEOREM TasksFreshStart == Spec => []FreshStart
<1>1. IInv => FreshStart
  BY DEF IInv
<1> QED
  BY <1>1, Invariance, PTL

-----------------------------------------------------------------------------
(* Exit codes.                                                             *)

CodesKept ==
    \A t \in Task : state[t] = "Zombie" /\ state'[t] = "Zombie" /\ t # current
                       => exit_code'[t] = exit_code[t]

LEMMA StepKeepsCodes == IInv /\ [Next]_vars => CodesKept
<1> SUFFICES ASSUME IInv, [Next]_vars PROVE CodesKept
  OBVIOUS
<1> USE DEF IInv, TypeOK, CodesKept
<1>1. CASE Timer \/ Yield \/ Fault
  <2>1. PICK st \in [Task -> TaskState], codes \in [Task -> Code],
             left \in [Task -> 0 .. MaxDelay] :
                /\ st[0] = "Ready"
                /\ Schedule(st, codes, left)
                /\ \A t \in Task : state[t] = "Zombie" =>
                      st[t] = "Zombie" /\ codes[t] = exit_code[t]
    BY <1>1, Switching
  <2>2. \A t \in Task : st[t] = "Zombie" => exit_code'[t] = codes[t]
    BY <2>1, ScheduleFacts
  <2> QED
    BY <2>1, <2>2
<1>2. CASE \E n \in 0 .. MaxDelay : Sleep(n)
  BY <1>2 DEF Sleep
<1>3. CASE Exit
  BY <1>3 DEF Exit
<1>4. CASE \E pid \in Task : WaitPid(pid)
  BY <1>4 DEF WaitPid
<1>5. CASE \E pid \in Task : Kill(pid)
  BY <1>5 DEF Kill, Alive
<1>6. CASE \E pid \in Task, sig \in Signal : Post(pid, sig)
  BY <1>6 DEF Post
<1>7. CASE \E outcome \in Outcome : Spawn(outcome)
  BY <1>7 DEF Spawn
<1>8. CASE UNCHANGED vars
  BY <1>8 DEF vars
<1> QED
  BY <1>1, <1>2, <1>3, <1>4, <1>5, <1>6, <1>7, <1>8 DEF Next

(* What a parent collects with waitpid is what the death of its child left *)
(* there, unless the child itself still ran.                               *)
THEOREM TasksExitCodeKept == Spec => ExitCodeKept
<1>1. IInv /\ [Next]_vars =>
        [\A t \in Task : state[t] = "Zombie" /\ state'[t] = "Zombie" /\ t # current
                           => exit_code'[t] = exit_code[t]]_vars
  BY StepKeepsCodes DEF CodesKept
<1> QED
  BY <1>1, Invariance, PTL DEF Spec, ExitCodeKept

-----------------------------------------------------------------------------
(* Bounded bypass: a ready task that has been passed over n times stands   *)
(* at most MAX_TASKS - n places after the running one, because each switch *)
(* moves the running place towards it and cannot jump over it.             *)

HInv == /\ IInv
        /\ passed \in [Task -> Nat]
        /\ \A t \in Task : passed[t] + Dist(t) <= MAX_TASKS

LEMMA SwitchMovesCloser ==
    ASSUME HInv, Timer \/ Yield \/ Fault, Switches
    PROVE  HInv'
<1> USE TasksAssumption
<1>1. PICK st \in [Task -> TaskState], codes \in [Task -> Code],
           left \in [Task -> 0 .. MaxDelay] :
              /\ st[0] = "Ready"
              /\ Schedule(st, codes, left)
  BY Switching DEF HInv
<1> DEFINE awake == Woken(st, left)
<1>2. /\ current' = NextTask(awake)
      /\ current' \in Task
      /\ \A t \in Task : state'[t] = "Ready" => awake[t] = "Ready"
  BY <1>1, ScheduleFacts DEF HInv
<1>3. IInv'
  BY SwitchKeeps DEF HInv
<1>4. passed' \in [Task -> Nat]
  <2>1. \A t \in Task : Counted(passed[t], MAX_TASKS) \in Nat
    BY DEF HInv, Counted
  <2> QED
    BY <2>1 DEF Switches
<1> HIDE DEF awake
<1>5. ASSUME NEW t \in Task PROVE passed'[t] + Dist(t)' <= MAX_TASKS
  <2>1. Dist(t)' \in 1 .. MAX_TASKS
    BY <1>2 DEF Dist, Task
  <2>2. CASE state'[t] = "Ready" /\ current' # t
    <3>1. current \in Task \cup {None} /\ awake[t] = "Ready"
      BY <1>2, <2>2 DEF HInv, IInv, TypeOK
    <3>2. PICK i \in 1 .. MAX_TASKS : current' = After(i) /\ i <= Dist(t)
      BY <1>2, <3>1, Picked
    <3>3. Dist(t) \in 1 .. MAX_TASKS /\ i # Dist(t)
      BY <2>2, <3>1, <3>2, DistPlace
    <3>4. current' = IF current + i < MAX_TASKS THEN current + i
                     ELSE current + i - MAX_TASKS
      BY <3>1, <3>2, AfterOnce
    <3>5. Dist(t)' = Dist(t) - i
      BY <3>1, <3>2, <3>3, <3>4 DEF Dist, Task, None
    <3>6. passed'[t] = passed[t] + 1
      <4>1. passed'[t] = Counted(passed[t], MAX_TASKS)
        BY <2>2 DEF Switches
      <4>2. passed[t] \in Nat /\ passed[t] < MAX_TASKS
        BY <3>3 DEF HInv
      <4> QED
        BY <4>1, <4>2 DEF Counted
    <3> QED
      BY <3>2, <3>3, <3>5, <3>6 DEF HInv
  <2>3. CASE ~(state'[t] = "Ready" /\ current' # t)
    BY <2>1, <2>3 DEF Switches
  <2> QED
    BY <2>2, <2>3
<1> QED
  BY <1>3, <1>4, <1>5 DEF HInv

LEMMA InitHInv == HInit => HInv
  BY InitIInv, TasksAssumption DEF HInit, HInv, Init, Dist, Task, None

LEMMA HNextKeeps == HInv /\ [HNext]_hvars => HInv'
<1> SUFFICES ASSUME HInv, [HNext]_hvars PROVE HInv'
  OBVIOUS
<1>1. CASE HTimer
  BY <1>1, SwitchMovesCloser DEF HTimer
<1>2. CASE HSwitch
  BY <1>2, SwitchMovesCloser DEF HSwitch
<1>3. ASSUME IInv', UNCHANGED <<current, passed>> PROVE HInv'
  <2>1. \A t \in Task : Dist(t)' = Dist(t)
    BY <1>3 DEF Dist
  <2> QED
    BY <1>3, <2>1 DEF HInv
<1>4. CASE \E n \in 0 .. MaxDelay : HSleep(n)
  <2>1. IInv' /\ UNCHANGED <<current, passed>>
    BY <1>4, CallsKeep DEF HInv, HSleep, Sleep
  <2> QED
    BY <1>3, <2>1
<1>5. CASE Others /\ UNCHANGED passed
  <2>1. IInv' /\ UNCHANGED <<current, passed>>
    BY <1>5, CallsKeep
    DEF HInv, Others, Exit, WaitPid, Kill, Post, Spawn
  <2> QED
    BY <1>3, <2>1
<1>6. CASE UNCHANGED hvars
  <2>1. IInv' /\ UNCHANGED <<current, passed>>
    BY <1>6, CallsKeep DEF HInv, hvars, vars
  <2> QED
    BY <1>3, <2>1
<1> QED
  BY <1>1, <1>2, <1>4, <1>5, <1>6 DEF HNext

(* Round robin: between two turns of a ready task every other task has at  *)
(* most one.                                                               *)
THEOREM TasksBoundedBypass == HSpec => []BoundedBypass
<1>1. HInv => BoundedBypass
  <2> SUFFICES ASSUME HInv, NEW t \in Task PROVE passed[t] <= MAX_TASKS - 1
    BY DEF BoundedBypass
  <2>1. Dist(t) \in 1 .. MAX_TASKS
    BY DistPlace DEF HInv, IInv, TypeOK
  <2> QED
    BY <2>1, TasksAssumption DEF HInv
<1> QED
  BY <1>1, InitHInv, HNextKeeps, PTL DEF HSpec

-----------------------------------------------------------------------------
(* Sleep: what a sleeper has slept and what it still has to sleep add up   *)
(* to what it asked for, whoever switches, and a switch wakes it when      *)
(* nothing is left.                                                        *)

SInv == /\ IInv
        /\ slept \in [Task -> Nat]
        /\ asked \in [Task -> 0 .. MaxDelay]
        /\ \A t \in Task : state[t] = "Sleeping" => slept[t] + delay[t] = asked[t]

LEMMA ScheduleSleeper ==
    ASSUME IInv, NEW st, NEW codes, NEW left, Schedule(st, codes, left), NEW t \in Task
    PROVE  /\ state'[t] = "Ready" /\ st[t] = "Sleeping" => left[t] = 0
           /\ state'[t] = "Sleeping" =>
                 st[t] = "Sleeping" /\ left[t] # 0 /\ delay'[t] = left[t]
<1> DEFINE awake == Woken(st, left)
           next  == NextTask(awake)
           dies  == next # None /\ "Terminating" \in pending[next]
<1>1. /\ delay' = [u \in Task |-> IF awake[u] = "Sleeping" THEN left[u] ELSE 0]
      /\ state' = [u \in Task |-> IF dies /\ u = next THEN "Zombie" ELSE awake[u]]
  BY Zenon DEF Schedule
<1>2. awake[t] = IF st[t] = "Sleeping" /\ left[t] = 0 THEN "Ready" ELSE st[t]
  BY DEF Woken
<1> HIDE DEF awake, next, dies
<1> QED
  BY <1>1, <1>2

(* What a timer interrupt and the other switches do to a sleeper.          *)
LEMMA TimerSleeper ==
    ASSUME IInv, Timer, NEW t \in Task
    PROVE  /\ state'[t] = "Ready" /\ state[t] = "Sleeping" => delay[t] <= 1
           /\ state'[t] = "Sleeping" =>
                 state[t] = "Sleeping" /\ delay[t] > 1 /\ delay'[t] = delay[t] - 1
<1>1. /\ state'[t] = "Ready" /\ state[t] = "Sleeping" => TimerLeft[t] = 0
      /\ state'[t] = "Sleeping" =>
            state[t] = "Sleeping" /\ TimerLeft[t] # 0 /\ delay'[t] = TimerLeft[t]
  BY TimerIs, ScheduleSleeper
<1>2. delay[t] \in Nat
  BY TasksAssumption DEF IInv, TypeOK
<1> QED
  BY <1>1, <1>2 DEF TimerLeft

LEMMA SwitchSleeper ==
    ASSUME IInv, Yield \/ Fault, NEW t \in Task
    PROVE  /\ state'[t] = "Ready" /\ state[t] = "Sleeping" => delay[t] = 0
           /\ state'[t] = "Sleeping" =>
                 state[t] = "Sleeping" /\ delay[t] # 0 /\ delay'[t] = delay[t]
<1>1. CASE Yield
  BY <1>1, ScheduleSleeper DEF Yield
<1>2. CASE Fault
  <2>1. /\ state'[t] = "Ready" /\ FaultState[t] = "Sleeping" => FaultLeft[t] = 0
        /\ state'[t] = "Sleeping" =>
              /\ FaultState[t] = "Sleeping" /\ FaultLeft[t] # 0
              /\ delay'[t] = FaultLeft[t]
        /\ state'[t] = "Ready" => Woken(FaultState, FaultLeft)[t] = "Ready"
    <3>1. Schedule(FaultState, FaultCodes, FaultLeft)
      BY <1>2, FaultIs
    <3>2. state'[t] = "Ready" => Woken(FaultState, FaultLeft)[t] = "Ready"
      <4> DEFINE awake == Woken(FaultState, FaultLeft)
                 next  == NextTask(awake)
                 dies  == next # None /\ "Terminating" \in pending[next]
      <4>1. state' = [u \in Task |-> IF dies /\ u = next THEN "Zombie" ELSE awake[u]]
        BY <3>1, Zenon DEF Schedule
      <4> HIDE DEF awake, next, dies
      <4>2. state'[t] = "Ready" => awake[t] = "Ready"
        BY <4>1
      <4> QED
        BY <4>2 DEF awake
    <3> QED
      BY <3>1, <3>2, ScheduleSleeper
  <2>2. CASE t \in FaultHit
    BY <2>1, <2>2 DEF FaultState, Woken
  <2>3. CASE t \notin FaultHit
    BY <2>1, <2>3 DEF FaultState, FaultLeft
  <2> QED
    BY <2>2, <2>3
<1> QED
  BY <1>1, <1>2

LEMMA InitSInv == HInit => SInv
<1> SUFFICES ASSUME HInit PROVE SInv
  OBVIOUS
<1>1. IInv
  BY InitIInv DEF HInit
<1>2. slept \in [Task -> Nat] /\ asked \in [Task -> 0 .. MaxDelay]
  BY TasksAssumption DEF HInit
<1>3. \A t \in Task : state[t] # "Sleeping"
  BY DEF HInit, Init
<1> QED
  BY <1>1, <1>2, <1>3 DEF SInv

LEMMA ClocksTyped ==
    ASSUME SInv, NEW e \in {0, 1}, ClockRuns(e)
    PROVE  slept' \in [Task -> Nat] /\ asked' \in [Task -> 0 .. MaxDelay]
<1>1. \A t \in Task : Counted(slept[t], MaxDelay) \in Nat
  BY TasksAssumption DEF SInv, Counted
<1>2. slept' \in [Task -> Nat]
  BY <1>1 DEF ClockRuns, SInv
<1>3. asked' \in [Task -> 0 .. MaxDelay]
  BY TasksAssumption DEF ClockRuns, SInv
<1> QED
  BY <1>2, <1>3

LEMMA TimerKeepsClocks == SInv /\ HTimer => SInv'
<1> SUFFICES ASSUME SInv, HTimer PROVE SInv'
  OBVIOUS
<1>1. IInv' /\ Timer /\ ClockRuns(1) /\ IInv
  BY SwitchKeeps DEF SInv, HTimer
<1>2. ASSUME NEW t \in Task, state'[t] = "Sleeping"
      PROVE  slept'[t] + delay'[t] = asked'[t]
  <2>1. state[t] = "Sleeping" /\ delay[t] > 1 /\ delay'[t] = delay[t] - 1
    BY <1>1, <1>2, TimerSleeper
  <2>2. /\ slept[t] + delay[t] = asked[t]
        /\ slept[t] \in Nat /\ delay[t] \in Nat /\ asked[t] \in 0 .. MaxDelay
    BY <1>1, <2>1, TasksAssumption DEF SInv, IInv, TypeOK
  <2>3. slept'[t] = Counted(slept[t], MaxDelay) /\ asked'[t] = asked[t]
    BY <1>1, <1>2 DEF ClockRuns
  <2>4. slept'[t] = slept[t] + 1
    BY <2>1, <2>2, <2>3, TasksAssumption DEF Counted
  <2> QED
    BY <2>1, <2>2, <2>3, <2>4
<1> QED
  BY <1>1, <1>2, ClocksTyped DEF SInv

LEMMA SwitchKeepsClocks == SInv /\ HSwitch => SInv'
<1> SUFFICES ASSUME SInv, HSwitch PROVE SInv'
  OBVIOUS
<1>1. IInv' /\ (Yield \/ Fault) /\ ClockRuns(0) /\ IInv
  BY SwitchKeeps DEF SInv, HSwitch
<1>2. ASSUME NEW t \in Task, state'[t] = "Sleeping"
      PROVE  slept'[t] + delay'[t] = asked'[t]
  <2>1. state[t] = "Sleeping" /\ delay'[t] = delay[t]
    BY <1>1, <1>2, SwitchSleeper
  <2>2. slept'[t] = slept[t] /\ asked'[t] = asked[t]
    BY <1>1, <1>2 DEF ClockRuns
  <2> QED
    BY <2>1, <2>2 DEF SInv
<1> QED
  BY <1>1, <1>2, ClocksTyped DEF SInv

(* The calls that do not switch touch the clock of no sleeper but one they *)
(* wake or kill.                                                           *)
LEMMA OthersSpareSleepers ==
    ASSUME IInv, Others, NEW t \in Task
    PROVE  /\ state'[t] = "Sleeping" => state[t] = "Sleeping" /\ delay'[t] = delay[t]
           /\ state[t] = "Sleeping" /\ state'[t] = "Ready" =>
                 \E sig \in Signal : Post(t, sig)
<1> USE DEF IInv, TypeOK
<1>1. CASE Exit
  BY <1>1 DEF Exit, UserCode
<1>2. CASE \E pid \in Task : WaitPid(pid)
  BY <1>2 DEF WaitPid
<1>3. CASE \E pid \in Task : Kill(pid)
  BY <1>3 DEF Kill
<1>4. CASE \E pid \in Task, sig \in Signal : Post(pid, sig)
  <2>1. PICK pid \in Task, sig \in Signal : Post(pid, sig)
    BY <1>4
  <2>2. /\ state' = [state EXCEPT ![pid] = IF @ = "Sleeping" THEN "Ready" ELSE @]
        /\ delay' = [delay EXCEPT ![pid] = 0]
    BY <2>1 DEF Post
  <2>3. CASE t = pid
    <3>1. state'[t] = IF state[t] = "Sleeping" THEN "Ready" ELSE state[t]
      BY <2>2, <2>3
    <3> QED
      BY <2>1, <2>3, <3>1
  <2>4. CASE t # pid
    BY <2>2, <2>4
  <2> QED
    BY <2>3, <2>4
<1>5. CASE \E outcome \in Outcome : Spawn(outcome)
  <2>1. PICK outcome \in Outcome : Spawn(outcome)
    BY <1>5
  <2>2. PICK slot \in Task :
           /\ state[slot] = "Null"
           /\ state' = [state EXCEPT ![slot] =
                CASE outcome = "Started"    -> "Ready"
                  [] outcome = "BadProgram" -> "Reserved"
                  [] outcome = "NoMemory"   -> "Null"]
           /\ delay' = delay
    BY <2>1 DEF Spawn
  <2> QED
    BY <2>1, <2>2 DEF Outcome
<1> QED
  BY <1>1, <1>2, <1>3, <1>4, <1>5 DEF Others

LEMMA ClocksKept == SInv /\ [HNext]_hvars => SInv'
<1> SUFFICES ASSUME SInv, [HNext]_hvars PROVE SInv'
  OBVIOUS
<1> USE TasksAssumption
<1>1. CASE \E n \in 0 .. MaxDelay : HSleep(n)
  <2>1. PICK n \in 0 .. MaxDelay : HSleep(n)
    BY <1>1
  <2>2. IInv'
    BY <2>1, CallsKeep DEF HSleep, SInv
  <2>3. /\ state' = [state EXCEPT ![current] = "Sleeping"]
        /\ delay' = [delay EXCEPT ![current] = n]
        /\ slept' = [slept EXCEPT ![current] = 0]
        /\ asked' = [asked EXCEPT ![current] = n]
    BY <2>1 DEF HSleep, Sleep
  <2>4. slept' \in [Task -> Nat] /\ asked' \in [Task -> 0 .. MaxDelay]
    BY <2>3 DEF SInv
  <2>5. \A t \in Task : state'[t] = "Sleeping" => slept'[t] + delay'[t] = asked'[t]
    BY <2>3 DEF SInv, IInv, TypeOK
  <2> QED
    BY <2>2, <2>4, <2>5 DEF SInv
<1>2. CASE Others /\ ClockRuns(0)
  <2>1. IInv'
    BY <1>2, CallsKeep DEF SInv
  <2>2. ASSUME NEW t \in Task, state'[t] = "Sleeping"
        PROVE  slept'[t] + delay'[t] = asked'[t]
    <3>1. state[t] = "Sleeping" /\ delay'[t] = delay[t]
      BY <1>2, <2>2, OthersSpareSleepers DEF SInv
    <3>2. slept'[t] = slept[t] /\ asked'[t] = asked[t]
      BY <1>2, <2>2 DEF ClockRuns
    <3> QED
      BY <3>1, <3>2 DEF SInv
  <2> QED
    BY <1>2, <2>1, <2>2, ClocksTyped DEF SInv
<1>3. CASE UNCHANGED hvars
  <2>1. IInv'
    BY <1>3, CallsKeep DEF SInv, hvars
  <2> QED
    BY <1>3, <2>1 DEF SInv, hvars, vars
<1> QED
  BY <1>1, <1>2, <1>3, TimerKeepsClocks, SwitchKeepsClocks DEF HNext

Honoured ==
    \A t \in Task :
        state[t] = "Sleeping" =>
           LET now == slept[t] + (IF HTimer THEN 1 ELSE 0)
           IN  /\ state'[t] = "Ready" => now >= asked[t] \/ \E sig \in Signal : Post(t, sig)
               /\ state'[t] = "Sleeping" /\ (HTimer \/ HSwitch) => now < asked[t]

LEMMA StepHonours == SInv /\ [HNext]_hvars => Honoured \/ UNCHANGED hvars
<1> SUFFICES ASSUME SInv, HNext, NEW t \in Task, state[t] = "Sleeping"
             PROVE  /\ state'[t] = "Ready" =>
                         \/ slept[t] + (IF HTimer THEN 1 ELSE 0) >= asked[t]
                         \/ \E sig \in Signal : Post(t, sig)
                    /\ state'[t] = "Sleeping" /\ (HTimer \/ HSwitch) =>
                         slept[t] + (IF HTimer THEN 1 ELSE 0) < asked[t]
  BY Zenon DEF Honoured
<1>1. /\ slept[t] + delay[t] = asked[t]
      /\ slept[t] \in Nat /\ delay[t] \in Nat /\ IInv
  BY TasksAssumption DEF SInv, IInv, TypeOK
<1>2. CASE HTimer
  <2>1. /\ state'[t] = "Ready" => delay[t] <= 1
        /\ state'[t] = "Sleeping" => delay[t] > 1
    BY <1>1, <1>2, TimerSleeper DEF HTimer
  <2> QED
    BY <1>1, <1>2, <2>1
<1>3. CASE HSwitch /\ ~HTimer
  <2>1. /\ state'[t] = "Ready" => delay[t] = 0
        /\ state'[t] = "Sleeping" => delay[t] # 0
    BY <1>1, <1>3, SwitchSleeper DEF HSwitch
  <2> QED
    BY <1>1, <1>3, <2>1
<1>4. CASE ~HSwitch /\ ~HTimer
  <2>1. CASE \E n \in 0 .. MaxDelay : HSleep(n)
    BY <2>1, <1>4 DEF HSleep, Sleep, SInv, IInv, TypeOK
  <2>2. CASE Others
    BY <1>1, <1>4, <2>2, OthersSpareSleepers
  <2> QED
    BY <1>4, <2>1, <2>2 DEF HNext
<1> QED
  BY <1>2, <1>3, <1>4

(* A sleeper is woken by the first switch after its time and by no earlier *)
(* one, whatever the others do meanwhile; only a signal wakes it sooner    *)
(* (sys_sleep, schedule, kill_process).                                    *)
THEOREM TasksSleepHonoured == HSpec => SleepHonoured
<1>1. SInv /\ [HNext]_hvars =>
        [\A t \in Task :
          state[t] = "Sleeping" =>
             LET now == slept[t] + (IF HTimer THEN 1 ELSE 0)
             IN  /\ state'[t] = "Ready" => now >= asked[t] \/ \E sig \in Signal : Post(t, sig)
                 /\ state'[t] = "Sleeping" /\ (HTimer \/ HSwitch) => now < asked[t]
        ]_hvars
  BY StepHonours, Zenon DEF Honoured
<1> QED
  BY <1>1, InitSInv, ClocksKept, PTL DEF HSpec, SleepHonoured
=============================================================================
