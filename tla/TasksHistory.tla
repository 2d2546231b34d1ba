---------------------------- MODULE TasksHistory ----------------------------
(***************************************************************************)
(* The scheduler of module Tasks with two history variables, which record  *)
(* what a user of the scheduler can observe over time and the kernel does  *)
(* not keep: how often a ready task has been passed over, and how long a   *)
(* sleeper has slept.                                                      *)
(***************************************************************************)
EXTENDS Tasks

VARIABLES passed,   \* [Task -> Nat]: switches in a row that left a ready task waiting
          slept,    \* [Task -> Nat]: timer interrupts since the task called sleep
          asked     \* [Task -> Nat]: timer interrupts it asked to sleep

hvars == <<vars, passed, slept, asked>>

HInit == /\ Init
         /\ passed = [t \in Task |-> 0]
         /\ slept = [t \in Task |-> 0]
         /\ asked = [t \in Task |-> 0]

(* One more, up to a bound from which on the count does not matter. *)
Counted(n, bound) == IF n < bound THEN n + 1 ELSE bound

(* A switch to another task that leaves t ready passes t over; the count   *)
(* stops at MAX_TASKS, which already is too much.                          *)
Switches ==
    passed' = [t \in Task |-> IF state'[t] = "Ready" /\ current' # t
                              THEN Counted(passed[t], MAX_TASKS) ELSE 0]

(* The clock of a sleeper runs until it leaves the state Sleeping; it      *)
(* stops at MaxDelay, which nobody asks to exceed.                         *)
ClockRuns(elapsed) ==
    /\ slept' = [t \in Task |-> CASE state'[t] # "Sleeping" -> 0
                                 [] elapsed = 1 -> Counted(slept[t], MaxDelay)
                                 [] OTHER -> slept[t]]
    /\ asked' = [t \in Task |-> IF state'[t] = "Sleeping" THEN asked[t] ELSE 0]

HTimer == Timer /\ Switches /\ ClockRuns(1)

HSwitch == (Yield \/ Fault) /\ Switches /\ ClockRuns(0)

HSleep(n) ==
    /\ Sleep(n)
    /\ slept' = [slept EXCEPT ![current] = 0]
    /\ asked' = [asked EXCEPT ![current] = n]
    /\ UNCHANGED passed

Others ==
    \/ Exit
    \/ \E pid \in Task : WaitPid(pid)
    \/ \E pid \in Task : Kill(pid)
    \/ \E pid \in Task, sig \in Signal : Post(pid, sig)
    \/ \E outcome \in Outcome : Spawn(outcome)

HNext == \/ HTimer
         \/ HSwitch
         \/ \E n \in 0 .. MaxDelay : HSleep(n)
         \/ Others /\ ClockRuns(0) /\ UNCHANGED passed

HSpec == HInit /\ [][HNext]_hvars /\ WF_hvars(HTimer)

-----------------------------------------------------------------------------

(* Round robin is fair in the strongest sense: a ready task is passed over *)
(* by at most MAX_TASKS - 1 switches in a row, whatever the others do -    *)
(* yield, sleep, fault, spawn or reap - in between.                        *)
BoundedBypass == \A t \in Task : passed[t] <= MAX_TASKS - 1

(* A task that sleeps wakes at the first switch after its time, neither    *)
(* before nor later, unless it is sent a signal.                           *)
SleepHonoured ==
    [][\A t \in Task :
          state[t] = "Sleeping" =>
             LET now == slept[t] + (IF HTimer THEN 1 ELSE 0)
             IN  /\ state'[t] = "Ready" => now >= asked[t] \/ \E sig \in Signal : Post(t, sig)
                 /\ state'[t] = "Sleeping" /\ (HTimer \/ HSwitch) => now < asked[t]
      ]_hvars
=============================================================================
