--------------------------- MODULE MCTasksHistory ---------------------------
(* TasksHistory on three slots: the idle task and two processes, both of   *)
(* which may be signalled, and sleeps of up to two timer interrupts.       *)
EXTENDS TasksHistory

MCSignalable == {1, 2}
=============================================================================
