\* Tasks on three slots: the idle task and two processes, both of which may
\* be signalled, and sleeps of up to two timer interrupts.
SPECIFICATION Spec
CONSTANTS
    MAX_TASKS = 3
    MaxDelay = 2
    Signalable = {1, 2}
PROPERTY DeadStaysDead
