SPECIFICATION HSpec
CONSTANTS
    MAX_TASKS = 3
    MaxDelay = 2
    Signalable <- MCSignalable
INVARIANTS IdleReady BoundedBypass
PROPERTIES ExitCodeKept SleepHonoured ReadyRuns SleeperWakes SignalKills
