\* Two processes that can own windows, three window slots.
SPECIFICATION DSpec
CONSTANTS
    SLOTS = 3
    REAR_Z = 3
    MaxId = 3
    MaxZ = 5
    Pid = {1, 2}
INVARIANT ShortcutKillsOwner
