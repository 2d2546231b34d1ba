\* Three task slots, two descriptors each and two handles: a pipe and its
\* reuse, duplicate inheritance, a full descriptor table, a full handle table,
\* a stale table in a free slot and a dead task that opens files all occur.
CONSTANTS
    MAX_TASKS = 3
    MAX_FDS = 2
    FIRST = 3
    MAX_OPEN = 5
    MaxRef = 4
    Signalable = {1, 2}
    NoFile = NoFile
    Regular = Regular
SPECIFICATION Spec
INVARIANTS NoDangling RefsCounted ClosedIffEndGone
PROPERTY LeaksOnlyWhereKnown
