SPECIFICATION Spec
CONSTANTS
    MAX_ALLOCS = 5
    LOW = 1
    Ram <- MCRam
    total_ram = 9
    Pid <- MCPid
    MaxPages = 3
INVARIANT NoCollision
PROPERTY ImplementsStore
