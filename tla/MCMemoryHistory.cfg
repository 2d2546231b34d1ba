SPECIFICATION HSpec
CONSTANTS
    MAX_TASKS = 3
    b1 = b1
    b2 = b2
    b3 = b3
    b4 = b4
    b5 = b5
    b6 = b6
    Block <- MCBlock
SYMMETRY MCSymmetry
INVARIANTS StackOwned NothingElseLeaks
