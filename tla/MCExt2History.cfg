SPECIFICATION HSpec
CONSTANTS
    MAX_INODE = 4
    MAX_BLOCK = 4
    DIRECT = 2
    MaxLinks = 3
    SLOTS = 3
    Name <- MCName
    Home = "a"
    Handle = {h1, h2}
INVARIANT DiskSound
  
SYMMETRY MCSymmetry
