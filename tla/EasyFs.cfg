\* Three names but inodes for two, on a disk that two large files do not fit on.
SPECIFICATION Spec
CONSTANTS
    BLOCK_WORDS = 2
    BLOCK_BITS = 3
    INODES_PER_BLOCK = 4
    INODE_DIRECT_COUNT = 1
    TotalBlocks = 21
    InodeBitmapBlocks = 1
    Names = {1, 2, 3}
    Writes <- MCWrites
    Reads <- MCReads
CHECK_DEADLOCK FALSE
INVARIANTS
    DiskConsistent
    UnusedIsZero
    NoAssertFails
PROPERTIES
    ImplementsFileStore
