\* Two files that grow into the doubly indirect blocks, and a crash.
SPECIFICATION CrashSpec
CONSTANTS
    BLOCK_WORDS = 2
    BLOCK_BITS = 4
    INODES_PER_BLOCK = 4
    INODE_DIRECT_COUNT = 1
    TotalBlocks = 21
    InodeBitmapBlocks = 1
    Names = {1, 2}
    Writes <- MCWrites
    Reads <- MCReads
CHECK_DEADLOCK FALSE
INVARIANTS
    OthersSurviveCrash
    IndexNamesOwnBlocks
