\* Two processes that share and reopen one file, not there at first, and read
\* the console.
SPECIFICATION Spec
CONSTANTS
    Tasks = {1, 2}
    InitTask = 1
    Names = {1}
    InitFiles <- MCInitFiles
    PAGE_SIZE = 2
    CHUNK = 2
    Texts <- MCTexts
    Lens = {1, 3}
    FlagSets <- MCFlagSets
    Fds = {0, 1, 3}
    Closed = {3}
    MaxFds = 5
    MaxOpen = 2
    MaxSize = 4
    MaxKeys = 1
CHECK_DEADLOCK FALSE
INVARIANTS
    TablesConsistent
    ForkedWritersAppend
PROPERTIES
    ImplementsOpenFiles
