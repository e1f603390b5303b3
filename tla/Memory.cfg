\* Three tasks; an exec while all three exist does not find enough frames.
SPECIFICATION Spec
CONSTANTS
    PTES = 4
    MemoryStart = 1
    MemoryEnd = 36
    KERNEL_STACK_PAGES = 1
    USER_STACK_PAGES = 1
    Pids = {0, 1, 2}
    Programs <- MCPrograms
    InitProgram <- One
    Pages = {1, 4}
    Values = {5}
    MaxBuilds = 3
CHECK_DEADLOCK FALSE
INVARIANTS
    SpacesConsistent
    TrapContextCurrent
    NoAssertFails
PROPERTIES
    ImplementsPrivateMemory
