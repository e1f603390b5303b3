\* Kernel stacks of two pages and one child that comes and goes.
SPECIFICATION Spec
CONSTANTS
    PTES = 16
    MemoryStart = 1
    MemoryEnd = 40
    KERNEL_STACK_PAGES = 2
    USER_STACK_PAGES = 1
    Pids = {0, 1}
    Programs <- MCPrograms
    InitProgram <- One
    Pages = {1, 4}
    Values = {5}
    MaxBuilds = 2
CHECK_DEADLOCK FALSE
INVARIANTS
    DmaReachesBuffer
