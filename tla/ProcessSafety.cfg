\* Four tasks at once: a family of three generations next to initproc.
SPECIFICATION Spec
CONSTANTS
    init = init
    t1 = t1
    t2 = t2
    t3 = t3
    Tcb = {init, t1, t2, t3}
    INITPROC = init
    NoTask = NoTask
    ExitCodes = {0, 7}
    MaxPid = 4
    WaitPids <- MCWaitPids
    Files = {"elf", "missing"}
    ExitCodePtrs = {"mapped"}
    Unsupported = {"trap", "call"}
SYMMETRY MCSymmetry
INVARIANTS
    TypeOK
    NoPanic
    SchedulerOwnsRunnable
    ChildrenMatchParents
    RootedAtInitproc
    PidsConserved
    KernelStacksMatchTasks
PROPERTIES
    OnlyParentReaps
    ImplementsTree
