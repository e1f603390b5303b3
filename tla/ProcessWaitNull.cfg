\* waitpid with address 0 for the exit code.
SPECIFICATION Spec
CONSTANTS
    init = init
    t1 = t1
    t2 = t2
    t3 = t3
    Tcb = {init, t1, t2}
    INITPROC = init
    NoTask = NoTask
    ExitCodes = {0}
    MaxPid = 3
    WaitPids <- MCWaitPids
    Files = {"elf", "missing"}
    ExitCodePtrs = {"mapped", "null"}
    Unsupported = {}
INVARIANT
    WaitpidNeverPanics
