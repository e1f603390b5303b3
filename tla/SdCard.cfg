\* Calls for one sector, as the kernel makes them, and for two.
SPECIFICATION FairSpec
CONSTANTS
    Sectors = {0, 1, 2}
    Values = {a, b}
    Lens = {1, 2}
    TIMEOUT = 3
    RETRIES = 2
    None = None
\* the kernel panics on an error
CHECK_DEADLOCK FALSE
INVARIANTS
    DriverConsistent
    OkMeansDone
PROPERTIES
    EveryCallReturns
