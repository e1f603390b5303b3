\* Two clients that may hold every entry of the cache between them: blocks
\* are shared, changed during a sync, and the cache can run out.
SPECIFICATION Spec
CONSTANTS
    Block = {b1, b2, b3}
    Data = {d1, d2}
    Client = {c1, c2}
    Obj = {o1, o2, o3}
    CacheSize = 2
    MaxPins = 2
    NoReply = NoReply
    Crashed = Crashed
SYMMETRY MCSymmetry
CHECK_DEADLOCK FALSE
INVARIANTS
    CacheConsistent
    UnmodifiedMatchesDisk
    SyncAllIsDurable
    ExhaustedOnlyWhenHeld
PROPERTIES
    ImplementsStore
