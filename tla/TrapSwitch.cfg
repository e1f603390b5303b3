CONSTANTS
    Pids = {0, 1}
    Frames = {f1, f2, f3, f4, f5}
    Tps = {t1, t2}
    None = None
    UserRegs <- MCUserRegs
    AppRegs <- MCAppRegs
SPECIFICATION Spec
SYMMETRY Symmetry
INVARIANTS
    KernelConsistent
    NoStaleTranslation
PROPERTIES
    ImplementsMachines
