SPECIFICATION Spec
CONSTANTS
    Threads = {t1, t2, t3}
    ExclBit = 2
    SpinLimit = 1
    Modes = {"exclusive", "shared", "try_exclusive", "try_shared"}
INVARIANTS WordCountsHolders MutualExclusion
PROPERTY ImplementsRWLock
