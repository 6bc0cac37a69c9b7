SPECIFICATION FairSpec
CONSTANTS
    Threads = {t1, t2, t3}
    ExclBit = 2
    SpinLimit = 1
    Modes = {"shared"}
PROPERTY BlockedOnlyWhileSaturated
CHECK_DEADLOCK FALSE
