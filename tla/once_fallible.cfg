SPECIFICATION Spec
CONSTANTS
    Threads = {t1, t2, t3}
    Uninit = Uninit
    Calls = {"get_or_try_init", "get", "set"}
    MutCalls = {"get_mut", "get_or_try_init_mut", "take"}
    MayPanic = TRUE
SYMMETRY Symmetry
INVARIANT NeverReentrant
CHECK_DEADLOCK FALSE
