SPECIFICATION FairSpec
CONSTANTS
    Threads = {t1, t2, t3}
    Uninit = Uninit
    Calls = {"get_or_init", "set", "force"}
    MutCalls = {"take", "force_unlock", "get_or_init_mut", "force_mut"}
    MayPanic = TRUE
INVARIANTS  OneInitializer RefsStable NeverReentrant
PROPERTIES ImplementsOnce CallsReturn
CHECK_DEADLOCK FALSE
