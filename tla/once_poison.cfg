SPECIFICATION Spec
CONSTANTS
    Threads = {t1, t2}
    Uninit = Uninit
    Calls = {"get", "get_or_init"}
    MutCalls = {}
    MayPanic = TRUE
INVARIANT PoisonedOnlyByPanic
CHECK_DEADLOCK FALSE
