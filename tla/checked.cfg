SPECIFICATION Spec
CONSTANTS
  Addrs <- MCAddrs
  Mapped = {0, 1, 2}
  Lens = {0, 1, 2}
  Signals = {"SIGCHLD", "SIGSYS"}
INVARIANT TrapIsReturned
CHECK_DEADLOCK FALSE
