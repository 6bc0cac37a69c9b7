SPECIFICATION Spec
CONSTANTS
  Addrs <- FarAddrs
  Mapped <- FarMapped
  Lens <- MCLens
  Signals = {"SIGCHLD", "SIGSYS"}
INVARIANT CopiesAll
CHECK_DEADLOCK FALSE
