SPECIFICATION Spec
CONSTANTS
  Threads = {t1, t2}
  Fds = {f1, f2}
  None = None
  Addrs = {1, 2, 3}
  Sizes = {1, 2, 3}
  Page = 2
SYMMETRY Symmetry
INVARIANTS PagesAccounted  NoFdLeak
CHECK_DEADLOCK FALSE
