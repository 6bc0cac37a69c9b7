SPECIFICATION FairSpec
CONSTANTS
    NHANDLES = 8
    MaxFd = 8
    Files = {"file"}
    Procs = {"p1", "p2"}
    MayKill = TRUE
INVARIANTS LiveCounts HandlesReachTheirObject JoinFindsPidfd HandleKeepsChild 
 
CHECK_DEADLOCK FALSE
