SPECIFICATION FairSpec
CONSTANTS
    p1 = p1
    p2 = p2
    p3 = p3
    p4 = p4
    home = home
    away = away
    Proc <- Procs
    Address = {home, away}
    Command <- Commands
    NoProc = NoProc
    Backlog = 1
INVARIANTS
    TypeOK
    OnePeer
    SuccessIsJoined
PROPERTIES
    Ends
CHECK_DEADLOCK FALSE
