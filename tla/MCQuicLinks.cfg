CONSTANTS
    c1 = c1
    c2 = c2
    none = none
    Conns = {c1, c2}
    NoConn = none
    FailLimit = 3
SPECIFICATION LinksFairSpec
CHECK_DEADLOCK FALSE
INVARIANTS OneDial LinkOrLoop NoOrphanConnection IncomingIsNewest
PROPERTY Relinks
