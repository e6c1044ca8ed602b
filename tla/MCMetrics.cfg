CONSTANTS
    n1 = n1
    d1 = d1
    Nodes = {n1}
    Dashboards = {d1}
    PageSize = 1
    MaxRuns = 2
    MaxFlushes = 2
    MaxValue = 1
    MaxTime = 2
SPECIFICATION Spec
CHECK_DEADLOCK FALSE
INVARIANTS NoPointTwice FinalPushArrives ResourcesOfOwnContainer
CONSTRAINT OnePartAtATime
