CONSTANTS
    m1 = m1
    m2 = m2
    m3 = m3
    cover = cover
    none = none
    Item = {m1, m2, m3}
    Cover = cover
    NoPacket = none
    OutboxSize = 2
    Shuffle = TRUE
    MaxCovers = 2
    Intervals = {1, 2}
    Delays = {0, 4}
    MaxTicks = 4
SYMMETRY Symmetry
SPECIFICATION Spec
CHECK_DEADLOCK FALSE
INVARIANTS EachOnce ReorderBound Deadline Pace
