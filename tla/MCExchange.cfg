CONSTANTS
    n1 = n1
    n2 = n2
    n3 = n3
    Nodes = {n1, n2, n3}
    NRounds = 2
    Parts = {1}
    MaxResends = 1
    FloorPct = 50
    MaxLost = 2
    MaxSlow = 1
    MaxCrashes = 1
    Dials <- MCDials
SPECIFICATION Spec
SYMMETRY Rotations
CHECK_DEADLOCK FALSE
INVARIANTS RoundComplete LivePeerKept NobodyStuck
