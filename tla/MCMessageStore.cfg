CONSTANTS
    a1 = a1
    a2 = a2
    b1 = b1
    b2 = b2
    Payload = {a1, a2, b1, b2}
    RoundOf <- MCRoundOf
    Window = 2
    NRounds = 4
    NPeers = 2
    ModelChunks = 2
    RatioPct = 100
    FloorPct = 50
    MaxAccepted = 5
SPECIFICATION Spec
CHECK_DEADLOCK FALSE
INVARIANTS SeenWindow DuplicateFarApart NoStaleBucket Conservation
PROPERTY EarlyFragmentsKept
