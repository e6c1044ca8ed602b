CONSTANTS
    f1 = f1
    f2 = f2
    probe = probe
    Payload <- MCPayload
    Covers = {probe}
    MaxSends = 3
    p1 = p1
    p2 = p2
    Peers = {p1, p2}
    JoinLater = {p2}
    RoundOf <- MCRoundOf
    Starts <- MCStarts
    NRounds = 2
    MaxResends = 1
    Faults = {"deadHop", "loss", "linkLost"}
SPECIFICATION Spec
CHECK_DEADLOCK FALSE
INVARIANTS NoOrphanFlag UnackedNotOvercounted
PROPERTIES KeepsPromise RevivedByAck
