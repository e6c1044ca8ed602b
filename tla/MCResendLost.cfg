CONSTANTS
    f1 = f1
    f2 = f2
    probe = probe
    Payload <- MCPayload
    Covers = {probe}
    MaxSends = 3
    p1 = p1
    p2 = p2
    Peers = {p1}
    JoinLater = {}
    RoundOf <- OneRound
    Starts <- TwoStarts
    NRounds = 1
    MaxResends = 1
    Faults = {"loss"}
SPECIFICATION FairSpec
CHECK_DEADLOCK FALSE
PROPERTY Settles
