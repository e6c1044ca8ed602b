CONSTANTS
    small = small
    large = large
    Header <- MCHeader
    OwnHeader <- MCOwn
    Payload = {small, large}
    Size <- MCSize
    MaxEntries = 2
    MaxBytes = 66
    Ttl = 3
    MaxCalls = 7
    Streams = {1}
    NameBytes <- MCNames
    PayloadBytes <- MCPayloads
    Cuts = {9, 17, 81}
SPECIFICATION InboundSpec
CHECK_DEADLOCK FALSE
INVARIANT FramesIntact
PROPERTY IsLruCache
