CONSTANTS
    small = small
    large = large
    Header <- MCRelay
    OwnHeader = {}
    Payload = {small, large}
    Size <- MCSize
    MaxEntries = 2
    MaxBytes = 3
    Ttl = 4
    MaxCalls = 6
SPECIFICATION Spec
CHECK_DEADLOCK FALSE
INVARIANT DuplicateIsSame
