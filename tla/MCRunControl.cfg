CONSTANTS
    stays = stays
    late = late
    early = early
    Node = {stays, late, early}
    Config <- MCConfig
    MaxLaunches = 3
    MaxSenders = 2
    MaxLeft = 1
SPECIFICATION Spec
CHECK_DEADLOCK FALSE
INVARIANTS NobodyStranded OneRunPerFile
PROPERTIES BarrierSafe JoinsLate
