SPECIFICATION Spec
CONSTANTS
    Clients = {c1, c2}
    Logs <- MCLogs
    MaxLogons = 2
    MaxOrders = 1
INVARIANTS
    ReplaysInOrder
    OnlyOddLineMissing
PROPERTIES
    ReplayEnds
    PumpStops
CHECK_DEADLOCK FALSE
