SPECIFICATION Spec
CONSTANTS
    Dispatchers = {d1, d2}
    Packets <- MCPackets
    Pairs <- MCPairs
    Username = 5
    Password = 8
    MaxMessages = 2
    MaxStarts = 2
INVARIANTS
    EachMessageOnce
PROPERTIES
    ClosedIsRestarted
    QueuedIsHandled
CHECK_DEADLOCK FALSE
