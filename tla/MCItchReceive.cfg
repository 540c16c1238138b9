SPECIFICATION Spec
CONSTANTS
    BlockSize = 4
    Junk = Junk
    TLF = TLF
    Messages <- MCMessages
    Chunk = 3
    MaxRead = 4
    MaxBytes = 16
INVARIANTS
    BytesInOrder
    PacketsAreMessages
    BlocksOnlyOnLongPackets
PROPERTIES
    MessagesArrive
    RecvPacketReturns
CHECK_DEADLOCK FALSE
