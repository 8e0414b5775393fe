\* Three buffers of one or two bytes, two connections, sendmsg takes two iovecs.
CONSTANTS
    None = None
    MaxSends = 3
    Buffers <- ThreeBuffers
    Size <- Sizes
    IovMax = 2
    MaxConnections = 2
    Room = 2
SPECIFICATION FairSpec
INVARIANTS
    TypeOK
    NoLostWakeup
    
    StreamOrder
PROPERTIES
    
    EverythingLeaves
CHECK_DEADLOCK FALSE
