\* Two connections in a row, closed, failing and timing out at any point.
CONSTANTS
    a1 = a1
    a2 = a2
    None = None
    Attempts <- TwoAttempts
SPECIFICATION FairSpec
INVARIANTS
    TypeOK
    DescriptorsHeld
    OneAttempt
PROPERTIES
    ImplementsConnector
CHECK_DEADLOCK FALSE
