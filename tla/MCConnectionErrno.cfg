\* One connection; errno is what the last call on the thread left in it.
CONSTANTS
    a1 = a1
    a2 = a2
    None = None
    Attempts <- SingleAttempt
SPECIFICATION Spec
PROPERTIES
    WritableMeansConnected
CHECK_DEADLOCK FALSE
