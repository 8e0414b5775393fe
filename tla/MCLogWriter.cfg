\* Three messages, one of a higher level; two channels, two levels; spurious
\* wakeups included.
CONSTANTS
    m1 = m1
    m2 = m2
    m3 = m3
    console = console
    errors = errors
    Writer = Writer
    Messages <- ThreeMessages
    Threads <- WriterThread
    Channels <- TwoChannels
    Levels <- TwoLevels
    LevelOf <- MessageLevels
SPECIFICATION LoggerFairSpec
INVARIANTS
    LoggerTypeOK
    NoLostWakeup
    ChannelsComplete
PROPERTIES
    DestructorReturns
    ImplementsLogStream
CHECK_DEADLOCK FALSE
