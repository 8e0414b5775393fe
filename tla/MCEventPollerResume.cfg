\* The loop is run again after it ended.
CONSTANTS
    t1 = t1
    t2 = t2
    d1 = d1
    d2 = d2
    Tasks <- OneTask
    Timers <- OneTimer
    NoId = NoId
    Delays = {1}
    TimeMod = 16
    IntMax = 7
    PipeCap = 2
    ReadMax = 1
    MaxClock = 2
    MaxShutdowns = 1
SPECIFICATION Spec
PROPERTIES
    NeverResumed
CHECK_DEADLOCK FALSE
