\* Liveness and the refinement of TaskExecutor: two tasks, one timer.
CONSTANTS
    t1 = t1
    t2 = t2
    d1 = d1
    d2 = d2
    Tasks <- TwoTasks
    Timers <- OneTimer
    NoId = NoId
    Delays = {1}
    TimeMod = 4
    IntMax = 3
    PipeCap = 2
    ReadMax = 1
    MaxClock = 1
    MaxShutdowns = 1
SPECIFICATION FairSpec
PROPERTIES
    ImplementsTaskExecutor
    DueTimerFires
CHECK_DEADLOCK FALSE
