\* Safety: two tasks, two timers, one delay that an int cannot say (9 > IntMax).
CONSTANTS
    t1 = t1
    t2 = t2
    d1 = d1
    d2 = d2
    Tasks <- TwoTasks
    Timers <- TwoTimers
    NoId = NoId
    Delays = {1, 9}
    TimeMod = 16
    IntMax = 7
    PipeCap = 2
    ReadMax = 1
    MaxClock = 1
    MaxShutdowns = 1
SYMMETRY UserSymmetry
SPECIFICATION Spec
INVARIANTS
    TypeOK
    NoLostWakeup
    TaskConserved
    TimerConserved
    SleepsUntilEarliest
    DtorRunsBacklog
CHECK_DEADLOCK FALSE
