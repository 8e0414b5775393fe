\* Two workers compete for two tasks and the permits of one or two PostExit;
\* their owner creates, detaches and joins them, and two ids are enough to be
\* used again.
CONSTANTS
    t1 = t1
    t2 = t2
    w1 = w1
    w2 = w2
    i1 = i1
    i2 = i2
    NoTask = NoTask
    NoId = NoId
    Owner = Owner
    Tasks <- TwoTasks
    Threads <- TwoWorkers
    Members <- TwoWorkers
    Ids <- TwoIds
    MaxExits = 2
SPECIFICATION PoolFairSpec
INVARIANTS
    PoolTypeOK
    PermitsBalance
    NoLostWakeup
    NothingAbandoned
PROPERTIES
    PoolTasksRun
    
CHECK_DEADLOCK FALSE
