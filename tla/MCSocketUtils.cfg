\* One host name, two interfaces that come and go, two descriptors; the clock
\* is set back once.
CONSTANTS
    h1 = h1
    eth = eth
    lo = lo
    a4 = a4
    a6 = a6
    hw = hw
    Any4 = Any4
    Any6 = Any6
    Hardware = hw
    NoAddr = NoAddr
    Hosts <- Host
    V4 <- Addrs4
    V6 <- Addrs6
    Expiries <- Seconds
    DefaultExpiry = 1
    MaxNow = 3
    MaxSetBack = 1
    Fds <- Descriptors
    Names <- Interfaces
    IfLists <- Lists
    Texts <- LocalTexts
SPECIFICATION FairSpec
INVARIANTS
    TypeOK
    NothingLeaks
    OutcomeJustified

    
    
CHECK_DEADLOCK FALSE
