SPECIFICATION FairSpec
CONSTANTS
    a = a
    b = b
    c = c
    IP4 <- MCIP4
    IP6 <- MCIP6
    MaxInstant = 2
    MaxAge = 1
    Configs <- CallConfigs
INVARIANTS
    TypeOK
    EveryProviderAccounted
    FirstKeepsOrder
    RaceWinnerIsValid
    PendingHasWorker
PROPERTIES
    TimeoutMeansDeadlinePassed
    OneDeadlineForAll
    ImplementsContract
    Terminates
CHECK_DEADLOCK FALSE
