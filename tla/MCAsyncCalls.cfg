SPECIFICATION FairSpec
CONSTANTS
    a = a
    b = b
    c = c
    IP4 <- MCIP4
    IP6 <- MCIP6
    MaxAge = 1
    Configs <- CallConfigs
INVARIANTS
    TypeOK
    EveryProviderAccounted
    NoAnswerDropped
    JoinIsComplete
    SleepersAreArmed
PROPERTIES
    ImplementsContract
    Terminates
CHECK_DEADLOCK FALSE
