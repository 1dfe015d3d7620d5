SPECIFICATION FairSpec
CONSTANTS
    a = a
    b = b
    c = c
    IP4 <- MCIP4
    IP6 <- MCIP6
    MaxInstant = 2
    MaxAge = 1
    Configs <- HugeTimeoutConfigs
PROPERTIES
    TimeoutMeansDeadlinePassed
CHECK_DEADLOCK FALSE
