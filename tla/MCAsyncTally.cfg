SPECIFICATION TallySpec
CONSTANTS
    a = a
    b = b
    c = c
    IP4 <- MCIP4
    IP6 <- MCIP6
    MaxAge = 1
    Configs <- TallyConfigs
INVARIANTS
    ConsensusIsSound
CHECK_DEADLOCK FALSE
