SPECIFICATION FairSpec
CONSTANTS
    linux = linux
    darwin = darwin
    Targets <- MCTargets
    Host = linux
    MaxCommits = 2
    MaxUnlisted = 2
    MaxFaults = 2
INVARIANTS
    TypeOK
    PublicationOrder
    NpmIsOneCommit
PROPERTIES
    Completes
CHECK_DEADLOCK FALSE
