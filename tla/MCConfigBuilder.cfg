SPECIFICATION Spec
CONSTANTS
    IP4 = {}
    IP6 = {}
    Features <- MCFeatures
    BuilderCalls <- MCCalls
    CliArgs <- MCCliArgs
    NodeOptions <- MCNodeOptions
    MaxCalls = 4
INVARIANTS
    ResolversGetConfigs
    ListsAreParallel
    LastFilterDecides
CHECK_DEADLOCK FALSE
