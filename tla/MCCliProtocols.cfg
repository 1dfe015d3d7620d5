SPECIFICATION Spec
CONSTANTS
    IP4 = {}
    IP6 = {}
    Features <- MCFeatures
    BuilderCalls <- MCCalls
    CliArgs <- MCCliArgs
    NodeOptions <- MCNodeOptions
    MaxCalls = 4
INVARIANTS
    CliUsesOnlyItsProtocols
CHECK_DEADLOCK FALSE
