SPECIFICATION Spec
CONSTANTS
    Node <- MCNode
    Root <- MCRoot
    None = None
    Symbol <- MCSymbol
    Type <- MCType
    Trees <- SinkAndLargeTrees
    USE_SINKS = TRUE
    SINK_COUNT = 2
    MERGE_WHEN_TESTING = TRUE
    MERGE_DATA = TRUE
    MERGE_BLUE_BLUE = FALSE
    MERGE_ROOT = FALSE
    MERGE_SINKS = TRUE
    MERGE_SINKS_WITH_CORE = FALSE
    TYPE_CONSISTENT = TRUE
    RED_FIXED = TRUE
    ALL_FIXED = FALSE
    KTAIL <- MCOff
    KSTATE <- MCOff
INVARIANTS
    SinksInherited
    RootKept
PROPERTIES
    FixedTransitions
