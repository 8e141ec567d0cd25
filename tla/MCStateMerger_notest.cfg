SPECIFICATION FairSpec
CONSTANTS
    Node <- MCNode
    Root <- MCRoot
    None = None
    Symbol <- MCSymbol
    Type <- MCType
    Trees <- SmallTrees
    USE_SINKS = FALSE
    SINK_COUNT = 2
    MERGE_WHEN_TESTING = FALSE
    MERGE_DATA = TRUE
    MERGE_BLUE_BLUE = FALSE
    MERGE_ROOT = TRUE
    MERGE_SINKS = FALSE
    MERGE_SINKS_WITH_CORE = FALSE
    TYPE_CONSISTENT = TRUE
    RED_FIXED = FALSE
    ALL_FIXED = FALSE
    KTAIL <- MCOff
    KSTATE <- MCOff
PROPERTIES
    OperationsEnd
