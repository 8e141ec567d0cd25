SPECIFICATION FairSpec
CONSTANTS
    Node <- MCNode
    Root <- MCRoot
    None = None
    Symbol <- MCSymbol
    Type <- MCType
    Trees <- SmallTrees
    USE_SINKS = FALSE
    SINK_COUNT = 2
    MERGE_WHEN_TESTING = TRUE
    MERGE_DATA = TRUE
    MERGE_BLUE_BLUE = TRUE
    MERGE_ROOT = TRUE
    MERGE_SINKS = FALSE
    MERGE_SINKS_WITH_CORE = FALSE
    TYPE_CONSISTENT = TRUE
    RED_FIXED = FALSE
    ALL_FIXED = FALSE
    KTAIL <- MCOff
    KSTATE <- MCOff
INVARIANTS
    TypeOK
    MergedListsExact
    CountsConserved
    AssertionsHold
    TransitionsCoverClass
    IteratorsComplete
    NonRedAreTrees
    TracesResolve
    TestExact
PROPERTIES
    ImplementsRedBlue
    AgreesWithMerging
    OperationsEnd
