SPECIFICATION FairSpec
CONSTANTS
    Symbol <- MCSymbol
    Type <- MCType
    None = None
    Root <- MCRoot
    Inputs <- MCInputs
    EXTEND_ANY_RED = TRUE
    MERGE_MOST_VISITED = FALSE
    MERGE_BLUE_BLUE = FALSE
    MERGE_ROOT = TRUE
    DEPTH_FIRST = FALSE
    DFA_SIZE_BOUND <- MCOff
    AL_MAX_SEARCH_DEPTH = 5
INVARIANTS
    UndoneIsObservationTree
    RedoneIsApplicable
    HypothesisComplete
PROPERTIES
    Ends
