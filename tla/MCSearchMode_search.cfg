SPECIFICATION FairSpec
CONSTANTS
    None = None
    Settings <- MCSettings
    Automata <- MCAutomata
    Refinements <- MCRefinements
    Refinement <- MCRefinement
    NewApta <- MCUnmerged
    GetPossibleRefinements <- MCPossibleRefinements
    TestRef <- MCPasses
    DoRef <- MCDo
    UndoRef <- MCUndoOf
    Inputs <- SearchInputs
    NumRedStates <- MCNumRed
    FinalAptaSize <- MCFinalSize
    UndecidedStates <- MCUndecided
INVARIANTS
    AutomatonIsReplay
    ReferencesExact
    PerformedWhereApplicable
    SearchOptimal
PROPERTIES
    SearchEnds
    UsesQueue
