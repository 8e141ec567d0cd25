SPECIFICATION Spec
CONSTANTS
    None = None
    Inputs <- MCInputs
    Settings <- MCSettings
    Automata <- MCAutomata
    Refinements <- MCRefinements
    NewApta <- MCUnmerged
    GetPossibleRefinements <- MCPossibleRefinements
    TestRef <- MCPasses
    DoRef <- MCDo
    UndoRef <- MCUndoOf
    Lines <- MCLines
    NaN = NaN
PROPERTIES
    MergesByNumber
