SPECIFICATION Spec
CONSTANTS
    Alphabet <- MCAlphabet
    Type <- MCType
    None = None
    Inputs <- MCInputs
    AL_MAX_SEARCH_DEPTH = 4
    GetPossibleRefinements <- MCPossibleRefinements
    DoRef <- MCDo
    UndoRef <- MCUndoOf
INVARIANTS
    ConsistentFound
