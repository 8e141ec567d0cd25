SPECIFICATION Spec
CONSTANTS
    Id <- MCId
    Symbol <- MCSymbol
    None = None
    Empty = "empty"
    Final = "fin"
    Sentinel = "sentinel"
    Inputs <- MCInputs
INVARIANTS
    ReadExact
    NeverCrashes
