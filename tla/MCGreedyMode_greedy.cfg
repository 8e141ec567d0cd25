SPECIFICATION Spec
CONSTANTS
    Symbol <- MCSymbol
    Type <- MCType
    None = None
    Root <- MCRoot
    Inputs <- MCInputs
    TreeOf <- MCTreeOf
INVARIANTS
    SampleAccepted
    SampleCounted
    ExtensionPolicy
