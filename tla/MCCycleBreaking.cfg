CONSTANTS
    N = 3
    Inputs <- MCInputs
SPECIFICATION Spec
INVARIANTS
    TypeOK
    SearchInv
PROPERTIES
    ImplementsSpec
    Termination
