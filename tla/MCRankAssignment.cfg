CONSTANTS
    N = 4
    MaxEdges = 4
    Inputs <- MCInputs
    IdLists <- MCIdLists
    InitialFields <- MCInitialFields
SPECIFICATION Spec
INVARIANTS
    TypeOK
    KahnInv
    VerdictIsRight
    EarliestRanks
    LayersMatchNodes
    RefusedGraphUntouched
PROPERTIES
    Termination
