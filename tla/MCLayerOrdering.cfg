CONSTANTS
    Shapes <- MCShapes
    Inputs <- MCInputs
    Sweeps = 2
    MaxTransposePasses = 100
SPECIFICATION Spec
INVARIANTS
    TypeOK
    OrderMatchesLayers
    NoPairLeftToSwap
    CapIsNotReached
PROPERTIES
    SwapsReduceCrossings
