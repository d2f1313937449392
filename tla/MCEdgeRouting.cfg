CONSTANTS
    Inputs <- MCInputs
    Styles = {"Straight", "Orthogonal", "Bezier"}
SPECIFICATION Spec
INVARIANTS
    TypeOK
    OneRoutePerChain
    ParallelEdgesDrawnApart
    SegmentsDrawTheRoute
