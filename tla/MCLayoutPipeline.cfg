CONSTANTS
    NodeLists <- MCNodeLists
    EdgeLists <- MCEdgeLists
    MaxAnyEdges = 2
    MaxGoodEdges = 4
SPECIFICATION Spec
INVARIANTS
    TypeOK
    GoodGraphsAreLaidOut
    EverythingComesBack
    FlaggedRoutesCloseCycles
