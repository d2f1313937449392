CONSTANTS
    N = 3
    MaxRank = 3
    MaxEdges = 2
    EdgeLists <- MCEdgeLists
    RankSystems <- MCRankSystems
SPECIFICATION Spec
INVARIANTS
    TypeOK
    EdgesSpanOneRank
    ChainsCoverEdges
    DummiesArePrivate
    LayersStayConsistent
    FailureKeepsEdges
