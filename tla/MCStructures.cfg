CONSTANTS
    States <- MCStates
    FactorGraphs <- MCFactorGraphs
    Heuristics <- MCHeuristics
    Updates <- MCUpdates
    Loops <- MCLoops
    MaxMem = 60
    MaxReplaced = 1
    MaxNodes = 3
    MaxEdges = 5
    MaxDAGNodes = 4
    MaxDAGEdges = 4
    Nodes = 5
    Degree = 2
    MaxTries = 2
SPECIFICATION AnySpec
CHECK_DEADLOCK FALSE
INVARIANTS
    ListsConsistent
    DAGIsRight
    WalksAreRight
    PointsAreNeighborsToCome
    IteratorsAgree
    CountingNumbersRight
    JunctionTreeIsRight
    OptionsAreResolved
    BeliefsAreJoint
PROPERTIES
    ImplementsMultigraph
