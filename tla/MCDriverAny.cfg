CONSTANTS
    p1 = p1
    p2 = p2
    p3 = p3
    s1 = s1
    Params <- MCAnyParams
    Garbage <- MCGarbage
    EMMaxIter = 5
    TolNum = 1
    TolDen = 10
    NumLayers = 3
    MinRunsLayer0 = 2
    MinRunsIntermediate = 1
    PopSize = 1
    AgeGap = 1
    Shards <- MCShards
    ShardLik <- MCAnyLik
    MStep <- MCAnyStep
    Pop = 2
    Flags <- MCBoth
    MaxIters = 6
    Timed = TRUE
    MaxCrashes = 1
SPECIFICATION DriverSpec
CHECK_DEADLOCK FALSE
INVARIANTS
    DistinctRuns
PROPERTIES
    RestIsFinal
    AgeIsCounted
    BestNeverDiscarded
