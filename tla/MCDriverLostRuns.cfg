CONSTANTS
    p1 = p1
    p2 = p2
    p3 = p3
    s1 = s1
    Params <- MCRisingParams
    Garbage <- MCGarbage
    EMMaxIter = 5
    TolNum = 1
    TolDen = 10
    NumLayers = 3
    MinRunsLayer0 = 2
    MinRunsIntermediate = 1
    PopSize = 1
    AgeGap = 1
    Shards <- MCShards
    ShardLik <- MCRisingLik
    MStep <- MCRisingStep
    Pop = 2
    Flags <- MCUpdate
    MaxIters = 4
    Timed = FALSE
    MaxCrashes = 1
SPECIFICATION DriverSpec
CHECK_DEADLOCK FALSE
INVARIANT PopulationFixed
