CONSTANTS
    p1 = p1
    p2 = p2
    p3 = p3
    s1 = s1
    Params <- MCRisingParams
    Garbage <- MCGarbage
    EMMaxIter = 5
    TolNum = 1
    TolDen = 20
    NumLayers = 3
    MinRunsLayer0 = 3
    MinRunsIntermediate = 1
    PopSize = 2
    AgeGap = 1
    Shards <- MCShards
    ShardLik <- MCRisingLik
    MStep <- MCRisingStep
    Pop = 3
    Flags <- MCAlem
    MaxIters = 10
    Timed = FALSE
    MaxCrashes = 0
SPECIFICATION DriverSpec
CHECK_DEADLOCK FALSE
INVARIANTS
    PassInputFits
PROPERTY Completes
