CONSTANTS
    p0 = p0
    s1 = s1
    s2 = s2
    Params <- MCParams
    Garbage <- MCGarbage
    EMMaxIter = 5
    TolNum = 1
    TolDen = 10
    Shards <- MCShards
    ShardLik <- MCShardLik
    MStep <- MCMStep
    Reducers <- MCReducers
SPECIFICATION MCSpec
CHECK_DEADLOCK FALSE
INVARIANT UnsortedIsDetected
