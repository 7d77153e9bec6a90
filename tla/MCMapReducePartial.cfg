CONSTANTS
    p1 = p1
    p2 = p2
    p3 = p3
    s1 = s1
    s2 = s2
    Params <- MCParams
    Garbage <- MCGarbage
    EMMaxIter = 6
    TolNum = 1
    TolDen = 10
    Shards <- MCTwoShards
    ShardLik <- MCShardLik
    MStep <- MCMStep
    Reducers <- MCOneReducer
    Dat <- MCDatLimit
    Partition <- MCPartition
    MaxCrashes = 0
SPECIFICATION JobSpec
CHECK_DEADLOCK FALSE
INVARIANT LikelihoodIsTotal
