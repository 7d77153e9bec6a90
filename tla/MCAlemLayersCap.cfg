CONSTANTS
    p0 = p0
    Params <- MCParams
    Garbage <- MCGarbage
    EMMaxIter = 6
    TolNum = 1
    TolDen = 10
    NumLayers = 3
    MinRunsLayer0 = 2
    MinRunsIntermediate = 1
    PopSize = 2
    AgeGap = 2
SPECIFICATION MCSpec
CHECK_DEADLOCK FALSE
PROPERTY PopulationCapped
