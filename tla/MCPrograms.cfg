CONSTANTS
    Programs <- AllPrograms
    p1 = p1
    p2 = p2
    p3 = p3
    Params <- MCParams
    MaxIters = 5
    TolNum = 1
    TolDen = 20
    NumLayers = 3
    MinRunsLayer0 = 3
    MinRunsIntermediate = 1
    PopSize = 2
    AgeGap = 1
    Lik <- MCLik
    MStep <- MCStep
    NumCases = 2
    MaxHalvings = 1
    Arguments <- MCArguments
    Tabs <- MCTabs
    InitSamples = 2
    MaxSamples = 4
    SamplesDelta = 2
    Trials = 2
    MaxEMIters = 3
    MaxTime = 2
    TabLines <- MCTabLines
    MStepCounts <- MCMStepCounts
    NumMappers = 3
    MaxIter = 4
    Population = 3
    NumMaps = 2
    NumIterations = 2
    MaxFailures = 1
    MaxSeconds = 2
SPECIFICATION Spec
CHECK_DEADLOCK FALSE
INVARIANTS
    TrialsAreComparable
    GeneratedAsAsked
    PrototypesBehave
    BestIsKept
PROPERTIES
    CountedForGood
    Terminates
