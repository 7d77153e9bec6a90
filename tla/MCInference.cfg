CONSTANTS
    States <- MCStates
    Graphs <- MCGraphs
    Values <- MCValues
    MaxCalls = 3
SPECIFICATION Spec
CHECK_DEADLOCK FALSE
INVARIANTS
    LearningIsShared
    RegionsAreProducts
    DerivedGraphsAgree
    BookkeepingFollows
    
    ConditioningIsExact
    AnswersRight
PROPERTIES
    LikelihoodNeverFalls
    ImplementsUndo
