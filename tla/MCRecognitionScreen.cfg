CONSTANT MaxJobs = 3
SPECIFICATION Spec
INVARIANTS
    TypeOK
    UiTellsTheTruth
    ResultIsSaved
    ResultScreenIsAtRest
PROPERTIES
    EveryTapSettles
    MicIsReleased
CHECK_DEADLOCK FALSE
