CONSTANTS
    BucketMs = 4
    MinDominantVotes = 2
    MinScore <- MinScoreValue
    MinCoverage <- MinCoverageValue
    MinMarginRatio <- MinMarginRatioValue
    Catalogs <- MCCatalogs
    Queries <- MCQueries
    Version = 1
SPECIFICATION Spec
INVARIANT OneVotePerPair
CHECK_DEADLOCK FALSE
