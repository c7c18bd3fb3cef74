CONSTANTS
    BucketMs = 4
    MinDominantVotes = 2
    MinScore <- MinScoreValue
    MinCoverage <- MinCoverageValue
    MinMarginRatio <- MinMarginRatioValue
    Catalogs <- MCCatalogs
    Queries <- MCQueries
    Version = 1
    Recordings <- MCRecordings
    Clips <- MCClips
    Fanout = 2
    ZoneMin = 1
    ZoneMax = 100
    MinFreqBin = 14
    MaxFreqBin = 1858
    FreqSize = 1024
    DeltaSize = 256
    VersionSize = 16
    HopSize = 512
    SampleRate = 11025
    MaxPeaksPerSecond = 1
SPECIFICATION PipelineSpec
INVARIANTS
    TypeOK
    AnswerIsAligned
    VotesAreOrderFree
    ExcerptHasItsVotes
    CopyIsRefused
    ProcessorTypeOK
    LandmarksAreAsDocumented
    ClipPointsToItsPlace
    ClipKeepsHalfItsVotes
PROPERTY DeletedSongIsNotReturned
CHECK_DEADLOCK FALSE
