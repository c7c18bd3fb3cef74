CONSTANTS
    Clients = {c}
    Songs = {s1, s2}
    Versions = {1, 2}
    Expected = 1
    Uploads = {"wav", "text", "empty", "missing", "oversize", "malformed", "json"}
    MaxAttempts = 2
    MaxStops = 1
SPECIFICATION Spec
INVARIANTS
    TypeOK
    AnswersAreOnRecord
    RowsAreEarned
    VersionsAreNotMixed
    CountersAddUp
PROPERTY ShutdownEnds
CHECK_DEADLOCK FALSE
