CONSTANTS
    Readers = {r1, r2}
    Ids = {1}
    TTL = 1
    Deadline = 1
    MaxVersion = 2
    MaxTime = 3
    Admins = {a}
    MaxTurns = 1
SPECIFICATION Spec
INVARIANTS
    TypeOK
    StalenessIsBounded
    MissingIsCurrent
    NoStrayFingerprints
    AnsweredIngestIsWhole
    ClearedStaysClear
SYMMETRY ReaderSymmetry
CHECK_DEADLOCK FALSE
