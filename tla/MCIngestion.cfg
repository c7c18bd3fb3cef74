CONSTANTS
    old = old
    new = new
    NoFile = NoFile
    Sources = {old, new}
    Versions = {1}
    Runs = {r1, r2}
    Legacy = {old}
    LegacyId <- OneLegacyId
    FirstId = 2
SPECIFICATION Spec
INVARIANTS
    TypeOK
    OneSongPerSource
    NoPartialSong
    ArtworkIsThere
    ReportsAreTrue
PROPERTIES
    LedgerIsPermanent
    RefinesCatalog
SYMMETRY RunSymmetry
CHECK_DEADLOCK FALSE
