CONSTANTS
    old = old
    new = new
    NoFile = NoFile
    Sources = {new}
    Versions = {1}
    Runs = {r1, r2}
    Legacy = {}
    LegacyId <- NoLegacyId
    FirstId = 1
SPECIFICATION FairSpec
PROPERTY RunsEnd
CHECK_DEADLOCK FALSE
