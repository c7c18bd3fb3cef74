CONSTANTS
    old = old
    new = new
    NoFile = NoFile
    Sources = {old, new}
    Versions = {1}
    Runs = {r1, r2}
    Legacy = {old}
    LegacyId <- OneLegacyId
    FirstId = 2
SPECIFICATION Spec
PROPERTY ReingestRestoresFingerprints
CHECK_DEADLOCK FALSE
