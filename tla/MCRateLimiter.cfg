CONSTANTS
    Addresses = {a1, a2}
    Burst = 2
    Rpm = 2
    Minute = 3
    IdleFor = 3
    Period = 2
    MaxTime = 7
    MaxAsked = 4
SPECIFICATION Spec
INVARIANTS
    TypeOK
    BurstIsBounded
    ForgottenInTime
PROPERTY RefinesTokenBuckets
SYMMETRY AddressSymmetry
CHECK_DEADLOCK FALSE
