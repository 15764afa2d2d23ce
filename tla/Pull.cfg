SPECIFICATION FairSpec
CONSTANTS
    Delays <- SomeDelays
    MaxAttempts = 3
    HalfWord = 11
    Artifacts <- OneOrTwoBlobs
    ManifestSize = 1
    Limit = 4
    Period = 1
    Absent = Absent
    Torn = Torn
    Mixed = Mixed
    MaxFaults = 1
INVARIANTS
    TypeOK
    WithinLimit
    NoReadIsLost
PROPERTIES
    WaitsInBounds
    PullReturns
    LimitLifts
