SPECIFICATION AcceptedOnly
CONSTANTS
    Delays <- LikeDefault
    MaxAttempts = 10
    HalfWord = 512
    Artifacts <- OneOrTwoBlobs
    ManifestSize = 1
    Limit = 4
    Period = 1
    Absent = Absent
    Torn = Torn
    Mixed = Mixed
    MaxFaults = 0
INVARIANTS
    NeverPanics
