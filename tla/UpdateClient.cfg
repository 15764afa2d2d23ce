SPECIFICATION FairSpec
CONSTANTS
    v1 = v1
    v2 = v2
    v3 = v3
    Images = {v1, v2, v3}
    Compatible <- SomeCompatible
    Inapplicable <- OneInapplicable
    Patchers = {"file", "directory", "in place"}
    Troubles = {"crash", "failure", "edit"}
    MaxTroubles = 3
    NoRecord = NoRecord
    NoFile = NoFile
    Torn = Torn
    Legacy = Legacy
    Missing = Missing
    Empty = Empty
    Mixed = Mixed
INVARIANTS
    TypeOK
    RecordIsTrue
PROPERTIES
    SuccessIsInstalled
    Converges
