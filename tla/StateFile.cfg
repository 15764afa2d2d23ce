SPECIFICATION FairSpec
CONSTANTS
    Clients = {a, b}
    Records = {old, new}
    NoRecord = NoRecord
    NoDirectory = NoDirectory
    NoFile = NoFile
    Torn = Torn
    Legacy = Legacy
    MaxStarts = 3
    MaxCrashes = 1
INVARIANTS
    TypeOK
    LockProtects
PROPERTIES
    IsStateMap
    ModifyEnds
CHECK_DEADLOCK FALSE
