SPECIFICATION FairSpec
CONSTANTS
    Loaders = {l1, l2}
    Files = {f1, f2, f3}
    Size = 2
    Streams = {TRUE, FALSE}
    Faults = {"network", "garbage", "kill", "power"}
    MaxFaults = 2
    NoLoader = NoLoader
    NoFile = NoFile
INVARIANTS
    TypeOK
    HashIsOfFile
PROPERTY PicksUpInterruptedFetches
