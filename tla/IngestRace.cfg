SPECIFICATION Spec
CONSTANTS
    Loaders = {l1, l2}
    Files = {f1, f2, f3}
    Size = 2
    Streams = {TRUE}
    Faults = {}
    MaxFaults = 0
    NoLoader = NoLoader
    NoFile = NoFile
INVARIANT CompletedIsWhole
