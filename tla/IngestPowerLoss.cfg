SPECIFICATION FairSpec
CONSTANTS
    Loaders = {l1}
    Files = {f1, f2}
    Size = 2
    Streams = {TRUE}
    Faults = {"power"}
    MaxFaults = 1
    NoLoader = NoLoader
    NoFile = NoFile
PROPERTY SurvivesPowerLoss
