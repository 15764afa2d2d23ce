SPECIFICATION Spec
CONSTANTS
    v1 = v1
    v2 = v2
    v3 = v3
    Images = {v1, v2}
    Layers <- FileLayers
    Unpack <- FileUnpack
    Servers = {s1}
    Requests = {r1, r2}
    Asks <- SameDelta
    LatestTag = LatestTag
    NoImage = NoImage
    NoLocation = NoLocation
    NoManifest = NoManifest
    NoServer = NoServer
    NoRequest = NoRequest
    NoAsk = NoAsk
    MayFail = FALSE
    MaxExits = 0
INVARIANT FreshDummyMeansWork
