SPECIFICATION Spec
CONSTANTS
    v1 = v1
    v2 = v2
    v3 = v3
    Images = {v1, v2, v3}
    Layers <- DirLayers
    Unpack <- DirUnpack
    Servers = {s1, s2}
    Requests = {r1, r2}
    Asks <- Mixed
    LatestTag = LatestTag
    NoImage = NoImage
    NoLocation = NoLocation
    NoManifest = NoManifest
    NoServer = NoServer
    NoRequest = NoRequest
    NoAsk = NoAsk
    MayFail = TRUE
    MaxExits = 2
SYMMETRY Symmetry
INVARIANTS
    TypeOK
    ServedDeltaIsReal
    OneCreationPerInstance
    ClaimsAreLive
    DummyLockIsHeldByPusher
    DummyMarksAreExplained
    WaitGroupCounts
PROPERTY KeepsThePromise
