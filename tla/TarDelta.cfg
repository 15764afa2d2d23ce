SPECIFICATION Spec
CONSTANTS
    Pairs <- MCPairs
    Base = 3
    MaxBsdiffSize = 3
    SmallSize = 2
    Factor = 3
    ChunkSize = 2
INVARIANTS TypeOK Reproduces CursorsAgree
PROPERTY Rebuilt
CHECK_DEADLOCK FALSE
