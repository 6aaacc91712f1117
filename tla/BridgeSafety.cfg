SPECIFICATION Spec
CONSTANTS
    Viewer = {v1}
    MaxEpoch = 3
    ConfigSize = 1
    KeySize = 2
    DeltaSize = 1
    GopLimit = 4
    DropAbove = 3
INVARIANTS
    TypeOK
    GopDecodable
    GopBounded
    MisfedOnlyByDrops
    CaughtUp
CHECK_DEADLOCK FALSE
