SPECIFICATION FairSpec
CONSTANTS
    Viewer = {v1}
    MaxEpoch = 2
    ConfigSize = 1
    KeySize = 2
    DeltaSize = 1
    GopLimit = 4
    DropAbove = 3
PROPERTIES
    DecoderRecovers
CHECK_DEADLOCK FALSE
