SPECIFICATION FairSpec
CONSTANTS
    PreambleSizes <- MCPreambleSizes
    HeaderSize = 2
    Lengths = {0, 1, 4, 6, 9}
    MaxFrames = 3
    MaxChunk = 3
    MaxLength = 8
    PauseAbove = 4
    ResumeBelow = 2
    Resets = TRUE
INVARIANTS
    TypeOK
    FramesIntact
    EndLosesNoFrame
    NeverStarved
PROPERTIES
    FittingReadsSettle
CHECK_DEADLOCK FALSE
