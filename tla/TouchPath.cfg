SPECIFICATION Spec
CONSTANTS
    Session = {s1, s2}
    Finger = {f1, f2}
    NoSession = NoSession
    Width = 10
    Grid = 7
    NotFinite = NotFinite
INVARIANTS
    TypeOK
    NoFingerLeft
    PixelsOnScreen
PROPERTIES
    StrayOnlyAfterLoss
CHECK_DEADLOCK FALSE
