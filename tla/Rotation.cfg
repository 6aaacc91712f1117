SPECIFICATION Spec
CONSTANTS
    Session = {s1}
    Finger = {f1}
    NoSession = NoSession
    Width = 10
    Grid = 7
    NotFinite = NotFinite
PROPERTIES
    TouchesFollowRotation
CHECK_DEADLOCK FALSE
