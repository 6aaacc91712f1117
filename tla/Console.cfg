SPECIFICATION FairSpec
CONSTANTS
    Session = {s1, s2}
    MaxSessions = 2
    NoSession = NoSession
INVARIANTS
    TypeOK
    ViewportIsLive
PROPERTIES
    
    DeadCanvasGoes
CHECK_DEADLOCK FALSE
