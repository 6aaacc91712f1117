SPECIFICATION Spec
CONSTANTS
    Session = {s1, s2}
    MaxSessions = 2
    AdbMin = 1
    AdbMax = 3
    StreamSpan = 2
    MaxViewers = 0
    Backends = {"container"}
    Faults = {"boot"}
PROPERTIES
    FailureIsPollable
CHECK_DEADLOCK FALSE
