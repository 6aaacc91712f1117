SPECIFICATION ProcessFairSpec
CONSTANTS
    Session = {s1, s2}
    MaxSessions = 2
    AdbMin = 1
    AdbMax = 3
    StreamSpan = 2
    MaxViewers = 1
    Backends = {"container"}
    Faults = {"stop", "death"}
    MaxStarts = 2
INVARIANTS
    ProcessTypeOK
    NoContainerForgotten
    ShutdownStopsContainers
PROPERTIES
    ShutdownEnds
    BootSettles
    IdleSessionsAreReaped
CHECK_DEADLOCK FALSE
