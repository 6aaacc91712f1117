SPECIFICATION Spec
CONSTANTS
    Session = {s1, s2, s3}
    MaxSessions = 2
    AdbMin = 1
    AdbMax = 3
    StreamSpan = 2
    MaxViewers = 1
    Backends = {"container", "emulator"}
    Faults = {"boot", "stop"}
SYMMETRY Symmetry
INVARIANTS
    TypeOK
    PoolsDistinct
    NoPortLost
    ReuseOnlyAfterFullCycle
    ViewersOnlyOnLiveSessions
PROPERTIES
    ImplementsLifecycle
CHECK_DEADLOCK FALSE
