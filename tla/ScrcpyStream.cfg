SPECIFICATION FairSpec
CONSTANT
    Attempts = 4
INVARIANTS
    RolesAgree
    ClosedStreamsHoldNoSocket
PROPERTIES
    StartSettles
    ClosedStreamIsGone
    NothingOutlivesDevice
    EndIsHeard
CHECK_DEADLOCK FALSE
