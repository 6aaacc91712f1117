SPECIFICATION Spec
CONSTANTS
    r1 = r1
    r2 = r2
    Request = {r1, r2}
    NoPage = NoPage
    Ids = 3
    MaxSessions = 2
    LastScroll <- MCLastScroll
    MaxScrolls = 2
    TopSwipes = 4
INVARIANTS
    PictureIsOwn
CHECK_DEADLOCK FALSE
