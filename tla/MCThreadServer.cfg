CONSTANTS
    Clients = {1, 2, 3}
    NoClient = 0
    Workers = {t1, t2}
    Fds = {4, 5}
    Blocks = {b1, b2, b3}
    Junk = Junk
    Freed = Freed
    Backlog = 1
SPECIFICATION Spec
INVARIANTS
    TypeOK
    OwnClient
    SecondCloseIsHarmless
    FreedOnce
PROPERTIES
    Served
CHECK_DEADLOCK FALSE
