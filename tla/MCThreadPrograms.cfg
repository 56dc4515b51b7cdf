CONSTANTS
    p1 = p1
    p2 = p2
    k1 = k1
    k2 = k2
    r1 = r1
    r2 = r2
    r3 = r3
    r4 = r4
    Producers = {p1, p2}
    Consumers = {k1, k2}
    buffer_size = 2
    bufferSize = 2
    Rounds = 3
    Routines = {r1, r2, r3, r4}
    MAX_THREADS_IN_CRITICAL = 3
SPECIFICATION ProgramsSpec
INVARIANTS
    AllTypeOK
    AccessInBounds
    SemaphoresAgree
    ConsumedOnce
    ConsumerFindsItem
    CountersAgree
PROPERTY EveryThreadFinishes
CHECK_DEADLOCK FALSE
