CONSTANTS
    w1 = w1
    w2 = w2
    w3 = w3
    Main = Main
    NoThread = NoThread
    Workers = {w1, w2, w3}
    QueueSize = 4
    NumTasks = 4
    MaxSpurious = 2
SPECIFICATION FairSpec
INVARIANTS
    TypeOK
    QueuedInOrder
    EachTaskOnce
    EnoughAwake
PROPERTY AllExecuted
CHECK_DEADLOCK FALSE
