CONSTANTS
    Clients = {c1, c2, c3}
    NoClient = NoClient
    Fds = {5, 6}
    server_fd = 3
    MAX_EVENTS = 2
    Backlog = 2
SPECIFICATION Spec
INVARIANTS
    TypeOK
    EventsAreCurrent
    DescriptorsAgree
PROPERTIES
    Served
CHECK_DEADLOCK FALSE
