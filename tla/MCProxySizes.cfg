CONSTANTS
    c1 = c1
    c2 = c2
    NoClient = NoClient
    Clients = {c1}
    Requests <- SizeRequests
    Responses <- Long
    LoadedRoutes <- MCRoutes
    Backlog = 2
    BufferSize = 12
    RelaySize = 2
    ZeroSends = FALSE
    BackendFails = FALSE
    MaxMethod = 1
    MaxHeaders = 2
    MaxRequest = 12
    MaxOverread = 1
SPECIFICATION Spec
INVARIANTS
    DeliveredFaithfully
    AnsweredInFull
CHECK_DEADLOCK FALSE
