CONSTANTS
    c1 = c1
    c2 = c2
    NoClient = NoClient
    Clients = {c1, c2}
    Requests <- SafetyRequests
    Responses <- SafetyResponses
    LoadedRoutes <- MCRoutes
    Backlog = 2
    BufferSize = 12
    RelaySize = 2
    ZeroSends = TRUE
    BackendFails = TRUE
    MaxMethod = 1
    MaxHeaders = 3
    MaxRequest = 11
    MaxOverread = 1
SYMMETRY Symmetry
SPECIFICATION Spec
INVARIANTS
    TypeOK
    OneConnection
    ForwardedIsRequest
    OnlyRejectedRequestsLeak
PROPERTY KeepsGatewayPromise
