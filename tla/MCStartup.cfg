CONSTANTS
    Tables <- MCTables
    Paths <- MCPaths
    Files <- MCFiles
    MAX_ROUTES = 3
SPECIFICATION StartSpec
INVARIANTS
    TypeOK
    LongestPrefixMatch
    LoadedAsWritten
CHECK_DEADLOCK FALSE
