SPECIFICATION PgSpec
CONSTANTS
    PgHome <- MCPgHome
    PgParents <- MCPgParents
    PgLinks <- MCPgLinks
    PgAccepted = {"demo", "scan", "car"}
    PgSeeded = {"demo"}
    MaxVersion = 2
    MaxOutages = 1
INVARIANTS RewritesTouched
