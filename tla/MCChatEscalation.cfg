SPECIFICATION Spec
CONSTANTS
    r1 = r1
    r2 = r2
    none = none
    Changes = {r1, r2}
    Posts <- MCPosts
    EnvKeys = {"paid"}
    Reports <- MCReports
    Asks <- MCAsks
    NoFinding = none
    MaxToolCalls = 2
INVARIANT EscalationsResolve
