CONSTANTS
    Hosts = {h1, h2}
    Keys = {k}
    Paths <- MCPaths
    NoPath = 0
    CanFail = TRUE
    MaxQueue = 2
SPECIFICATION Spec
PROPERTY ResolvedOnce
