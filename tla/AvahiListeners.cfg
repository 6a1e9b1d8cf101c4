CONSTANTS
    eth = eth
    wlan = wlan
    other = other
    ServiceInstances <- MCServiceInstances
    NameOf <- MCNameOf
    Ids = {1, 2}
    MaxNesting = 1
    TypeInstances <- MCTypeInstances
    TypeOf <- MCTypeOf
    Hosts = {h1, h2}
    Keys = {k}
    Paths <- MCPaths
    NoPath = 0
    CanFail = TRUE
    MaxQueue = 2
SPECIFICATION FairSpec
INVARIANTS
    TypeOK
    AnswerComing
    ListIsCurrent
    OneResolver
    OwnAnswer
    Monitored
PROPERTIES
    ImplementsDirectory
    BatchConcludes
    ResolveTerminates
