CONSTANTS
    n1 = n1
    n2 = n2
    c1 = c1
    c2 = c2
    NoName = NoName
    Names <- MCNames
    Configs <- MCOneConfig
    ServerStates <- NoServerFailure
    Faults <- NoFaults
    MaxQueue = 2
    Reentrant = TRUE
SPECIFICATION Spec
INVARIANT NoCrash
