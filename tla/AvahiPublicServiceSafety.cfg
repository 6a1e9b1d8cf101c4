CONSTANTS
    n1 = n1
    n2 = n2
    c1 = c1
    c2 = c2
    NoName = NoName
    Names <- MCNames
    Configs <- MCConfigs
    ServerStates <- AllServerStates
    Faults <- ResetObeyed
    MaxQueue = 3
    Reentrant = TRUE
SPECIFICATION Spec
SYMMETRY Symmetry
INVARIANTS
    TypeOK
    StoppedIsWithdrawn
    CollisionIsWithdrawn
    AnnouncedIsCurrent
    NoLostWakeup
    VerdictNotLost
    AppNeverStranded
