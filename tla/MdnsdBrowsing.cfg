CONSTANTS
    Names <- MCNames
    Interfaces <- MCInterfaces
    Failures = {"refused"}
    CanFail = TRUE
    MayBreak = TRUE
    MaxQueue = 2
    MaxObjects = 2
SPECIFICATION FairSpec
INVARIANTS
    TypeOK
    InstancesAccounted
    ObserversFollow
PROPERTIES
    BatchConcludes
