CONSTANTS
    n1 = n1
    n2 = n2
    c1 = c1
    c2 = c2
    NoName = NoName
    Names <- MCNames
    Configs <- MCConfigs
    ServerStates <- NoServerFailure
    Faults <- CommitAccepted
    MaxQueue = 2
    Failures = {"refused", "no socket"}
    MaxReplies = 2
    MaxNesting = 2
SPECIFICATION FairSpec
INVARIANTS
    TypeOK
    NoConnectionLeaks
    AnnouncedIsCurrent
    PublishedIsConfirmed
    AppNeverStranded
PROPERTIES
    PublishTerminates
    AsyncCompletes
