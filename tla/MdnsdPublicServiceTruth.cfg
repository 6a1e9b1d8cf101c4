CONSTANTS
    n1 = n1
    n2 = n2
    c1 = c1
    c2 = c2
    Names <- MCNames
    Configs <- MCConfigs
    Failures = {"refused", "no socket"}
    CanFail = TRUE
    DaemonMayDie = TRUE
    MaxReplies = 2
    MaxNesting = 2
SPECIFICATION Spec
PROPERTY PublishIsTruthful
