CONSTANTS
    eth = eth
    wlan = wlan
    other = other
    Announcements <- OneService
    NameOf <- OneServiceName
    Ids = {1, 2}
    CanFail = FALSE
    DaemonMayDie = FALSE
    MaxQueue = 2
    MaxNesting = 0
SPECIFICATION Spec
PROPERTY FinishedWhenSettled
