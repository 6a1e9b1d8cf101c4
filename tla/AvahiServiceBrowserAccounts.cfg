CONSTANTS
    eth = eth
    wlan = wlan
    other = other
    Announcements <- MCAnnouncements
    NameOf <- MCNameOf
    Ids = {1, 2, 3}
    CanFail = FALSE
    DaemonMayDie = TRUE
    MaxQueue = 2
    MaxNesting = 1
SPECIFICATION Spec
INVARIANTS
    InstancesAccounted
    BatchHasAnEnd
