CONSTANTS
    eth = eth
    wlan = wlan
    other = other
    Announcements <- MCAnnouncements
    TypeOf <- MCTypeOf
    CanFail = TRUE
    DaemonMayDie = TRUE
    MaxQueue = 3
SPECIFICATION FairSpec
PROPERTY StartConcludes
