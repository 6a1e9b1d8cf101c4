CONSTANTS
    eth = eth
    wlan = wlan
    lan = lan
    vpn = vpn
    Announcements <- MCAnnouncements
    WireOf <- MCWireOf
    Configured <- MCConfigured
    Failures = {"refused", "no socket"}
    CanFail = TRUE
    DaemonMayDie = TRUE
    MaxQueue = 2
    MaxNesting = 1
SPECIFICATION Spec
INVARIANTS
    TypeOK
    ListIsCurrent
    DomainsAreDistinct
    ViewShowsDomains
PROPERTIES
    ImplementsDirectory
