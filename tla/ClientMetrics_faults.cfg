SPECIFICATION FairSpec
CONSTANTS
    m1 = m1  m2 = m2  r1 = r1  r2 = r2  r3 = r3  r4 = r4
    Servers <- TwoServers
    Reports <- ThreeReports
    Toggles <- TwoToggles
    Hours <- OneHour
    Batching <- OneServer
    Faults <- AllFaults
INVARIANTS
    NothingLost
    NoDeadlock
PROPERTIES
    ImplementsLedger
    EventuallyCounted
CHECK_DEADLOCK FALSE
