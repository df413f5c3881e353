SPECIFICATION Spec
CONSTANTS
    m1 = m1  m2 = m2  r1 = r1  r2 = r2  r3 = r3  r4 = r4
    Servers <- TwoServers
    Reports <- FourReports
    Toggles <- TwoToggles
    Hours <- TwoHours
    Batching <- TwoServers
    Faults <- NoFaults
INVARIANT NoDeadlock
SYMMETRY Symmetry
CHECK_DEADLOCK FALSE
