SPECIFICATION MCSpec
CONSTANTS
    t1 = t1  q1 = q1  q2 = q2
    m1 = m1  m2 = m2  a1 = a1  a2 = a2
    v1 = v1  v2 = v2  e1 = e1  e2 = e2
    None = None
    Tokens <- OneToken
    Repos <- TwoRepos
    MaxVersion = 2
    Ops <- Spaced
    Servers <- TwoServers
    MaxFetches = 2  MaxRestarts = 1
    Requests <- TwoRequests  Values <- TwoValues
    Addons <- TwoAddons  Steady <- OneApp  MaxEvents = 3
    Registrars <- OneServer  Apps <- OneApp  Envs <- TwoEnvs
    MaxFlushes = 2  MaxEdits = 1  MayDelete = TRUE
    MayFail = TRUE
INVARIANTS
    InOrder
    AnnouncedOnce
PROPERTIES
    EventuallyFresh
    EventuallyExact
    StaleOnlyByRaces
    EventuallyDelivered
    EventuallyStops
    EventuallyRegistered
CHECK_DEADLOCK FALSE
