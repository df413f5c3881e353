SPECIFICATION MCSpec
CONSTANTS
    t1 = t1  a1 = a1  a2 = a2  b1 = b1  b2 = b2  c1 = c1  c2 = c2
    r1 = r1  r2 = r2  s1 = s1  s2 = s2  s3 = s3
    None = None
    Tokens <- OneToken
    Repos <- B
    MaxVersion = 2
    Ops <- AllOps
    Requests <- TwoRequests
    RootRoles <- A  ResetTokens <- B  MaxPassword = 1
    Projects <- A
    Segs <- ThreeSegments  SegmentNames <- A  Strategies <- B  Limit = 2
    GroupIds <- C  GroupNames <- A  Members <- B
    Envs <- ThreeNumbers  Overrides <- TwoNumbers  Linked <- OneToken  Servers <- A  MaxRestarts = 1
    VariantNames <- ThreeNumbers  TotalWeight = 5
    Imported <- A  Secrets <- OneToken
INVARIANTS
    
    
    OneActiveLink
    UsedOnce
    SessionsEnd
    
    SegmentNamesUnique
    SegmentLimitKept
    GroupNamesUnique
    MembersAsAsked
    
    
PROPERTIES
    FallsBehindOnlyByRaces
    DeletedWhenArchived
    StartRemaps
    SparesLivingTokens
SYMMETRY Symmetry
CHECK_DEADLOCK FALSE
