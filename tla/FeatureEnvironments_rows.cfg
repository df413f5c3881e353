SPECIFICATION Spec
CONSTANTS
    f1 = f1  p1 = p1  p2 = p2  e1 = e1  e2 = e2
    s1 = s1  s2 = s2  r1 = r1  r2 = r2  r3 = r3
    None = None
    DefaultEnv = e1
    Features <- OneFeature
    Projects <- TwoProjects
    Envs <- TwoEnvs
    StrategyIds <- OneId
    Requests <- TwoRequests
    Ops <- RowOps
INVARIANT TypeOK
SYMMETRY SymmetryRequests
