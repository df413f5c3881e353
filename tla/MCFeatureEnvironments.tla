----------------------- MODULE MCFeatureEnvironments -----------------------
(* Instances of FeatureEnvironments for TLC. *)
EXTENDS FeatureEnvironments, TLC

CONSTANTS f1, p1, p2, e1, e2, s1, s2, r1, r2, r3

OneFeature == {f1}
TwoProjects == {p1, p2}
TwoEnvs == {e1, e2}
OneId == {s1}
TwoIds == {s1, s2}
OneRequest == {r1}
TwoRequests == {r1, r2}
ThreeRequests == {r1, r2, r3}

\* The API without the legacy endpoints, each strategy deleted through the
\* URL of its own environment, and no failures.
ProjectApi == AllOps \ {"legacyUpdate", "foreignEnv", "fail"}
RowOps == {"createStrategy", "createFeature", "archive", "deleteFeature", "addEnvironment",
           "removeEnvironment", "changeProject", "updateStale", "fail"}
RacingOps == {"createStrategy", "deleteStrategy", "updateEnabled", "legacyUpdate", "foreignEnv"}
StrategyOps == {"createStrategy", "deleteStrategy", "updateEnabled"}
ForeignEnvOps == StrategyOps \cup {"foreignEnv"}

\* Only sets of which no element has a role of its own.
Symmetry == Permutations(TwoProjects) \cup Permutations(TwoIds)
SymmetryRequests == Symmetry \cup Permutations(ThreeRequests)
=============================================================================
