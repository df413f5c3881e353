------------------------------ MODULE MCCaches ------------------------------
(***************************************************************************)
(* Caches with one or two values of each kind that a cache needs.           *)
(***************************************************************************)
EXTENDS Caches

CONSTANTS t1, q1, q2, m1, m2, a1, a2, v1, v2, e1, e2

OneToken == {t1}
TwoRepos == {q1, q2}
Spaced == {}
TwoServers == {m1, m2}
OneServer == {m1}
OneApp == {a1}
TwoEnvs == {e1, e2}
TwoAddons == {a1, a2}
TwoRequests == {1, 2}
TwoValues == {v1, v2}

\* What a cache begins with matters only if it is in focus.
MCInit ==
    /\ CachesInit
    /\ focus = "tokens" \/ initApiTokens = {}
    /\ focus = "settings" \/ content = Se!Undefined

MCSpec == MCInit /\ [][CachesNext]_allVars /\ CachesFairness
=============================================================================
