----------------------------- MODULE MCServices -----------------------------
(***************************************************************************)
(* Services with two or three values of each kind that a service needs.     *)
(***************************************************************************)
EXTENDS Services, TLC

CONSTANTS t1, a1, a2, b1, b2, c1, c2, r1, r2, s1, s2, s3

OneToken == {t1}
A == {a1, a2}
B == {b1, b2}
C == {c1, c2}
ThreeSegments == {s1, s2, s3}
TwoRequests == {r1, r2}
ThreeNumbers == {1, 2, 3}
TwoNumbers == {1, 2}
Symmetry == Permutations(A) \cup Permutations(B) \cup Permutations(TwoRequests)

\* What a service begins with matters only if it is in focus.
MCInit ==
    /\ ServicesInit
    /\ focus = "override" \/ (enabled = {1} /\ projectLinks[t1] = {1})
    /\ focus = "import" \/ environments = {}

MCSpec == MCInit /\ [][ServicesNext]_allVars
=============================================================================
