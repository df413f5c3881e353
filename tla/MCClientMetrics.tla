--------------------------- MODULE MCClientMetrics ---------------------------
(* Instances of ClientMetrics for TLC. *)
EXTENDS ClientMetrics, TLC

CONSTANTS m1, m2, r1, r2, r3, r4

OneServer == {m1}
TwoServers == {m1, m2}
ThreeReports == {r1, r2, r3}
FourReports == {r1, r2, r3, r4}
TwoToggles == {1, 2}
OneHour == {10}
TwoHours == {10, 11}
NoFaults == {}
AllFaults == {"fail", "stop"}

\* Where only one of the servers batches, they differ.
SymmetryReports == Permutations(FourReports)
Symmetry == Permutations(TwoServers) \cup SymmetryReports
=============================================================================
