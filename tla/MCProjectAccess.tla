--------------------------- MODULE MCProjectAccess ---------------------------
(* Instances of ProjectAccess for TLC.                                      *)
EXTENDS ProjectAccess, TLC

CONSTANTS u1, u2, u3, g1, r1, r2

\* Everything but what takes the owner role away unseen, and what gives a role
\* whoever has another.
SerialOps == AllOps \ {"removeGroup", "deleteGroup", "deleteUser", "addAccess"}

Symmetry == Permutations(Users) \cup Permutations(Groups) \cup Permutations(CustomRoles)
                \cup Permutations(Requests)
=============================================================================
