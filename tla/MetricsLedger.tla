---------------------------- MODULE MetricsLedger ----------------------------
(***************************************************************************)
(* What the metrics pipeline promises to those who read the usage counts:  *)
(* a count that a client reported and the server took is added to the      *)
(* stored counts at most once, and nothing is added that was not taken.    *)
(***************************************************************************)
EXTENDS Naturals

CONSTANT Items      \* one count each: of a toggle, in a client's report

VARIABLES taken,    \* the counts that the server has taken
          counted   \* how often each was added to the stored counts

vars == <<taken, counted>>

Init == taken = {} /\ counted = [x \in Items |-> 0]

Take(S) == /\ taken' = taken \cup S
           /\ UNCHANGED counted

Count(S) == /\ S \subseteq taken
            /\ \A x \in S : counted[x] = 0
            /\ counted' = [x \in Items |-> IF x \in S THEN 1 ELSE counted[x]]
            /\ UNCHANGED taken

Next == \E S \in SUBSET Items : Take(S) \/ Count(S)

Spec == Init /\ [][Next]_vars
=============================================================================
