------------------------------ MODULE Variants ------------------------------
(***************************************************************************)
(* The variants of a feature toggle: how saveVariants sets their weights,   *)
(* how a client selects the variant of a user, and in which order the       *)
(* variants are stored.  A name is a number, so that its order is that of   *)
(* localeCompare; a user is the hash of its id, modulo the total weight.    *)
(***************************************************************************)
EXTENDS Integers, Sequences, FiniteSets

CONSTANTS
    Names,   \* names of variants, numbers
    Total    \* the total weight: 1000

VARIABLES
    stored   \* features.variants: what clients are given, in this order

vars == <<stored>>

Indices == DOMAIN stored

\* The sum of the weights of the variants in the places I, as a number of units.
Units(variants, I) == UNION {{i} \X (1..variants[i].weight) : i \in I}
WeightIn(variants, I) == Cardinality(Units(variants, I))
WeightOf(variants) == WeightIn(variants, DOMAIN variants)

\* The place in S whose key is the n-th.
Nth(S, key, n) == CHOOSE i \in S : Cardinality({j \in S : key[j] <= key[i]}) = n

\* What the schema lets through: names are unique.
Variant == [name : Names, fix : BOOLEAN, weight : 0..Total]

Lists ==
    UNION {{l \in [1..n -> Variant] :
              /\ \A i, j \in 1..n : l[i].name = l[j].name => i = j
              /\ \A i \in 1..n : l[i].fix \/ l[i].weight = 0} : n \in 0..Cardinality(Names)}

-----------------------------------------------------------------------------
(* fixVariantWeights: the variable variants share what the fixed ones       *)
(* leave; the first of them get one more each while there is a remainder.   *)

Filter(variants, fix) ==
    LET picked == {i \in DOMAIN variants : variants[i].fix = fix}
    IN  [n \in 1..Cardinality(picked) |-> variants[Nth(picked, [i \in picked |-> i], n)]]

Variable(variants) == Filter(variants, FALSE)
Fixed(variants) == Filter(variants, TRUE)

Acceptable(variants) ==
    /\ variants # <<>> => Variable(variants) # <<>>
    /\ WeightOf(Fixed(variants)) <= Total

\* Mutant: the remainder is given to none.
AverageWeight(rest, n, i) == rest \div n

ShareOf(rest, n, i) == (rest \div n) + (IF i <= rest % n THEN 1 ELSE 0)

FixVariantWeights(variants) ==
    LET variable == Variable(variants)
        rest == Total - WeightOf(Fixed(variants))
        n == Len(variable)
    IN  [i \in 1..n |-> [variable[i] EXCEPT !.weight = ShareOf(rest, n, i)]] \o Fixed(variants)

\* A weight that cannot be accepted makes the request fail.
SaveVariants ==
    \E list \in Lists : Acceptable(list) /\ stored' = FixVariantWeights(list)

\* A write of the whole row (updateStale, patchFeature, changeProject) stores
\* the variants as they were read: sorted by name.
SortedByName(variants) ==
    LET name == [i \in DOMAIN variants |-> variants[i].name]
    IN  [n \in DOMAIN variants |-> variants[Nth(DOMAIN variants, name, n)]]

WriteRow == stored' = SortedByName(stored)

-----------------------------------------------------------------------------
(* selectVariant: the first variant at which the weights so far reach the   *)
(* target.  Clients get the stored order.                                   *)

\* Mutant: a target on the border belongs to the next variant.
PastTarget(counter, target) == counter > target

Reaches(counter, target) == counter >= target

CounterAt(i) == WeightIn(stored, 1..i)

Selects(i, target) == stored[i].weight # 0 /\ Reaches(CounterAt(i), target)

\* 0 when there is none.
SelectVariant(target) ==
    LET hits == {i \in Indices : Selects(i, target)} IN
    IF hits = {} THEN 0 ELSE stored[CHOOSE i \in hits : \A j \in hits : i <= j].name

-----------------------------------------------------------------------------
Init == stored = <<>>

Next == SaveVariants \/ WriteRow

Spec == Init /\ [][Next]_vars
-----------------------------------------------------------------------------
(* Properties.                                                             *)

\* Whatever is saved, the weights add up to the total, and those of the variable
\* variants differ by one at most.
WeightsAddUp ==
    stored # <<>> =>
        /\ WeightOf(stored) = Total
        /\ \A i, j \in Indices :
              ~stored[i].fix /\ ~stored[j].fix => stored[i].weight - stored[j].weight \in -1..1

\* The users of a variant are as many as its weight says, so every user has
\* exactly one, also at the borders and when a weight is zero.
ShareIsWeight ==
    \A i \in Indices :
        Cardinality({t \in 1..Total : SelectVariant(t) = stored[i].name}) = stored[i].weight

\* "The same user will consistently see the same variant barring overrides and
\* weight changes": nothing but a change of the variants changes what a user
\* gets.
VariantIsSticky ==
    [][WriteRow => \A t \in 1..Total : SelectVariant(t) = SelectVariant(t)']_vars
=============================================================================
