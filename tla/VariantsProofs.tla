--------------------------- MODULE VariantsProofs ---------------------------
(***************************************************************************)
(* For any names and any total weight: what is saved adds up to the total, *)
(* and as many users get a variant as its weight says.                     *)
(***************************************************************************)
EXTENDS Variants, FiniteSetTheorems, TLAPS

-----------------------------------------------------------------------------
(* Sums of weights, as numbers of units.                                   *)

\* What the constants are: names are numbers, so that they have an order.
VariantConstants == Names \in SUBSET Int /\ IsFiniteSet(Names) /\ Total \in Nat

\* The numbers from one to n are n.
LEMMA FirstNumbers ==
    ASSUME NEW n \in Nat
    PROVE  IsFiniteSet(1..n) /\ Cardinality(1..n) = n
<1>1. IsFiniteSet(1..n) /\ Cardinality(1..n) = IF 1 > n THEN 0 ELSE n - 1 + 1
  BY FS_Interval
<1>. QED
  BY <1>1

\* The units of finitely many variants are finitely many.
LEMMA UnitsFinite ==
    ASSUME NEW list, NEW I, IsFiniteSet(I), \A i \in I : list[i].weight \in Nat
    PROVE  IsFiniteSet(Units(list, I)) /\ WeightIn(list, I) \in Nat
<1>. DEFINE of == [i \in I |-> {i} \X (1..list[i].weight)]
            sets == {of[i] : i \in I}
<1>1. of \in Surjection(I, sets)
  <2>1. of \in [I -> sets] /\ \A s \in sets : \E i \in I : of[i] = s
    OBVIOUS
  <2>. QED
    BY <2>1 DEF Surjection
<1>2. IsFiniteSet(sets)
  BY <1>1, FS_Surjection
<1>3. ASSUME NEW s \in sets
      PROVE  IsFiniteSet(s)
  <2>1. PICK i \in I : s = {i} \X (1..list[i].weight)
    OBVIOUS
  <2>2. IsFiniteSet({i}) /\ IsFiniteSet(1..list[i].weight)
    BY <2>1, FS_Singleton, FirstNumbers
  <2>. QED
    BY <2>1, <2>2, FS_Product
<1>4. Units(list, I) = UNION sets
  BY DEF Units
<1>. QED
  BY <1>2, <1>3, <1>4, FS_UNION, FS_CardinalityType DEF WeightIn

\* No variants have no weight.
LEMMA WeightOfNone ==
    ASSUME NEW list
    PROVE  WeightIn(list, {}) = 0
<1>1. Units(list, {}) = {}
  BY DEF Units
<1>. QED
  BY <1>1, FS_EmptySet DEF WeightIn

\* The weight of one variant is its own.
LEMMA WeightOfOne ==
    ASSUME NEW list, NEW i, list[i].weight \in Nat
    PROVE  WeightIn(list, {i}) = list[i].weight
<1>1. Units(list, {i}) = {i} \X (1..list[i].weight)
  BY DEF Units
<1>2. IsFiniteSet({i}) /\ Cardinality({i}) = 1
  BY FS_Singleton
<1>3. IsFiniteSet(1..list[i].weight) /\ Cardinality(1..list[i].weight) = list[i].weight
  BY FirstNumbers
<1>4. Cardinality({i} \X (1..list[i].weight)) = 1 * list[i].weight
  BY <1>2, <1>3, FS_Product
<1>5. 1 * list[i].weight = list[i].weight
  OBVIOUS
<1>. QED
  BY <1>1, <1>4, <1>5 DEF WeightIn

\* The weight of disjoint places is the sum of their weights.
LEMMA WeightOfBoth ==
    ASSUME NEW list, NEW I, NEW J, IsFiniteSet(I), IsFiniteSet(J), I \cap J = {},
           \A i \in I \cup J : list[i].weight \in Nat
    PROVE  WeightIn(list, I \cup J) = WeightIn(list, I) + WeightIn(list, J)
<1>1. Units(list, I \cup J) = Units(list, I) \cup Units(list, J)
  BY DEF Units
<1>2. Units(list, I) \cap Units(list, J) = {}
  BY DEF Units
<1>3. /\ IsFiniteSet(Units(list, I)) /\ IsFiniteSet(Units(list, J))
      /\ WeightIn(list, I) \in Nat /\ WeightIn(list, J) \in Nat
  BY UnitsFinite
<1>. DEFINE A == Units(list, I)
            B == Units(list, J)
<1>4. /\ IsFiniteSet(A) /\ IsFiniteSet(B) /\ A \cap B = {} /\ Cardinality({}) = 0
      /\ Cardinality(A) \in Nat /\ Cardinality(B) \in Nat
  BY <1>2, <1>3, FS_EmptySet DEF WeightIn
<1>5. Cardinality(A \cup B) = Cardinality(A) + Cardinality(B)
  <2>. HIDE DEF A, B
  <2>1. Cardinality(A \cup B) = Cardinality(A) + Cardinality(B) - Cardinality(A \cap B)
    BY <1>4, FS_Union
  <2>2. Cardinality(A \cap B) = 0
    BY <1>4
  <2>. QED
    BY <1>4, <2>1, <2>2
<1>. QED
  BY <1>1, <1>5 DEF WeightIn

\* More places weigh at least as much.
LEMMA WeightGrows ==
    ASSUME NEW list, NEW I, NEW J, IsFiniteSet(J), I \subseteq J,
           \A i \in J : list[i].weight \in Nat
    PROVE  WeightIn(list, I) <= WeightIn(list, J)
<1>1. Units(list, I) \in SUBSET Units(list, J)
  BY DEF Units
<1>2. IsFiniteSet(Units(list, J))
  BY UnitsFinite
<1>. QED
  BY <1>1, <1>2, FS_Subset DEF WeightIn

\* The same weights in other places add up to the same.
LEMMA WeightMoves ==
    ASSUME NEW list, NEW other, NEW I, NEW J, IsFiniteSet(I), NEW f \in Bijection(I, J),
           \A i \in I : list[i].weight \in Nat /\ other[f[i]].weight = list[i].weight
    PROVE  WeightIn(other, J) = WeightIn(list, I)
<1>. DEFINE A == Units(list, I)
            B == Units(other, J)
            g == [u \in A |-> <<f[u[1]], u[2]>>]
<1>0. /\ f \in [I -> J]
      /\ \A a, b \in I : f[a] = f[b] => a = b
      /\ \A j \in J : \E i \in I : f[i] = j
  BY DEF Bijection, Injection, Surjection, IsInjective
<1>1. A = {u \in I \X Nat : u[2] \in 1..list[u[1]].weight}
  BY DEF Units
<1>2. \A j \in J : other[j].weight \in Nat
  BY <1>0
<1>3. B = {u \in J \X Nat : u[2] \in 1..other[u[1]].weight}
  BY <1>2 DEF Units
<1>. HIDE DEF A, B
<1>4. g \in [A -> B]
  BY <1>0, <1>1, <1>3
<1>5. \A a, b \in A : g[a] = g[b] => a = b
  BY <1>0, <1>1
<1>6. ASSUME NEW b \in B
      PROVE  \E a \in A : g[a] = b
  <2>1. PICK i \in I : f[i] = b[1]
    BY <1>0, <1>3
  <2>2. <<i, b[2]>> \in A
    BY <1>1, <1>3, <2>1
  <2>3. g[<<i, b[2]>>] = b
    BY <1>3, <2>1, <2>2
  <2>. QED
    BY <2>2, <2>3
<1>7. g \in Bijection(A, B)
  BY <1>4, <1>5, <1>6 DEF Bijection, Injection, Surjection, IsInjective
<1>8. IsFiniteSet(A)
  BY UnitsFinite DEF A
<1>. QED
  <2>. HIDE DEF g
  <2>1. Cardinality(B) = Cardinality(A)
    BY <1>7, <1>8, FS_Bijection DEF ExistsBijection
  <2>. QED
    BY <2>1 DEF A, B, WeightIn

-----------------------------------------------------------------------------
(* Places in order.                                                        *)

\* Keys that differ give every place its rank, and every rank its place.
LEMMA Ranks ==
    ASSUME NEW S, IsFiniteSet(S), NEW key \in [S -> Int],
           \A i, j \in S : key[i] = key[j] => i = j
    PROVE  [n \in 1..Cardinality(S) |-> Nth(S, key, n)] \in Bijection(1..Cardinality(S), S)
<1>. DEFINE Upto(i) == {j \in S : key[j] <= key[i]}
            c == Cardinality(S)
            rank == [i \in S |-> Cardinality(Upto(i))]
            nth == [n \in 1..c |-> Nth(S, key, n)]
<1>0. c \in Nat /\ IsFiniteSet(1..c) /\ Cardinality(1..c) = c
  BY FS_CardinalityType, FS_Interval
<1>1. ASSUME NEW i \in S
      PROVE  IsFiniteSet(Upto(i)) /\ Cardinality(Upto(i)) \in 1..c
  <2>1. Upto(i) \in SUBSET S /\ i \in Upto(i)
    OBVIOUS
  <2>2. IsFiniteSet(Upto(i)) /\ Cardinality(Upto(i)) <= c /\ Cardinality(Upto(i)) \in Nat
    BY <2>1, FS_Subset, FS_CardinalityType
  <2>3. Cardinality(Upto(i)) # 0
    BY <2>1, <2>2, FS_EmptySet
  <2>. QED
    BY <1>0, <2>2, <2>3
<1>2. ASSUME NEW i \in S, NEW j \in S, key[i] < key[j]
      PROVE  Cardinality(Upto(i)) < Cardinality(Upto(j))
  <2>1. Upto(i) \in SUBSET Upto(j) /\ j \in Upto(j) /\ j \notin Upto(i)
    BY <1>2
  <2>2. IsFiniteSet(Upto(j)) /\ Cardinality(Upto(i)) \in Nat /\ Cardinality(Upto(j)) \in Nat
    BY <1>1
  <2>. HIDE DEF Upto
  <2>3. Cardinality(Upto(i)) <= Cardinality(Upto(j)) /\ Cardinality(Upto(i)) # Cardinality(Upto(j))
    BY <2>1, <2>2, FS_Subset
  <2>. QED
    BY <2>2, <2>3
<1>3. rank \in Injection(S, 1..c)
  <2>1. rank \in [S -> 1..c]
    BY <1>1
  <2>2. ASSUME NEW i \in S, NEW j \in S, rank[i] = rank[j]
        PROVE  i = j
    <3>. HIDE DEF Upto
    <3>1. rank[i] = Cardinality(Upto(i)) /\ rank[j] = Cardinality(Upto(j))
      OBVIOUS
    <3>2. ~(key[i] < key[j]) /\ ~(key[j] < key[i])
      BY <1>1, <1>2, <2>2, <3>1
    <3>. QED
      BY <3>2
  <2>. QED
    BY <2>1, <2>2 DEF Injection, IsInjective
<1>4. rank \in Surjection(S, 1..c)
  BY <1>0, <1>3, FS_Injection
<1>5. ASSUME NEW n \in 1..c
      PROVE  nth[n] \in S /\ rank[nth[n]] = n
  <2>1. PICK i \in S : rank[i] = n
    BY <1>4 DEF Surjection
  <2>2. nth[n] = CHOOSE k \in S : Cardinality(Upto(k)) = n
    BY DEF Nth
  <2>. QED
    BY <2>1, <2>2
<1>6. ASSUME NEW i \in S
      PROVE  rank[i] \in 1..c /\ nth[rank[i]] = i
  <2>1. rank[i] \in 1..c
    BY <1>1
  <2>. HIDE DEF rank, nth, c
  <2>2. nth[rank[i]] \in S /\ rank[nth[rank[i]]] = rank[i]
    BY <1>5, <2>1
  <2>. QED
    BY <1>3, <2>1, <2>2 DEF Injection, IsInjective
<1>. HIDE DEF rank, nth
<1>7. nth \in [1..c -> S]
  BY <1>5 DEF nth
<1>8. nth \in Bijection(1..c, S)
  BY <1>5, <1>6, <1>7 DEF Bijection, Injection, Surjection, IsInjective
<1>. QED
  BY <1>8 DEF nth

-----------------------------------------------------------------------------
(* Lists of variants, rearranged and filtered.                             *)

Entry == [name : Names, fix : BOOLEAN, weight : Nat]

NamesDiffer(list) == \A i, j \in DOMAIN list : list[i].name = list[j].name => i = j

\* The variants in the places f[1] to f[m].
Picked(list, f, m) == [k \in 1..m |-> list[f[k]]]

\* Taking the variants of some places, each once and in any order, keeps their
\* weight, and names that differ.
LEMMA Rearranged ==
    ASSUME NEW n \in Nat, NEW list \in [1..n -> Entry], NEW I \in SUBSET (1..n),
           NEW m \in Nat, NEW f \in Bijection(1..m, I)
    PROVE  /\ Picked(list, f, m) \in [1..m -> Entry]
           /\ \A k \in 1..m : f[k] \in I /\ Picked(list, f, m)[k] = list[f[k]]
           /\ WeightOf(Picked(list, f, m)) = WeightIn(list, I)
           /\ NamesDiffer(list) => NamesDiffer(Picked(list, f, m))
<1>. DEFINE moved == Picked(list, f, m)
<1>1. /\ f \in [1..m -> I]
      /\ \A a, b \in 1..m : f[a] = f[b] => a = b
      /\ \A i \in I : \E k \in 1..m : f[k] = i
  BY DEF Bijection, Injection, Surjection, IsInjective
<1>2. moved \in [1..m -> Entry] /\ \A k \in 1..m : f[k] \in I /\ moved[k] = list[f[k]]
  BY <1>1 DEF Picked
<1>. HIDE DEF moved
<1>3. WeightIn(list, I) = WeightIn(moved, 1..m)
  <2>1. IsFiniteSet(1..m)
    BY FirstNumbers
  <2>2. \A k \in 1..m : moved[k].weight \in Nat /\ list[f[k]].weight = moved[k].weight
    BY <1>2 DEF Entry
  <2>. QED
    BY <2>1, <2>2, WeightMoves
<1>4. NamesDiffer(list) => NamesDiffer(moved)
  <2>. SUFFICES ASSUME NamesDiffer(list), NEW a \in 1..m, NEW b \in 1..m,
                       moved[a].name = moved[b].name
                PROVE  a = b
    BY <1>2 DEF NamesDiffer
  <2>1. f[a] \in 1..n /\ f[b] \in 1..n /\ list[f[a]].name = list[f[b]].name
    BY <1>2
  <2>2. f[a] = f[b]
    BY <2>1 DEF NamesDiffer
  <2>. QED
    BY <1>1, <2>2
<1>. QED
  BY <1>2, <1>3, <1>4 DEF WeightOf, moved

\* The fixed, or the variable, variants of a list are variants of the list.
LEMMA Filtered ==
    ASSUME NEW n \in Nat, NEW list \in [1..n -> Entry], NamesDiffer(list), NEW fix \in BOOLEAN
    PROVE  \E m \in Nat :
             /\ Filter(list, fix) \in [1..m -> Entry]
             /\ NamesDiffer(Filter(list, fix))
             /\ \A k \in 1..m : \E i \in 1..n : list[i].fix = fix /\ Filter(list, fix)[k] = list[i]
<1>. DEFINE picked == {i \in DOMAIN list : list[i].fix = fix}
            key == [i \in picked |-> i]
            m == Cardinality(picked)
            f == [k \in 1..m |-> Nth(picked, key, k)]
<1>1. picked \in SUBSET (1..n)
  OBVIOUS
<1>2. IsFiniteSet(picked) /\ m \in Nat
  BY <1>1, FirstNumbers, FS_Subset, FS_CardinalityType
<1>3. key \in [picked -> Int] /\ \A i, j \in picked : key[i] = key[j] => i = j
  BY <1>1
<1>4. f \in Bijection(1..m, picked)
  <2>. HIDE DEF picked, key
  <2>. QED
    BY <1>2, <1>3, Ranks
<1>5. Filter(list, fix) = Picked(list, f, m)
  BY DEF Filter, Picked
<1>6. \A i \in picked : i \in 1..n /\ list[i].fix = fix
  OBVIOUS
<1>. HIDE DEF picked, key, m, f
<1>7. /\ Filter(list, fix) \in [1..m -> Entry]
      /\ \A k \in 1..m : f[k] \in picked /\ Filter(list, fix)[k] = list[f[k]]
      /\ NamesDiffer(Filter(list, fix))
  <2>1. /\ Picked(list, f, m) \in [1..m -> Entry]
        /\ \A k \in 1..m : f[k] \in picked /\ Picked(list, f, m)[k] = list[f[k]]
        /\ NamesDiffer(Picked(list, f, m))
    BY <1>1, <1>2, <1>4, Rearranged
  <2>. QED
    BY <1>5, <2>1
<1>. QED
  BY <1>2, <1>6, <1>7

\* Sorting keeps the variants, their weight and that names differ.
LEMMA Sorted ==
    ASSUME NEW n \in Nat, NEW list \in [1..n -> Entry], NamesDiffer(list), Names \in SUBSET Int
    PROVE  /\ SortedByName(list) \in [1..n -> Entry]
           /\ NamesDiffer(SortedByName(list))
           /\ WeightOf(SortedByName(list)) = WeightOf(list)
           /\ \A k \in 1..n : \E i \in 1..n : SortedByName(list)[k] = list[i]
<1>. DEFINE key == [i \in DOMAIN list |-> list[i].name]
            f == [k \in 1..n |-> Nth(1..n, key, k)]
<1>1. key \in [1..n -> Int] /\ \A i, j \in 1..n : key[i] = key[j] => i = j
  BY DEF Entry, NamesDiffer
<1>2. f \in Bijection(1..n, 1..n)
  <2>1. IsFiniteSet(1..n) /\ Cardinality(1..n) = n
    BY FirstNumbers
  <2>. HIDE DEF key
  <2>2. [k \in 1..Cardinality(1..n) |-> Nth(1..n, key, k)] \in Bijection(1..Cardinality(1..n), 1..n)
    BY <1>1, <2>1, Ranks
  <2>. QED
    BY <2>1, <2>2
<1>3. SortedByName(list) = Picked(list, f, n)
  <2>1. DOMAIN list = 1..n
    OBVIOUS
  <2>. QED
    BY <2>1 DEF SortedByName, Picked
<1>. HIDE DEF key, f
<1>4. /\ SortedByName(list) \in [1..n -> Entry]
      /\ \A k \in 1..n : f[k] \in 1..n /\ SortedByName(list)[k] = list[f[k]]
      /\ WeightOf(SortedByName(list)) = WeightIn(list, 1..n)
      /\ NamesDiffer(SortedByName(list))
  <2>. DEFINE all == 1..n
  <2>1. all \in SUBSET (1..n) /\ f \in Bijection(1..n, all)
    BY <1>2
  <2>. HIDE DEF all
  <2>2. /\ SortedByName(list) \in [1..n -> Entry]
        /\ \A k \in 1..n : f[k] \in all /\ SortedByName(list)[k] = list[f[k]]
        /\ WeightOf(SortedByName(list)) = WeightIn(list, all)
        /\ NamesDiffer(SortedByName(list))
    BY <1>3, <2>1, Rearranged
  <2>. QED
    BY <2>2 DEF all
<1>. QED
  BY <1>4 DEF WeightOf

-----------------------------------------------------------------------------
(* Shares.                                                                 *)

\* Shares of rest, of n variants, add up to rest.
LEMMA SharesAddUp ==
    ASSUME NEW rest \in Nat, NEW n \in Nat \ {0}, NEW list,
           \A i \in 1..n : list[i].weight = ShareOf(rest, n, i)
    PROVE  WeightIn(list, 1..n) = rest
<1>. DEFINE q == rest \div n
            r == rest % n
            Even == (1..n) \X (1..q)
            Extra == (1..r) \X {q + 1}
<1>1. q \in Nat /\ r \in 0..(n - 1) /\ n * q + r = rest
  OBVIOUS
<1>2. \A i \in 1..n : list[i].weight = q + (IF i <= r THEN 1 ELSE 0)
  BY DEF ShareOf
<1>. HIDE DEF q, r
<1>3. Units(list, 1..n) = Even \cup Extra
  <2>1. Units(list, 1..n) = {u \in (1..n) \X Nat : u[2] \in 1..list[u[1]].weight}
    BY <1>1, <1>2 DEF Units
  <2>2. ASSUME NEW u
        PROVE  u \in Units(list, 1..n) <=> u \in Even \cup Extra
    BY <1>1, <1>2, <2>1
  <2>. QED
    BY <2>2
<1>4. IsFiniteSet(Even) /\ Cardinality(Even) = n * q
  <2>1. IsFiniteSet(1..n) /\ Cardinality(1..n) = n
    BY FirstNumbers
  <2>2. IsFiniteSet(1..q) /\ Cardinality(1..q) = q
    BY <1>1, FirstNumbers
  <2>3. /\ IsFiniteSet((1..n) \X (1..q))
        /\ Cardinality((1..n) \X (1..q)) = Cardinality(1..n) * Cardinality(1..q)
    BY <2>1, <2>2, FS_Product
  <2>. QED
    BY <2>1, <2>2, <2>3, Zenon
<1>5. IsFiniteSet(Extra) /\ Cardinality(Extra) = r
  <2>1. IsFiniteSet(1..r) /\ Cardinality(1..r) = r
    BY <1>1, FirstNumbers
  <2>2. IsFiniteSet({q + 1}) /\ Cardinality({q + 1}) = 1
    BY FS_Singleton
  <2>3. /\ IsFiniteSet((1..r) \X {q + 1})
        /\ Cardinality((1..r) \X {q + 1}) = Cardinality(1..r) * Cardinality({q + 1})
    BY <2>1, <2>2, FS_Product
  <2>4. Cardinality(Extra) = r * 1
    BY <2>1, <2>2, <2>3, Zenon
  <2>. QED
    BY <1>1, <2>3, <2>4
<1>6. Even \cap Extra = {} /\ Cardinality({}) = 0
  BY <1>1, FS_EmptySet
<1>. HIDE DEF Even, Extra
<1>7. Cardinality(Even \cap Extra) = 0
  BY <1>6
<1>8. Cardinality(Even \cup Extra) = Cardinality(Even) + Cardinality(Extra) - 0
  BY <1>4, <1>5, <1>7, FS_Union
<1>9. n * q \in Int
  BY <1>1
<1>10. Cardinality(Even \cup Extra) = n * q + r
  BY <1>1, <1>4, <1>5, <1>8, <1>9
<1>. QED
  BY <1>1, <1>3, <1>10 DEF WeightIn

-----------------------------------------------------------------------------
(* What is saved.                                                          *)

\* The list is fit to be stored: its weights add up, its names differ.
Fit(list) ==
    \E n \in Nat :
       /\ list \in [1..n -> Entry]
       /\ NamesDiffer(list)
       /\ n # 0 => WeightIn(list, 1..n) = Total
       /\ \A i, j \in 1..n : ~list[i].fix /\ ~list[j].fix => list[i].weight - list[j].weight \in -1..1

LEMMA NoneFit == Fit(<<>>)
<1>1. <<>> \in [1..0 -> Entry]
  OBVIOUS
<1>. QED
  BY <1>1 DEF Fit, NamesDiffer

\* A list fit to be stored stays so when it is sorted.
LEMMA SortedFit ==
    ASSUME NEW list, Fit(list), Names \in SUBSET Int
    PROVE  Fit(SortedByName(list))
<1>1. PICK n \in Nat :
         /\ list \in [1..n -> Entry]
         /\ NamesDiffer(list)
         /\ n # 0 => WeightIn(list, 1..n) = Total
         /\ \A i, j \in 1..n : ~list[i].fix /\ ~list[j].fix => list[i].weight - list[j].weight \in -1..1
  BY DEF Fit
<1>2. /\ SortedByName(list) \in [1..n -> Entry]
      /\ NamesDiffer(SortedByName(list))
      /\ WeightOf(SortedByName(list)) = WeightOf(list)
      /\ \A k \in 1..n : \E i \in 1..n : SortedByName(list)[k] = list[i]
  BY <1>1, Sorted
<1>3. DOMAIN list = 1..n /\ DOMAIN SortedByName(list) = 1..n
  BY <1>1, <1>2
<1>4. WeightIn(SortedByName(list), 1..n) = WeightIn(list, 1..n)
  BY <1>2, <1>3 DEF WeightOf
<1>5. ASSUME NEW i \in 1..n, NEW j \in 1..n,
             ~SortedByName(list)[i].fix, ~SortedByName(list)[j].fix
      PROVE  SortedByName(list)[i].weight - SortedByName(list)[j].weight \in -1..1
  BY <1>1, <1>2, <1>5
<1>. QED
  BY <1>1, <1>2, <1>4, <1>5 DEF Fit

\* An accepted list is fit to be stored once its weights are fixed.
LEMMA SavedFit ==
    ASSUME Total \in Nat, NEW n \in Nat, NEW list \in [1..n -> Entry], NamesDiffer(list),
           Acceptable(list)
    PROVE  Fit(FixVariantWeights(list))
<1>1. PICK m \in Nat :
         /\ Variable(list) \in [1..m -> Entry]
         /\ NamesDiffer(Variable(list))
         /\ \A k \in 1..m : \E i \in 1..n : list[i].fix = FALSE /\ Variable(list)[k] = list[i]
  BY Filtered DEF Variable
<1>2. PICK c \in Nat :
         /\ Fixed(list) \in [1..c -> Entry]
         /\ NamesDiffer(Fixed(list))
         /\ \A k \in 1..c : \E i \in 1..n : list[i].fix = TRUE /\ Fixed(list)[k] = list[i]
  BY Filtered DEF Fixed
<1>. DEFINE rest == Total - WeightOf(Fixed(list))
            shared == [i \in 1..m |-> [Variable(list)[i] EXCEPT !.weight = ShareOf(rest, m, i)]]
            saved == [i \in 1..(m + c) |-> IF i <= m THEN shared[i] ELSE Fixed(list)[i - m]]
<1>3. WeightIn(Fixed(list), 1..c) = WeightOf(Fixed(list)) /\ WeightOf(Fixed(list)) \in Nat
  <2>1. DOMAIN Fixed(list) = 1..c /\ \A i \in 1..c : Fixed(list)[i].weight \in Nat
    BY <1>2 DEF Entry
  <2>2. IsFiniteSet(1..c)
    BY FirstNumbers
  <2>. QED
    BY <2>1, <2>2, UnitsFinite DEF WeightOf
<1>4. rest \in Nat
  BY <1>3 DEF Acceptable
<1>5. FixVariantWeights(list) = saved
  <2>1. Len(Variable(list)) = m
    BY <1>1
  <2>2. FixVariantWeights(list) = shared \o Fixed(list)
    BY <2>1 DEF FixVariantWeights
  <2>3. Len(shared) = m /\ Len(Fixed(list)) = c
    BY <1>2
  <2>4. shared \o Fixed(list) = saved
    BY <2>3
  <2>. QED
    BY <2>2, <2>4
<1>6. n # 0 => m # 0
  BY <1>1 DEF Acceptable
<1>7. m + c # 0 => m # 0
  <2>. SUFFICES ASSUME c # 0
                PROVE  n # 0
    BY <1>6
  <2>1. 1 \in 1..c
    OBVIOUS
  <2>. QED
    BY <1>2, <2>1
<1>8. ASSUME NEW i \in 1..m
      PROVE  /\ ShareOf(rest, m, i) \in Nat
             /\ \A j \in 1..m : ShareOf(rest, m, i) - ShareOf(rest, m, j) \in -1..1
  <2>1. rest \div m \in Nat
    BY <1>4
  <2>. HIDE DEF rest
  <2>. QED
    BY <2>1 DEF ShareOf
<1>9. ASSUME NEW i \in 1..m
      PROVE  /\ shared[i] \in Entry
             /\ shared[i].weight = ShareOf(rest, m, i)
             /\ shared[i].name = Variable(list)[i].name
  BY <1>1, <1>8, <1>9 DEF Entry
<1>. HIDE DEF rest, shared
<1>10. /\ saved \in [1..(m + c) -> Entry]
       /\ \A i \in 1..m : saved[i] = shared[i]
       /\ \A k \in 1..c : saved[k + m] = Fixed(list)[k]
       /\ \A i \in 1..(m + c) : i \notin 1..m => i - m \in 1..c /\ saved[i] = Fixed(list)[i - m]
  BY <1>2, <1>9
<1>. HIDE DEF saved
<1>11. NamesDiffer(saved)
  <2>. SUFFICES ASSUME NEW i \in 1..(m + c), NEW j \in 1..(m + c), saved[i].name = saved[j].name
                PROVE  i = j
    BY <1>10 DEF NamesDiffer
  <2>1. ASSUME NEW a \in 1..m, NEW b \in 1..c
        PROVE  Variable(list)[a].name # Fixed(list)[b].name
    <3>1. PICK x \in 1..n : list[x].fix = FALSE /\ Variable(list)[a] = list[x]
      BY <1>1
    <3>2. PICK y \in 1..n : list[y].fix = TRUE /\ Fixed(list)[b] = list[y]
      BY <1>2
    <3>3. x # y
      BY <3>1, <3>2
    <3>. QED
      BY <3>1, <3>2, <3>3 DEF NamesDiffer
  <2>2. CASE i \in 1..m /\ j \in 1..m
    <3>1. Variable(list)[i].name = Variable(list)[j].name
      BY <1>9, <1>10, <2>2
    <3>. QED
      BY <1>1, <2>2, <3>1 DEF NamesDiffer
  <2>3. CASE i \notin 1..m /\ j \notin 1..m
    <3>1. i - m \in 1..c /\ j - m \in 1..c /\ Fixed(list)[i - m].name = Fixed(list)[j - m].name
      BY <1>10, <2>3
    <3>2. i - m = j - m
      BY <1>2, <3>1 DEF NamesDiffer
    <3>. QED
      BY <3>2
  <2>4. CASE i \in 1..m /\ j \notin 1..m
    BY <1>9, <1>10, <2>1, <2>4
  <2>5. CASE i \notin 1..m /\ j \in 1..m
    BY <1>9, <1>10, <2>1, <2>5
  <2>. QED
    BY <2>2, <2>3, <2>4, <2>5
<1>12. m + c # 0 => WeightIn(saved, 1..(m + c)) = Total
  <2>. SUFFICES ASSUME m # 0
                PROVE  WeightIn(saved, 1..(m + c)) = Total
    BY <1>7
  <2>. DEFINE I == 1..m
              J == (m + 1)..(m + c)
              K == 1..c
              f == [k \in K |-> k + m]
  <2>1. \A i \in 1..(m + c) : saved[i].weight \in Nat
    BY <1>10 DEF Entry
  <2>2. \A i \in 1..m : saved[i].weight = ShareOf(rest, m, i)
    BY <1>9, <1>10
  <2>3. WeightIn(saved, I) = rest
    BY <1>4, <2>2, SharesAddUp
  <2>4. f \in Bijection(K, J)
    <3>1. f \in [K -> J] /\ \A a, b \in K : f[a] = f[b] => a = b
      OBVIOUS
    <3>2. ASSUME NEW j \in J
          PROVE  \E k \in K : f[k] = j
      <4>1. j - m \in K /\ f[j - m] = j
        OBVIOUS
      <4>. QED
        BY <4>1
    <3>. QED
      BY <3>1, <3>2 DEF Bijection, Injection, Surjection, IsInjective
  <2>5. \A k \in K : Fixed(list)[k].weight \in Nat /\ saved[f[k]].weight = Fixed(list)[k].weight
    BY <1>2, <1>10 DEF Entry
  <2>6. IsFiniteSet(I) /\ IsFiniteSet(K) /\ IsFiniteSet(J)
    BY FirstNumbers, FS_Interval
  <2>. HIDE DEF f
  <2>7. WeightIn(saved, J) = WeightIn(Fixed(list), K)
    BY <2>4, <2>5, <2>6, WeightMoves
  <2>8. I \cap J = {} /\ I \cup J = 1..(m + c)
    OBVIOUS
  <2>. HIDE DEF I, J
  <2>9. WeightIn(saved, I \cup J) = WeightIn(saved, I) + WeightIn(saved, J)
    BY <2>1, <2>6, <2>8, WeightOfBoth
  <2>10. WeightIn(saved, I \cup J) = rest + WeightOf(Fixed(list))
    BY <1>3, <2>3, <2>7, <2>9
  <2>11. WeightIn(saved, I \cup J) = Total
    BY <1>3, <2>10 DEF rest
  <2>. QED
    BY <2>8, <2>11
<1>13. ASSUME NEW i \in 1..(m + c), NEW j \in 1..(m + c), ~saved[i].fix, ~saved[j].fix
       PROVE  saved[i].weight - saved[j].weight \in -1..1
  <2>1. \A k \in 1..c : Fixed(list)[k].fix
    BY <1>2
  <2>2. i \in 1..m /\ j \in 1..m
    BY <1>10, <1>13, <2>1
  <2>. QED
    BY <1>8, <1>9, <1>10, <2>2
<1>. QED
  BY <1>5, <1>10, <1>11, <1>12, <1>13 DEF Fit

-----------------------------------------------------------------------------
(* The weights add up.                                                     *)

\* The invariant: what is stored is fit.
LEMMA StoredFit ==
    ASSUME VariantConstants
    PROVE  /\ Init => Fit(stored)
           /\ Fit(stored) /\ [Next]_vars => Fit(stored)'
<1>1. Init => Fit(stored)
  BY NoneFit DEF Init
<1>2. ASSUME Fit(stored), SaveVariants
      PROVE  Fit(stored')
  <2>1. PICK list \in Lists : Acceptable(list) /\ stored' = FixVariantWeights(list)
    BY <1>2 DEF SaveVariants
  <2>2. Cardinality(Names) \in Nat
    BY FS_CardinalityType DEF VariantConstants
  <2>3. PICK n \in 0..Cardinality(Names) :
          /\ list \in [1..n -> Variant]
          /\ \A i, j \in 1..n : list[i].name = list[j].name => i = j
    BY <2>1 DEF Lists
  <2>4. n \in Nat /\ list \in [1..n -> Entry] /\ NamesDiffer(list)
    BY <2>2, <2>3 DEF Variant, Entry, NamesDiffer
  <2>. QED
    BY <2>1, <2>4, SavedFit DEF VariantConstants
<1>3. ASSUME Fit(stored), WriteRow
      PROVE  Fit(stored')
  BY <1>3, SortedFit DEF WriteRow, VariantConstants
<1>. QED
  BY <1>1, <1>2, <1>3 DEF Next, vars

\* What is fit adds up.
LEMMA FitAddsUp == Fit(stored) => WeightsAddUp
<1>. SUFFICES ASSUME Fit(stored), stored # <<>>
              PROVE  /\ WeightOf(stored) = Total
                     /\ \A i, j \in Indices :
                           ~stored[i].fix /\ ~stored[j].fix
                           => stored[i].weight - stored[j].weight \in -1..1
  BY DEF WeightsAddUp
<1>1. PICK n \in Nat :
         /\ stored \in [1..n -> Entry]
         /\ n # 0 => WeightIn(stored, 1..n) = Total
         /\ \A i, j \in 1..n :
               ~stored[i].fix /\ ~stored[j].fix => stored[i].weight - stored[j].weight \in -1..1
  BY DEF Fit
<1>2. n # 0 /\ DOMAIN stored = 1..n
  BY <1>1
<1>. QED
  BY <1>1, <1>2 DEF WeightOf, Indices

-----------------------------------------------------------------------------
(* Who gets which variant.                                                 *)

\* A number at which something holds has a least one below it.
LEMMA Least ==
    ASSUME NEW S \in SUBSET Nat, S # {}
    PROVE  \E m \in S : \A k \in S : m <= k
<1>1. PICK m \in S : \A k \in S : <<k, m>> \notin OpToRel(<, Nat)
  BY NatLessThanWellFounded, WFMin
<1>2. \A k \in S : ~(k < m)
  BY <1>1 DEF OpToRel
<1>. QED
  BY <1>2

\* The weights so far: they begin at zero, grow by each weight, end at the total.
LEMMA Counters ==
    ASSUME NEW n \in Nat, stored \in [1..n -> Entry]
    PROVE  /\ CounterAt(0) = 0
           /\ CounterAt(n) = WeightOf(stored)
           /\ \A i \in 0..n : CounterAt(i) \in Nat
           /\ \A i \in 1..n : CounterAt(i) = CounterAt(i - 1) + stored[i].weight
           /\ \A i, j \in 0..n : i <= j => CounterAt(i) <= CounterAt(j)
<1>1. \A i \in 1..n : stored[i].weight \in Nat
  BY DEF Entry
<1>2. CounterAt(0) = 0
  <2>1. 1..0 = {}
    OBVIOUS
  <2>. QED
    BY <2>1, WeightOfNone DEF CounterAt
<1>3. CounterAt(n) = WeightOf(stored)
  BY DEF CounterAt, WeightOf
<1>4. ASSUME NEW i \in 0..n
      PROVE  IsFiniteSet(1..i) /\ CounterAt(i) \in Nat
  <2>1. IsFiniteSet(1..i) /\ \A k \in 1..i : stored[k].weight \in Nat
    BY <1>1, FirstNumbers
  <2>. QED
    BY <2>1, UnitsFinite DEF CounterAt
<1>5. ASSUME NEW i \in 1..n
      PROVE  CounterAt(i) = CounterAt(i - 1) + stored[i].weight
  <2>. DEFINE I == 1..(i - 1)
  <2>0. i - 1 \in 0..n
    OBVIOUS
  <2>1. IsFiniteSet(I) /\ IsFiniteSet({i})
    BY <1>4, <2>0, FS_Singleton
  <2>2. I \cap {i} = {} /\ I \cup {i} = 1..i /\ \A k \in I \cup {i} : stored[k].weight \in Nat
    BY <1>1
  <2>. HIDE DEF I
  <2>3. WeightIn(stored, I \cup {i}) = WeightIn(stored, I) + WeightIn(stored, {i})
    BY <2>1, <2>2, WeightOfBoth
  <2>4. WeightIn(stored, {i}) = stored[i].weight
    BY <1>1, WeightOfOne
  <2>. QED
    BY <2>2, <2>3, <2>4 DEF CounterAt, I
<1>6. ASSUME NEW i \in 0..n, NEW j \in 0..n, i <= j
      PROVE  CounterAt(i) <= CounterAt(j)
  <2>1. 1..i \subseteq 1..j /\ \A k \in 1..j : stored[k].weight \in Nat
    BY <1>1, <1>6
  <2>. QED
    BY <1>4, <2>1, WeightGrows DEF CounterAt
<1>. QED
  BY <1>2, <1>3, <1>4, <1>5, <1>6

\* A user whose hash is above the weights before a variant, and not above those
\* up to it, gets that variant.
LEMMA SelectsBetween ==
    ASSUME NEW n \in Nat, stored \in [1..n -> Entry], NEW i \in 1..n, NEW t \in Nat,
           CounterAt(i - 1) < t, t <= CounterAt(i)
    PROVE  SelectVariant(t) = stored[i].name
<1>. DEFINE hits == {k \in Indices : Selects(k, t)}
<1>1. stored[i].weight \in Nat /\ CounterAt(i) \in Nat /\ CounterAt(i - 1) \in Nat
      /\ CounterAt(i) = CounterAt(i - 1) + stored[i].weight
  BY Counters DEF Entry
<1>2. i \in hits
  BY <1>1 DEF Selects, Reaches, Indices
<1>3. ASSUME NEW k \in hits
      PROVE  i <= k
  <2>1. k \in 1..n /\ CounterAt(k) >= t
    BY DEF Selects, Reaches, Indices
  <2>2. ~(k <= i - 1)
    <3>. SUFFICES ASSUME k <= i - 1
                  PROVE  FALSE
      OBVIOUS
    <3>1. CounterAt(k) <= CounterAt(i - 1) /\ CounterAt(k) \in Nat
      BY <2>1, Counters
    <3>. QED
      BY <1>1, <2>1, <3>1
  <2>. QED
    BY <2>1, <2>2
<1>4. \A k \in hits : k \in 1..n
  BY DEF Indices
<1>. HIDE DEF hits
<1>5. (CHOOSE k \in hits : \A j \in hits : k <= j) = i
  <2>1. i \in hits /\ \A j \in hits : i <= j
    BY <1>2, <1>3
  <2>2. ASSUME NEW k \in hits, \A j \in hits : k <= j
        PROVE  k = i
    BY <1>4, <2>1, <2>2
  <2>. QED
    BY <2>1, <2>2
<1>. QED
  BY <1>2, <1>5 DEF SelectVariant, hits

\* Every user gets a variant, the one whose share its hash is in.
LEMMA SomeShare ==
    ASSUME NEW n \in Nat, stored \in [1..n -> Entry], WeightOf(stored) = Total, NEW t \in 1..Total
    PROVE  \E i \in 1..n : CounterAt(i - 1) < t /\ t <= CounterAt(i)
<1>. DEFINE S == {k \in 0..n : t <= CounterAt(k)}
<1>1. CounterAt(0) = 0 /\ CounterAt(n) = Total /\ \A k \in 0..n : CounterAt(k) \in Nat
  BY Counters
<1>2. S \in SUBSET Nat /\ S # {}
  <2>1. n \in S
    BY <1>1
  <2>. QED
    BY <2>1
<1>3. PICK i \in S : \A k \in S : i <= k
  BY <1>2, Least
<1>4. i # 0
  BY <1>1, <1>3
<1>5. i \in 1..n /\ i - 1 \in 0..n
  BY <1>3, <1>4
<1>6. i - 1 \notin S
  BY <1>3, <1>5
<1>. QED
  BY <1>1, <1>3, <1>5, <1>6

\* The users of a variant are as many as its weight says.
LEMMA FitShares ==
    ASSUME Fit(stored), Total \in Nat
    PROVE  ShareIsWeight
<1>1. PICK n \in Nat :
         /\ stored \in [1..n -> Entry]
         /\ NamesDiffer(stored)
         /\ n # 0 => WeightIn(stored, 1..n) = Total
  BY DEF Fit
<1>. SUFFICES ASSUME NEW i \in 1..n
              PROVE  Cardinality({t \in 1..Total : SelectVariant(t) = stored[i].name})
                     = stored[i].weight
  BY <1>1 DEF ShareIsWeight, Indices
<1>. DEFINE users == {t \in 1..Total : SelectVariant(t) = stored[i].name}
            from == CounterAt(i - 1)
            upto == CounterAt(i)
<1>2. DOMAIN stored = 1..n /\ WeightOf(stored) = Total
  BY <1>1 DEF WeightOf
<1>3. /\ from \in Nat /\ upto \in Nat /\ upto = from + stored[i].weight /\ upto <= Total
      /\ stored[i].weight \in Nat
  <2>1. i - 1 \in 0..n /\ i \in 0..n /\ n \in 0..n /\ stored[i].weight \in Nat
    BY <1>1 DEF Entry
  <2>. QED
    BY <1>1, <1>2, <2>1, Counters
<1>4. users = (from + 1)..upto
  <2>1. ASSUME NEW t \in users
        PROVE  t \in (from + 1)..upto
    <3>1. PICK k \in 1..n : CounterAt(k - 1) < t /\ t <= CounterAt(k)
      BY <1>1, <1>2, SomeShare
    <3>2. SelectVariant(t) = stored[k].name
      BY <1>1, <3>1, SelectsBetween
    <3>3. k = i
      BY <1>1, <1>2, <3>2 DEF NamesDiffer
    <3>. QED
      BY <1>3, <3>1, <3>3
  <2>2. ASSUME NEW t \in (from + 1)..upto
        PROVE  t \in users
    <3>1. t \in 1..Total /\ from < t /\ t <= upto
      BY <1>3
    <3>. QED
      BY <1>1, <3>1, SelectsBetween
  <2>. HIDE DEF users, from, upto
  <2>. QED
    BY <1>3, <2>1, <2>2 DEF users
<1>. QED
  <2>. HIDE DEF users, from, upto
  <2>. DEFINE first == from + 1
  <2>0. first \in Int /\ upto \in Int
    BY <1>3
  <2>1. Cardinality(users) = IF first > upto THEN 0 ELSE upto - first + 1
    <3>1. users = first..upto
      BY <1>4
    <3>. HIDE DEF first
    <3>. QED
      BY <2>0, <3>1, FS_Interval
  <2>2. Cardinality(users) = stored[i].weight
    BY <1>3, <2>1
  <2>. QED
    BY <2>2 DEF users

-----------------------------------------------------------------------------
(* The theorems.                                                           *)

\* For any number of names and any total: whatever is saved and rewritten, the
\* weights stored add up to the total, and the variable variants share what the
\* fixed ones leave evenly (fixVariantWeights).
THEOREM WeightsCorrect ==
    ASSUME VariantConstants
    PROVE  Spec => []WeightsAddUp
<1>. QED
  BY StoredFit, FitAddsUp, PTL DEF Spec

\* For any number of names and any total: as many hashes select a variant as its
\* weight says (selectVariant), in the order that is stored.
THEOREM SharesCorrect ==
    ASSUME VariantConstants
    PROVE  Spec => []ShareIsWeight
<1>1. Fit(stored) => ShareIsWeight
  BY FitShares DEF VariantConstants
<1>. QED
  BY StoredFit, <1>1, PTL DEF Spec
=============================================================================
