---------------------------- MODULE SegmentsProofs ----------------------------
(***************************************************************************)
(* Proofs about Segments, for any names, strategies, requests and limit.    *)
(* The hypothesis of the theorems is that there are finitely many ids, and  *)
(* that Nothing is none of them.                                            *)
(***************************************************************************)
EXTENDS Segments, FiniteSetTheorems, TLAPS

SegmentIds == IsFiniteSet(Segs) /\ Nothing \notin Segs /\ Limit \in Nat

Request == [check : {"name", "limit", Nothing},
            at : {"idle", "validateName", "write", "addSegments"},
            seg : Segs \cup {Nothing}, name : Names \cup {Nothing},
            strategy : Strategies \cup {Nothing}, rest : SUBSET Segs, checked : SUBSET Segs]

\* What a request holds at each of its statements.
Holds(q) ==
    /\ q.at \in {"validateName", "write"} <=> q.check = "name"
    /\ q.at = "addSegments" <=> q.check = "limit"
    /\ q.at = "addSegments" => q.strategy \in Strategies

TypeOK ==
    /\ segments \in [Segs -> Names \cup {Nothing}]
    /\ links \in [Strategies -> SUBSET Segs]
    /\ req \in [Requests -> Request]
    /\ \A r \in Requests : Holds(req[r])

\* Two requests in progress that check the same have raced.
OverlapsAreRaces ==
    \A r, q \in Requests : r # q /\ req[r].check = req[q].check /\ req[r].check # Nothing =>
        req[r].check \in raced

Unique == \A s, t \in Existing : segments[s] = segments[t] => s = t

\* The name that a request is about to write is nobody else's.
NameIsFree(q) == q.at = "write" => \A s \in Existing : segments[s] = q.name => s = q.seg

NamesInv == "name" \notin raced => Unique /\ \A r \in Requests : NameIsFree(req[r])

WithinLimit(S) == Cardinality(S) <= Limit

\* What a request will have added is within the limit; but for the one segment
\* that it has yet to check.
AddsWithinLimit(q) ==
    q.at = "addSegments" =>
        /\ WithinLimit(links[q.strategy] \cup q.checked)
        /\ \/ WithinLimit(links[q.strategy] \cup q.checked \cup q.rest)
           \/ q.checked = {} /\ \E s \in Segs : q.rest = {s}

LimitInv ==
    "limit" \notin raced =>
        /\ \A t \in Strategies : WithinLimit(links[t])
        /\ \A r \in Requests : AddsWithinLimit(req[r])

-----------------------------------------------------------------------------
LEMMA IdleType == Idle \in Request /\ Holds(Idle)
  BY DEF Idle, Request, Holds, Nothing

LEMMA InitInv == SegmentIds /\ Init => TypeOK /\ OverlapsAreRaces /\ NamesInv /\ LimitInv
<1>. SUFFICES ASSUME SegmentIds, Init
              PROVE  TypeOK /\ OverlapsAreRaces /\ NamesInv /\ LimitInv
  OBVIOUS
<1>1. \A r \in Requests : req[r] = Idle
  BY DEF Init
<1>2. TypeOK
  BY <1>1, IdleType DEF Init, TypeOK
<1>3. OverlapsAreRaces
  BY <1>1 DEF OverlapsAreRaces, Idle
<1>4. NamesInv
  BY <1>1 DEF Init, NamesInv, Unique, NameIsFree, Existing, Idle
<1>5. LimitInv
  BY <1>1, FS_EmptySet DEF Init, LimitInv, AddsWithinLimit, WithinLimit, Idle, SegmentIds
<1>. QED
  BY <1>2, <1>3, <1>4, <1>5

\* The records with which requests begin.
LEMMA CallRecord ==
    ASSUME TypeOK, NEW r \in Requests, Call(r)
    PROVE  \E rec \in Request :
              /\ Holds(rec) /\ Begin(r, rec)
              /\ \/ /\ rec.check = "name"
                    /\ rec.at = "write" => rec.seg \in Existing /\ segments[rec.seg] = rec.name
                 \/ /\ rec.check = "limit" /\ rec.checked = {}
                    /\ \/ \E s \in Segs : rec.rest = {s}
                       \/ \E t \in Strategies : rec.rest = links[t] /\ links[rec.strategy] = {}
<1>1. CASE \E n \in Names : Create(r, n)
  <2>. PICK n \in Names : Create(r, n)
    BY <1>1
  <2>. DEFINE rec == [Idle EXCEPT !.check = "name", !.at = "validateName", !.name = n]
  <2>1. rec \in Request /\ Holds(rec) /\ rec.check = "name" /\ rec.at = "validateName"
    BY DEF Idle, Request, Holds
  <2>. QED
    BY <2>1 DEF Create
<1>2. CASE \E n \in Names, s \in Segs : Update(r, s, n)
  <2>. PICK n \in Names, s \in Segs : Update(r, s, n)
    BY <1>2
  <2>. DEFINE at == IF segments[s] = n THEN "write" ELSE "validateName"
              rec == [Idle EXCEPT !.check = "name", !.seg = s, !.name = n, !.at = at]
  <2>1. /\ rec \in Request /\ Holds(rec) /\ rec.check = "name" /\ rec.at = at
        /\ rec.seg = s /\ rec.name = n
    BY DEF Idle, Request, Holds
  <2>2. Begin(r, rec) /\ s \in Existing
    BY DEF Update
  <2>3. rec.at = "write" => segments[s] = n
    BY <2>1
  <2>. HIDE DEF rec, at
  <2>. QED
    BY <2>1, <2>2, <2>3
<1>3. CASE \E t \in Strategies, s \in Segs : AddToStrategy(r, s, t)
  <2>. PICK t \in Strategies, s \in Segs : AddToStrategy(r, s, t)
    BY <1>3
  <2>. DEFINE rec == [Idle EXCEPT !.check = "limit", !.at = "addSegments", !.strategy = t,
                                  !.rest = {s}]
  <2>1. /\ rec \in Request /\ Holds(rec) /\ rec.check = "limit" /\ rec.at = "addSegments"
        /\ rec.checked = {} /\ rec.rest = {s}
    BY DEF Idle, Request, Holds
  <2>. QED
    BY <2>1 DEF AddToStrategy
<1>4. CASE \E t, u \in Strategies : CloneStrategySegments(r, u, t)
  <2>. PICK t \in Strategies, u \in Strategies : CloneStrategySegments(r, u, t)
    BY <1>4
  <2>. DEFINE rec == [Idle EXCEPT !.check = "limit", !.at = "addSegments", !.strategy = t,
                                  !.rest = links[u]]
  <2>1. /\ rec \in Request /\ Holds(rec) /\ rec.check = "limit" /\ rec.at = "addSegments"
        /\ rec.checked = {} /\ rec.rest = links[u] /\ rec.strategy = t
    BY DEF Idle, Request, Holds, TypeOK
  <2>. QED
    BY <2>1 DEF CloneStrategySegments
<1>. QED
  BY <1>1, <1>2, <1>3, <1>4 DEF Call
\* A request that goes on still checks the same, or nothing any more.
LEMMA GoesOn ==
    ASSUME TypeOK, OverlapsAreRaces, NEW r \in Requests, NEW rec \in Request, Holds(rec),
           req' = [req EXCEPT ![r] = rec], rec.check \in {Nothing, req[r].check}, UNCHANGED raced
    PROVE  /\ OverlapsAreRaces'
           /\ req' \in [Requests -> Request]
           /\ (\A q \in Requests : Holds(req[q]))'
<1>1. \A q \in Requests : req'[q] = IF q = r THEN rec ELSE req[q]
  BY DEF TypeOK
<1>2. OverlapsAreRaces'
  BY <1>1 DEF OverlapsAreRaces
<1>3. \A q \in Requests : Holds(req'[q])
  BY <1>1 DEF TypeOK
<1>4. (\A q \in Requests : Holds(req[q]))'
  BY <1>3 DEF Holds
<1>. QED
  BY <1>2, <1>4 DEF TypeOK

\* The record of a request after one of its statements.
LEMMA ContinueRecord ==
    ASSUME TypeOK, NEW r \in Requests, Continue(r)
    PROVE  \E rec \in Request :
              /\ Holds(rec) /\ req' = [req EXCEPT ![r] = rec]
              /\ rec.check \in {Nothing, req[r].check}
<1>0. req[r] \in Request /\ Holds(req[r])
  BY DEF TypeOK
<1>1. CASE Finish(r)
  <2>1. Idle.check = Nothing
    BY DEF Idle
  <2>. QED
    BY <1>1, <2>1, IdleType DEF Finish
<1>2. CASE ValidateName(r) /\ Goto(r, "write")
  <2>. DEFINE rec == [req[r] EXCEPT !.at = "write"]
  <2>1. rec \in Request /\ Holds(rec) /\ rec.check = req[r].check
    BY <1>0, <1>2 DEF Request, Holds, ValidateName, At
  <2>. QED
    BY <1>2, <2>1 DEF Goto
<1>3. ASSUME NEW rest \in SUBSET Segs, NEW checked \in SUBSET Segs,
             req' = [req EXCEPT ![r].rest = rest, ![r].checked = checked]
      PROVE  \E rec \in Request :
                /\ Holds(rec) /\ req' = [req EXCEPT ![r] = rec] /\ rec.check = req[r].check
  <2>. DEFINE rec == [req[r] EXCEPT !.rest = rest, !.checked = checked]
  <2>1. rec \in Request /\ Holds(rec) /\ rec.check = req[r].check
    BY <1>0 DEF Request, Holds
  <2>2. req' = [req EXCEPT ![r] = rec]
    BY <1>0, <1>3 DEF TypeOK, Request
  <2>. QED
    BY <2>1, <2>2
<1>4. CASE ~Finish(r) /\ ValidateLimit(r)
  <2>1. PICK s \in req[r].rest :
           AddRest(r, req[r].rest \ {s},
                   IF LimitReached(req[r].strategy) THEN req[r].checked ELSE req[r].checked \cup {s})
    BY <1>4 DEF ValidateLimit
  <2>. DEFINE rest == req[r].rest \ {s}
              checked == IF LimitReached(req[r].strategy) THEN req[r].checked
                         ELSE req[r].checked \cup {s}
  <2>2. rest \in SUBSET Segs /\ checked \in SUBSET Segs
    BY <1>0 DEF Request
  <2>3. req' = [req EXCEPT ![r].rest = rest, ![r].checked = checked]
    BY <1>4, <2>1 DEF AddRest
  <2>. HIDE DEF rest, checked
  <2>. QED
    BY <1>3, <2>2, <2>3
<1>5. CASE ~Finish(r) /\ Add(r)
  <2>1. PICK s \in req[r].checked : AddRest(r, req[r].rest, req[r].checked \ {s})
    BY <1>5 DEF Add
  <2>. DEFINE checked == req[r].checked \ {s}
  <2>2. req[r].rest \in SUBSET Segs /\ checked \in SUBSET Segs
    BY <1>0 DEF Request
  <2>3. req' = [req EXCEPT ![r].rest = req[r].rest, ![r].checked = checked]
    BY <1>5, <2>1 DEF AddRest
  <2>. HIDE DEF checked
  <2>. QED
    BY <1>3, <2>2, <2>3
<1>. QED
  BY <1>1, <1>2, <1>4, <1>5 DEF Continue, ValidateName, Write

LEMMA CallKeeps ==
    ASSUME TypeOK, OverlapsAreRaces, NEW r \in Requests, Call(r)
    PROVE  TypeOK' /\ OverlapsAreRaces'
<1>. PICK rec \in Request : Holds(rec) /\ Begin(r, rec)
  BY CallRecord
<1>1. \A q \in Requests : req'[q] = IF q = r THEN rec ELSE req[q]
  BY DEF TypeOK, Begin
<1>2. \A q \in Requests : Holds(req'[q])
  BY <1>1 DEF TypeOK
<1>3. (\A q \in Requests : Holds(req[q]))'
  BY <1>2 DEF Holds
<1>4. TypeOK'
  BY <1>3 DEF TypeOK, Begin
<1>5. OverlapsAreRaces'
  BY <1>1 DEF OverlapsAreRaces, Begin
<1>. QED
  BY <1>4, <1>5

LEMMA ContinueKeeps ==
    ASSUME TypeOK, OverlapsAreRaces, NEW r \in Requests, Continue(r)
    PROVE  TypeOK' /\ OverlapsAreRaces'
<1>1. UNCHANGED raced
  BY DEF Continue, ValidateName, Write, ValidateLimit, Add
<1>2. /\ OverlapsAreRaces'
      /\ req' \in [Requests -> Request]
      /\ (\A q \in Requests : Holds(req[q]))'
  BY <1>1, ContinueRecord, GoesOn
<1>3. segments' \in [Segs -> Names \cup {Nothing}]
  <2>1. CASE Write(r)
    <3>1. req[r] \in Request
      BY DEF TypeOK
    <3>. QED
      BY <2>1, <3>1 DEF Write, TypeOK, Request
  <2>2. CASE ValidateName(r) \/ ValidateLimit(r) \/ Add(r)
    BY <2>2 DEF ValidateName, ValidateLimit, Add, TypeOK
  <2>. QED
    BY <2>1, <2>2 DEF Continue
<1>4. links' \in [Strategies -> SUBSET Segs]
  <2>1. CASE Add(r)
    BY <2>1 DEF Add, TypeOK, Existing
  <2>2. CASE ValidateName(r) \/ ValidateLimit(r) \/ Write(r)
    BY <2>2 DEF ValidateName, ValidateLimit, Write, TypeOK
  <2>. QED
    BY <2>1, <2>2 DEF Continue
<1>. QED
  BY <1>2, <1>3, <1>4 DEF TypeOK

LEMMA RemovalKeeps ==
    ASSUME TypeOK, OverlapsAreRaces, NEW s \in Segs,
           Delete(s) \/ \E t \in Strategies : RemoveFromStrategy(s, t)
    PROVE  TypeOK' /\ OverlapsAreRaces'
<1>1. req' = req /\ raced' = raced
  BY DEF Delete, RemoveFromStrategy
<1>2. OverlapsAreRaces'
  BY <1>1 DEF OverlapsAreRaces
<1>3. TypeOK'
  BY <1>1 DEF TypeOK, Delete, RemoveFromStrategy, Holds
<1>. QED
  BY <1>2, <1>3

LEMMA NextKeeps ==
    ASSUME TypeOK, OverlapsAreRaces, [Next]_vars
    PROVE  TypeOK' /\ OverlapsAreRaces'
<1>1. CASE UNCHANGED vars
  BY <1>1 DEF vars, TypeOK, OverlapsAreRaces, Holds
<1>. QED
  BY <1>1, CallKeeps, ContinueKeeps, RemovalKeeps DEF Next
-----------------------------------------------------------------------------
(* Names.                                                                  *)

\* Where segments only go, names stay unique and free.
LEMMA FewerSegments ==
    ASSUME TypeOK, NamesInv, UNCHANGED <<req, raced>>,
           \A s \in Existing' : s \in Existing /\ segments'[s] = segments[s]
    PROVE  NamesInv'
<1>. SUFFICES ASSUME "name" \notin raced
              PROVE  Unique' /\ \A r \in Requests : NameIsFree(req[r])'
  BY DEF NamesInv, NameIsFree
<1>1. Unique'
  BY DEF NamesInv, Unique
<1>2. \A r \in Requests : NameIsFree(req[r])'
  BY DEF NamesInv, NameIsFree
<1>. QED
  BY <1>1, <1>2

LEMMA NamesCall ==
    ASSUME TypeOK, NamesInv, NEW r \in Requests, Call(r)
    PROVE  NamesInv'
<1>. SUFFICES ASSUME "name" \notin raced'
              PROVE  Unique' /\ \A q \in Requests : NameIsFree(req[q])'
  BY DEF NamesInv, NameIsFree
<1>. PICK rec \in Request :
        /\ Holds(rec) /\ Begin(r, rec)
        /\ rec.at = "write" => rec.seg \in Existing /\ segments[rec.seg] = rec.name
  BY CallRecord DEF Holds
<1>1. "name" \notin raced /\ UNCHANGED segments
  BY DEF Begin
<1>2. \A q \in Requests : req'[q] = IF q = r THEN rec ELSE req[q]
  BY DEF TypeOK, Begin
<1>3. Existing' = Existing
  BY <1>1 DEF Existing
<1>4. Unique'
  BY <1>1, <1>3 DEF NamesInv, Unique
<1>5. \A q \in Requests : NameIsFree(req[q])'
  BY <1>1, <1>2, <1>3 DEF NamesInv, NameIsFree, Unique
<1>. QED
  BY <1>4, <1>5

LEMMA NamesWrite ==
    ASSUME SegmentIds, TypeOK, OverlapsAreRaces, NamesInv, NEW r \in Requests, Write(r)
    PROVE  NamesInv'
<1>. SUFFICES ASSUME "name" \notin raced
              PROVE  Unique' /\ \A q \in Requests : NameIsFree(req[q])'
  BY DEF NamesInv, NameIsFree, Write
<1>. DEFINE name == req[r].name
<1>0. req[r] \in Request /\ req[r].check = "name"
  BY DEF TypeOK, Holds, Write, At
<1>1. Unique /\ NameIsFree(req[r]) /\ req[r].at = "write"
  BY DEF NamesInv, Write, At
<1>2. \A q \in Requests : req'[q].at # "write"
  <2>1. req'[r].at = "idle"
    BY DEF Write, Finish, Idle, TypeOK
  <2>2. ASSUME NEW q \in Requests, q # r
        PROVE  req'[q].at # "write"
    <3>1. req[q].check # "name"
      BY <1>0, <2>2 DEF OverlapsAreRaces, Nothing
    <3>. QED
      BY <2>2, <3>1 DEF TypeOK, Holds, Write, Finish
  <2>. QED
    BY <2>1, <2>2
<1>3. CASE req[r].seg = Nothing
  <2>1. PICK s \in Segs \ Existing : segments' = [segments EXCEPT ![s] = name]
    BY <1>0, <1>3 DEF Write
  <2>2. \A t \in Existing : segments[t] # name
    BY <1>1, <1>3 DEF NameIsFree, SegmentIds, Existing
  <2>3. \A t \in Existing' : t = s \/ t \in Existing
    BY <2>1 DEF Existing, TypeOK
  <2>. QED
    BY <1>1, <1>2, <2>1, <2>2, <2>3 DEF Unique, NameIsFree, TypeOK, Existing
<1>4. CASE req[r].seg # Nothing
  <2>. DEFINE s == req[r].seg
  <2>1. segments' = [segments EXCEPT ![s] = IF @ = Nothing THEN Nothing ELSE name] /\ s \in Segs
    BY <1>0, <1>4 DEF Write, Request
  <2>2. \A t \in Existing : segments[t] = name => t = s
    BY <1>1 DEF NameIsFree
  <2>3. /\ \A t \in Existing' : t \in Existing
        /\ \A t \in Existing : segments'[t] = IF t = s THEN name ELSE segments[t]
    BY <2>1 DEF Existing, TypeOK
  <2>. QED
    BY <1>1, <1>2, <2>2, <2>3 DEF Unique, NameIsFree
<1>. QED
  BY <1>3, <1>4

LEMMA NamesContinue ==
    ASSUME SegmentIds, TypeOK, OverlapsAreRaces, NamesInv, NEW r \in Requests, Continue(r)
    PROVE  NamesInv'
<1>1. CASE Write(r)
  BY <1>1, NamesWrite
<1>2. ASSUME UNCHANGED <<segments, raced>>, "name" \notin raced,
             \A q \in Requests : q # r => req'[q] = req[q],
             NameIsFree(req'[r])
      PROVE  NamesInv'
  <2>1. Existing' = Existing
    BY <1>2 DEF Existing
  <2>2. Unique'
    BY <1>2, <2>1 DEF NamesInv, Unique
  <2>3. \A q \in Requests : NameIsFree(req[q])'
    BY <1>2, <2>1 DEF NamesInv, NameIsFree
  <2>. QED
    BY <2>2, <2>3 DEF NamesInv, NameIsFree
<1>3. CASE "name" \in raced
  BY <1>3 DEF NamesInv, Continue, ValidateName, Write, ValidateLimit, Add
<1>4. \A q \in Requests : q # r => req'[q] = req[q]
  BY ContinueRecord DEF TypeOK
<1>5. CASE ValidateName(r)
  <2>1. CASE ExistsByName(req[r].name)
    <3>1. req'[r].at = "idle"
      BY <1>5, <2>1 DEF ValidateName, Finish, Idle, TypeOK
    <3>. QED
      BY <1>2, <1>3, <1>4, <1>5, <3>1 DEF ValidateName, NameIsFree
  <2>2. CASE ~ExistsByName(req[r].name)
    <3>1. req'[r].name = req[r].name
      BY <1>5, <2>2 DEF ValidateName, Goto, TypeOK, Request
    <3>2. NameIsFree(req'[r])
      BY <2>2, <3>1 DEF NameIsFree, ExistsByName
    <3>. QED
      BY <1>2, <1>3, <1>4, <1>5, <3>2 DEF ValidateName
  <2>. QED
    BY <2>1, <2>2
<1>6. CASE ValidateLimit(r) \/ Add(r)
  <2>1. req[r].check = "limit"
    BY <1>6 DEF ValidateLimit, Add, At, TypeOK, Holds
  <2>2. req'[r].at # "write"
    <3>1. PICK rec \in Request : Holds(rec) /\ req' = [req EXCEPT ![r] = rec]
                                 /\ rec.check \in {Nothing, "limit"}
      BY <2>1, ContinueRecord
    <3>. QED
      BY <3>1 DEF TypeOK, Holds, Nothing
  <2>. QED
    BY <1>2, <1>3, <1>4, <1>6, <2>2 DEF ValidateLimit, Add, NameIsFree
<1>. QED
  BY <1>1, <1>5, <1>6 DEF Continue

LEMMA NamesNext ==
    ASSUME SegmentIds, TypeOK, OverlapsAreRaces, NamesInv, [Next]_vars
    PROVE  NamesInv'
<1>1. ASSUME NEW s \in Segs, Delete(s)
      PROVE  NamesInv'
  BY <1>1, FewerSegments DEF Delete, Existing, TypeOK
<1>2. ASSUME NEW s \in Segs, NEW t \in Strategies, RemoveFromStrategy(s, t)
      PROVE  NamesInv'
  BY <1>2, FewerSegments DEF RemoveFromStrategy, Existing
<1>3. CASE UNCHANGED vars
  BY <1>3, FewerSegments DEF vars, Existing
<1>. QED
  BY <1>1, <1>2, <1>3, NamesCall, NamesContinue DEF Next

\* Two segments have one name only if two requests checked names at once.
THEOREM NamesCorrect ==
    ASSUME SegmentIds
    PROVE  Spec => []SegmentNamesUnique
<1>1. TypeOK /\ OverlapsAreRaces /\ NamesInv /\ [Next]_vars
         => TypeOK' /\ OverlapsAreRaces' /\ NamesInv'
  BY NextKeeps, NamesNext
<1>2. NamesInv => SegmentNamesUnique
  BY DEF NamesInv, Unique, SegmentNamesUnique
<1>. QED
  BY InitInv, <1>1, <1>2, PTL DEF Spec
-----------------------------------------------------------------------------
(* The limit.                                                              *)

\* A part of what is within the limit is, and so is one more than less.
LEMMA Smaller ==
    ASSUME SegmentIds, NEW S \in SUBSET Segs
    PROVE  /\ \A T \in SUBSET S : WithinLimit(S) => WithinLimit(T)
           /\ \A x \in Segs : ~(Cardinality(S) >= Limit) => WithinLimit(S \cup {x})
<1>1. IsFiniteSet(S) /\ Cardinality(S) \in Nat
  BY FS_Subset, FS_CardinalityType DEF SegmentIds
<1>2. ASSUME NEW T \in SUBSET S, WithinLimit(S)
      PROVE  WithinLimit(T)
  <2>1. IsFiniteSet(T) /\ Cardinality(T) <= Cardinality(S) /\ Cardinality(T) \in Nat
    BY <1>1, FS_Subset, FS_CardinalityType
  <2>. QED
    BY <1>1, <1>2, <2>1 DEF WithinLimit, SegmentIds
<1>3. ASSUME NEW x \in Segs, ~(Cardinality(S) >= Limit)
      PROVE  WithinLimit(S \cup {x})
  <2>1. Cardinality(S \cup {x}) = IF x \in S THEN Cardinality(S) ELSE Cardinality(S) + 1
    BY <1>1, FS_AddElement
  <2>. QED
    BY <1>1, <1>3, <2>1 DEF WithinLimit, SegmentIds
<1>. QED
  BY <1>2, <1>3

\* Where links only go, everything stays within the limit.
LEMMA FewerLinks ==
    ASSUME SegmentIds, TypeOK, LimitInv, UNCHANGED <<req, raced>>,
           \A t \in Strategies : links'[t] \subseteq links[t]
    PROVE  LimitInv'
<1>. SUFFICES ASSUME "limit" \notin raced
              PROVE  /\ \A t \in Strategies : WithinLimit(links'[t])
                     /\ \A r \in Requests : AddsWithinLimit(req[r])'
  BY DEF LimitInv, WithinLimit, AddsWithinLimit
<1>1. ASSUME NEW t \in Strategies
      PROVE  WithinLimit(links'[t])
  BY Smaller DEF LimitInv, TypeOK
<1>2. ASSUME NEW r \in Requests, req[r].at = "addSegments"
      PROVE  LET q == req[r] IN
                /\ WithinLimit(links'[q.strategy] \cup q.checked)
                /\ \/ WithinLimit(links'[q.strategy] \cup q.checked \cup q.rest)
                   \/ q.checked = {} /\ \E s \in Segs : q.rest = {s}
  <2>. DEFINE q == req[r]
              S == links[q.strategy] \cup q.checked
              T == links'[q.strategy] \cup q.checked
  <2>1. q.strategy \in Strategies /\ q \in Request
    BY <1>2 DEF TypeOK, Holds
  <2>2. S \in SUBSET Segs /\ T \in SUBSET S
    BY <2>1 DEF TypeOK, Request
  <2>3. S \cup q.rest \in SUBSET Segs /\ T \cup q.rest \in SUBSET (S \cup q.rest)
    BY <2>1, <2>2 DEF Request
  <2>4. /\ WithinLimit(S)
        /\ WithinLimit(S \cup q.rest) \/ (q.checked = {} /\ \E s \in Segs : q.rest = {s})
    BY <1>2 DEF LimitInv, AddsWithinLimit
  <2>5. WithinLimit(T)
    BY <2>2, <2>4, Smaller
  <2>6. WithinLimit(S \cup q.rest) => WithinLimit(T \cup q.rest)
    BY <2>3, Smaller
  <2>. QED
    BY <2>4, <2>5, <2>6
<1>. QED
  BY <1>1, <1>2 DEF AddsWithinLimit, WithinLimit

LEMMA LimitCall ==
    ASSUME SegmentIds, TypeOK, LimitInv, NEW r \in Requests, Call(r)
    PROVE  LimitInv'
<1>. SUFFICES ASSUME "limit" \notin raced'
              PROVE  /\ \A t \in Strategies : WithinLimit(links'[t])
                     /\ \A q \in Requests : AddsWithinLimit(req[q])'
  BY DEF LimitInv, WithinLimit, AddsWithinLimit
<1>1. PICK rec \in Request :
        /\ Holds(rec) /\ Begin(r, rec)
        /\ rec.at = "addSegments" =>
              /\ rec.checked = {}
              /\ \/ \E s \in Segs : rec.rest = {s}
                 \/ \E t \in Strategies : rec.rest = links[t] /\ links[rec.strategy] = {}
  BY CallRecord DEF Holds
<1>2. "limit" \notin raced /\ UNCHANGED links
  BY <1>1 DEF Begin
<1>3. \A q \in Requests : req'[q] = IF q = r THEN rec ELSE req[q]
  BY <1>1 DEF TypeOK, Begin
<1>4. \A t \in Strategies : WithinLimit(links'[t])
  BY <1>2 DEF LimitInv
<1>5. AddsWithinLimit(rec)
  <2>. SUFFICES ASSUME rec.at = "addSegments"
                PROVE  /\ WithinLimit(links[rec.strategy] \cup rec.checked)
                       /\ \/ WithinLimit(links[rec.strategy] \cup rec.checked \cup rec.rest)
                          \/ rec.checked = {} /\ \E s \in Segs : rec.rest = {s}
    BY DEF AddsWithinLimit
  <2>1. /\ rec.checked = {} /\ rec.strategy \in Strategies
        /\ links[rec.strategy] \cup rec.checked = links[rec.strategy]
    BY <1>1 DEF Holds
  <2>2. WithinLimit(links[rec.strategy])
    BY <1>2, <2>1 DEF LimitInv
  <2>3. CASE \E t \in Strategies : rec.rest = links[t] /\ links[rec.strategy] = {}
    <3>1. PICK t \in Strategies : rec.rest = links[t] /\ links[rec.strategy] = {}
      BY <2>3
    <3>2. links[rec.strategy] \cup rec.checked \cup rec.rest = links[t]
      BY <2>1, <3>1
    <3>3. WithinLimit(links[t])
      BY <1>2 DEF LimitInv
    <3>. QED
      BY <2>1, <2>2, <3>2, <3>3
  <2>. QED
    BY <1>1, <2>1, <2>2, <2>3
<1>6. \A q \in Requests : AddsWithinLimit(req[q])'
  BY <1>2, <1>3, <1>5 DEF LimitInv, AddsWithinLimit
<1>. QED
  BY <1>4, <1>6

\* While nothing has raced, no other request checks the limit.
LEMMA LimitContinue ==
    ASSUME SegmentIds, TypeOK, OverlapsAreRaces, LimitInv, NEW r \in Requests, Continue(r)
    PROVE  LimitInv'
<1>0. UNCHANGED raced
  BY DEF Continue, ValidateName, Write, ValidateLimit, Add
<1>. SUFFICES ASSUME "limit" \notin raced
              PROVE  /\ \A t \in Strategies : WithinLimit(links'[t])
                     /\ \A q \in Requests : AddsWithinLimit(req[q])'
  BY <1>0 DEF LimitInv, WithinLimit, AddsWithinLimit
<1>. DEFINE q == req[r]
            S == links[q.strategy] \cup q.checked
<1>1. PICK rec \in Request :
         Holds(rec) /\ req' = [req EXCEPT ![r] = rec] /\ rec.check \in {Nothing, q.check}
  BY ContinueRecord
<1>2. \A p \in Requests : req'[p] = IF p = r THEN rec ELSE req[p]
  BY <1>1 DEF TypeOK
<1>3. q \in Request /\ Holds(q)
  BY DEF TypeOK
<1>4. CASE ValidateName(r) \/ Write(r)
  <2>1. UNCHANGED links
    BY <1>4 DEF ValidateName, Write
  <2>2. rec.at # "addSegments"
    BY <1>1, <1>3, <1>4 DEF Holds, ValidateName, Write, At, Nothing
  <2>. QED
    BY <1>2, <2>1, <2>2 DEF LimitInv, AddsWithinLimit
<1>5. CASE ValidateLimit(r) \/ Add(r)
  <2>1. q.at = "addSegments" /\ q.check = "limit" /\ q.strategy \in Strategies
    BY <1>3, <1>5 DEF Holds, ValidateLimit, Add, At
  <2>2. \A p \in Requests : p # r => req'[p].at # "addSegments"
    <3>1. \A p \in Requests : p # r => req[p].check # "limit"
      BY <2>1 DEF OverlapsAreRaces, Nothing
    <3>. QED
      BY <1>2, <3>1 DEF TypeOK, Holds
  <2>3. /\ WithinLimit(S)
        /\ WithinLimit(S \cup q.rest) \/ (q.checked = {} /\ \E s \in Segs : q.rest = {s})
    BY <2>1 DEF LimitInv, AddsWithinLimit
  <2>4. links[q.strategy] \in SUBSET Segs /\ q.checked \in SUBSET Segs /\ q.rest \in SUBSET Segs
    BY <1>3, <2>1 DEF TypeOK, Request
  <2>5. \A t \in Strategies : t # q.strategy => links'[t] = links[t]
    BY <1>5 DEF ValidateLimit, Add, TypeOK
  <2>6. SUFFICES
          /\ WithinLimit(links'[q.strategy])
          /\ rec.at = "addSegments" =>
                /\ rec.strategy = q.strategy
                /\ WithinLimit(links'[q.strategy] \cup rec.checked)
                /\ \/ WithinLimit(links'[q.strategy] \cup rec.checked \cup rec.rest)
                   \/ rec.checked = {} /\ \E s \in Segs : rec.rest = {s}
    BY <1>2, <2>1, <2>2, <2>5 DEF LimitInv, AddsWithinLimit, WithinLimit
  <2>7. ASSUME NEW rest, NEW checked, AddRest(r, rest, checked), rec.at = "addSegments"
        PROVE  rec.strategy = q.strategy /\ rec.rest = rest /\ rec.checked = checked
    <3>1. ~Finish(r)
      BY <1>2, <2>7 DEF Finish, Idle, TypeOK
    <3>2. req' = [req EXCEPT ![r].rest = rest, ![r].checked = checked]
      BY <2>7, <3>1 DEF AddRest
    <3>3. req'[r] = [q EXCEPT !.rest = rest, !.checked = checked]
      BY <1>3, <3>2 DEF TypeOK, Request
    <3>. QED
      BY <1>2, <1>3, <3>3 DEF Request
  <2>8. CASE ValidateLimit(r)
    <3>. DEFINE new(s) == IF LimitReached(q.strategy) THEN q.checked ELSE q.checked \cup {s}
    <3>1. PICK s \in q.rest : AddRest(r, q.rest \ {s}, new(s))
      BY <2>8 DEF ValidateLimit
    <3>2. links'[q.strategy] = links[q.strategy] /\ s \in Segs
      BY <2>4, <2>8 DEF ValidateLimit
    <3>3. WithinLimit(links[q.strategy])
      BY <2>1 DEF LimitInv
    <3>4. CASE WithinLimit(S \cup q.rest)
      <4>1. S \cup q.rest \in SUBSET Segs
        BY <2>4
      <4>2. /\ links[q.strategy] \cup new(s) \in SUBSET (S \cup q.rest)
            /\ links[q.strategy] \cup new(s) \cup (q.rest \ {s}) \in SUBSET (S \cup q.rest)
        OBVIOUS
      <4>3. /\ WithinLimit(links[q.strategy] \cup new(s))
            /\ WithinLimit(links[q.strategy] \cup new(s) \cup (q.rest \ {s}))
        BY <3>4, <4>1, <4>2, Smaller
      <4>. HIDE DEF new
      <4>. QED
        BY <2>7, <3>1, <3>2, <3>3, <4>3
    <3>5. CASE q.checked = {} /\ q.rest = {s}
      <4>1. WithinLimit(links[q.strategy] \cup new(s))
        <5>1. CASE LimitReached(q.strategy)
          <6>1. links[q.strategy] \cup new(s) = S
            BY <5>1
          <6>. QED
            BY <2>3, <6>1
        <5>2. CASE ~LimitReached(q.strategy)
          <6>1. links[q.strategy] \cup new(s) = links[q.strategy] \cup {s}
            BY <3>5, <5>2
          <6>2. WithinLimit(links[q.strategy] \cup {s})
            BY <2>4, <3>2, <5>2, Smaller DEF LimitReached
          <6>. QED
            BY <6>1, <6>2
        <5>. QED
          BY <5>1, <5>2
      <4>2. q.rest \ {s} = {}
        BY <3>5
      <4>3. links[q.strategy] \cup new(s) \cup {} = links[q.strategy] \cup new(s)
        OBVIOUS
      <4>. HIDE DEF new
      <4>. QED
        BY <2>7, <3>1, <3>2, <3>3, <4>1, <4>2, <4>3
    <3>. QED
      BY <2>3, <3>1, <3>4, <3>5
  <2>9. CASE Add(r)
    <3>1. PICK s \in q.checked :
             /\ links' = [links EXCEPT ![q.strategy] = @ \cup ({s} \cap Existing)]
             /\ AddRest(r, q.rest, q.checked \ {s})
      BY <2>9 DEF Add
    <3>2. links'[q.strategy] = links[q.strategy] \cup ({s} \cap Existing)
      BY <2>1, <3>1 DEF TypeOK
    <3>3. WithinLimit(S \cup q.rest)
      BY <2>3
    <3>4. /\ links'[q.strategy] \in SUBSET S
          /\ links'[q.strategy] \cup (q.checked \ {s}) \in SUBSET S
          /\ links'[q.strategy] \cup (q.checked \ {s}) \cup q.rest \in SUBSET (S \cup q.rest)
      BY <3>2
    <3>5. S \in SUBSET Segs /\ S \cup q.rest \in SUBSET Segs
      BY <2>4
    <3>6. /\ WithinLimit(links'[q.strategy])
          /\ WithinLimit(links'[q.strategy] \cup (q.checked \ {s}))
          /\ WithinLimit(links'[q.strategy] \cup (q.checked \ {s}) \cup q.rest)
      BY <2>3, <3>3, <3>4, <3>5, Smaller
    <3>. QED
      BY <2>7, <3>1, <3>6
  <2>. QED
    BY <1>5, <2>8, <2>9
<1>. QED
  BY <1>4, <1>5 DEF Continue

LEMMA LimitNext ==
    ASSUME SegmentIds, TypeOK, OverlapsAreRaces, LimitInv, [Next]_vars
    PROVE  LimitInv'
<1>1. ASSUME NEW s \in Segs, Delete(s) \/ \E t \in Strategies : RemoveFromStrategy(s, t)
      PROVE  LimitInv'
  BY <1>1, FewerLinks DEF Delete, RemoveFromStrategy, TypeOK
<1>2. CASE UNCHANGED vars
  BY <1>2, FewerLinks DEF vars
<1>. QED
  BY <1>1, <1>2, LimitCall, LimitContinue DEF Next

\* A strategy has more segments than the limit only if two requests checked
\* it at once: a clone, whose checks and inserts come in any order, cannot
\* exceed it alone.
THEOREM LimitCorrect ==
    ASSUME SegmentIds
    PROVE  Spec => []SegmentLimitKept
<1>1. TypeOK /\ OverlapsAreRaces /\ LimitInv /\ [Next]_vars
         => TypeOK' /\ OverlapsAreRaces' /\ LimitInv'
  BY NextKeeps, LimitNext
<1>2. LimitInv => SegmentLimitKept
  BY DEF LimitInv, WithinLimit, SegmentLimitKept
<1>. QED
  BY InitInv, <1>1, <1>2, PTL DEF Spec
=============================================================================
