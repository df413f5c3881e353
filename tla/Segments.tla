------------------------------ MODULE Segments ------------------------------
(***************************************************************************)
(* Segments, and the strategies that use them.  No index makes the name of  *)
(* a segment unique, and no constraint limits the segments of a strategy:   *)
(* both are checked by a select before the write.  The strategy to whose    *)
(* segments a clone adds is one of those of the database.                   *)
(***************************************************************************)
EXTENDS Naturals, FiniteSets

CONSTANTS
    Segs,        \* bound: segment ids
    Names,       \* names of segments
    Strategies,  \* ids of strategies
    Limit,       \* config.strategySegmentsLimit
    Requests     \* bound: requests in progress at once

Nothing == "none"

VARIABLES
    segments,   \* the name of every id in segments, Nothing where there is no row
    links,      \* feature_strategy_segment: the segments of each strategy
    req,        \* the requests in progress
    raced       \* ghost: which checks have had two requests between check and write

vars == <<segments, links, req, raced>>

Existing == {s \in Segs : segments[s] # Nothing}

Idle == [check |-> Nothing, at |-> "idle", seg |-> Nothing, name |-> Nothing, strategy |-> Nothing,
         rest |-> {}, checked |-> {}]

At(r, step) == req[r].at = step
Goto(r, step) == req' = [req EXCEPT ![r].at = step]
Finish(r) == req' = [req EXCEPT ![r] = Idle]

\* check is what the request checks before it writes: a name or a limit.
Begin(r, rec) ==
    /\ req[r] = Idle
    /\ req' = [req EXCEPT ![r] = rec]
    /\ raced' = raced \cup ({rec.check} \cap {req[q].check : q \in Requests})
    /\ UNCHANGED <<segments, links>>

-----------------------------------------------------------------------------
(* create and update.                                                      *)

Create(r, name) ==
    Begin(r, [Idle EXCEPT !.check = "name", !.at = "validateName", !.name = name])

\* The name is validated when it differs from the one that was read.
Update(r, s, name) ==
    /\ s \in Existing
    /\ Begin(r, [Idle EXCEPT !.check = "name", !.seg = s, !.name = name,
                             !.at = IF segments[s] = name THEN "write" ELSE "validateName"])

\* Mutant: a name is taken only when another segment that is in use has it.
ExistsInUse(name) == \E s \in Existing : segments[s] = name /\ \E t \in Strategies : s \in links[t]

ExistsByName(name) == \E s \in Existing : segments[s] = name

ValidateName(r) ==
    /\ At(r, "validateName")
    /\ IF ExistsByName(req[r].name) THEN Finish(r) ELSE Goto(r, "write")
    /\ UNCHANGED <<segments, links, raced>>

\* An insert takes a new id; an update of a row that is gone throws.
Write(r) ==
    LET q == req[r] IN
    /\ At(r, "write")
    /\ \/ /\ q.seg = Nothing
          /\ \E s \in Segs \ Existing : segments' = [segments EXCEPT ![s] = q.name]
       \/ /\ q.seg # Nothing
          /\ segments' = [segments EXCEPT ![q.seg] = IF @ = Nothing THEN Nothing ELSE q.name]
    /\ Finish(r)
    /\ UNCHANGED <<links, raced>>

\* The foreign key of feature_strategy_segment cascades.
Delete(s) ==
    /\ s \in Existing
    /\ segments' = [segments EXCEPT ![s] = Nothing]
    /\ links' = [t \in Strategies |-> links[t] \ {s}]
    /\ UNCHANGED <<req, raced>>

-----------------------------------------------------------------------------
(* addToStrategy, removeFromStrategy, and cloneStrategySegments, which runs *)
(* one addToStrategy for every segment of the source, all at once: they     *)
(* check the limit and write in any order.                                  *)

AddToStrategy(r, s, t) ==
    Begin(r, [Idle EXCEPT !.check = "limit", !.at = "addSegments", !.strategy = t, !.rest = {s}])

\* The target is a strategy that has just been created.
CloneStrategySegments(r, source, target) ==
    /\ links[target] = {}
    /\ links[source] # {}
    /\ Begin(r, [Idle EXCEPT !.check = "limit", !.at = "addSegments", !.strategy = target,
                             !.rest = links[source]])

\* Mutant: the segment that is about to be added is forgotten.
MoreThanLimit(t) == Cardinality(links[t]) > Limit

LimitReached(t) == Cardinality(links[t]) >= Limit

\* The request goes on with the segments that are still to be checked or added.
AddRest(r, rest, checked) ==
    IF rest = {} /\ checked = {} THEN Finish(r)
    ELSE req' = [req EXCEPT ![r].rest = rest, ![r].checked = checked]

ValidateLimit(r) ==
    LET q == req[r] IN
    /\ At(r, "addSegments")
    /\ \E s \in q.rest :
          AddRest(r, q.rest \ {s}, IF LimitReached(q.strategy) THEN q.checked ELSE q.checked \cup {s})
    /\ UNCHANGED <<segments, links, raced>>

\* The primary key rejects a segment that the strategy has, and the foreign key
\* one that is gone; of a clone, the others are added all the same.
Add(r) ==
    LET q == req[r] IN
    /\ At(r, "addSegments")
    /\ \E s \in q.checked :
          /\ links' = [links EXCEPT ![q.strategy] = @ \cup ({s} \cap Existing)]
          /\ AddRest(r, q.rest, q.checked \ {s})
    /\ UNCHANGED <<segments, raced>>

RemoveFromStrategy(s, t) ==
    /\ s \in links[t]
    /\ links' = [links EXCEPT ![t] = @ \ {s}]
    /\ UNCHANGED <<segments, req, raced>>

-----------------------------------------------------------------------------
Init ==
    /\ segments = [s \in Segs |-> Nothing]
    /\ links = [t \in Strategies |-> {}]
    /\ req = [r \in Requests |-> Idle]
    /\ raced = {}

Call(r) ==
    \/ \E n \in Names : Create(r, n) \/ \E s \in Segs : Update(r, s, n)
    \/ \E t \in Strategies :
          \/ \E s \in Segs : AddToStrategy(r, s, t)
          \/ \E u \in Strategies \ {t} : CloneStrategySegments(r, u, t)

Continue(r) == ValidateName(r) \/ Write(r) \/ ValidateLimit(r) \/ Add(r)

Next ==
    \/ \E r \in Requests : Call(r) \/ Continue(r)
    \/ \E s \in Segs : Delete(s) \/ \E t \in Strategies : RemoveFromStrategy(s, t)

Spec == Init /\ [][Next]_vars
-----------------------------------------------------------------------------
(* Properties.                                                             *)

\* Two segments have the same name only if two requests have checked names at
\* once: no index of the database stops them.
SegmentNamesUnique ==
    "name" \notin raced => \A s, t \in Existing : segments[s] = segments[t] => s = t

\* A strategy has more segments than the limit only if two requests have
\* checked the limit at once, a clone among them.
SegmentLimitKept ==
    "limit" \notin raced => \A t \in Strategies : Cardinality(links[t]) <= Limit
=============================================================================
