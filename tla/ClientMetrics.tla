---------------------------- MODULE ClientMetrics ----------------------------
(***************************************************************************)
(* How the usage counts that clients report reach client_metrics_env: each *)
(* server collapses them by toggle and hour in a buffer, and every five    *)
(* seconds upserts the buffer in one statement.  The statement locks its   *)
(* rows one after the other and keeps them to its end, so statements of    *)
(* two servers, or two of one server, may wait for each other.             *)
(*                                                                         *)
(* A count is not a number here but a set: of the reports that it adds up. *)
(***************************************************************************)
EXTENDS Naturals, FiniteSets

CONSTANTS
    Servers,
    Reports,  \* bound: the reports (buckets) that clients send
    Toggles,  \* feature, application and environment, in their sort order
    Hours,
    Batching, \* the servers with the experimental flag batchMetrics
    Faults    \* of {"fail", "stop"}: what may go wrong

ASSUME MetricsAssumption ==
    /\ Toggles \subseteq Nat
    /\ Batching \subseteq Servers
    /\ Faults \subseteq {"fail", "stop"}
    /\ IsFiniteSet(Hours)

Key == Toggles \X Hours
Items == Reports \X Toggles

VARIABLES
    taken,    \* the counts that clients handed over
    buffer,   \* unsavedMetrics of each server
    order,    \* the positions of its rows among those of the same toggle
    inserts,  \* the upsert statements that run in the database
    counted,  \* client_metrics_env: how often each count was added
    dropped   \* history: the counts that an error or a stop threw away

vars == <<taken, buffer, order, inserts, counted, dropped>>

Rows == [Key -> SUBSET Items]
Order == [Key -> Nat]
Insert == [server : Servers, rows : Rows, order : Order, locked : SUBSET Key]

NoRows == [k \in Key |-> {}]
NoOrder == [k \in Key |-> 0]

-----------------------------------------------------------------------------
(* registerClientMetrics and collapseHourlyMetrics.  The handler also      *)
(* stamps features.last_seen_at, which nothing here reads.                 *)

\* Mutant: a later count replaces the earlier one.
Replaced(rows, r, h, T) ==
    [k \in Key |-> IF k[1] \in T /\ k[2] = h THEN {<<r, k[1]>>} ELSE rows[k]]

Collapsed(rows, r, h, T) ==
    [k \in Key |-> IF k[1] \in T /\ k[2] = h THEN rows[k] \cup {<<r, k[1]>>} ELSE rows[k]]

HoursIn(rows, t) == {h \in Hours : rows[<<t, h>>] # {}}

\* A row that is new comes behind the others of its toggle.
Ordered(ord, rows, h, T) ==
    [k \in Key |-> IF k[1] \in T /\ k[2] = h /\ rows[k] = {}
                   THEN Cardinality(HoursIn(rows, k[1])) + 1
                   ELSE ord[k]]

Register(s, r, h, T) ==
    /\ \A t \in Toggles : <<r, t>> \notin taken
    /\ taken' = taken \cup ({r} \X T)
    /\ \/ /\ s \in Batching
          /\ buffer' = [buffer EXCEPT ![s] = Collapsed(@, r, h, T)]
          /\ order' = [order EXCEPT ![s] = Ordered(@, buffer[s], h, T)]
          /\ UNCHANGED inserts
       \/ /\ s \notin Batching
          /\ inserts' = inserts \cup
                 {[server |-> s, rows |-> Collapsed(NoRows, r, h, T),
                   order |-> Ordered(NoOrder, NoRows, h, T), locked |-> {}]}
          /\ UNCHANGED <<buffer, order>>
    /\ UNCHANGED <<counted, dropped>>

-----------------------------------------------------------------------------
(* bulkAdd: the buffer is copied and emptied before the insert is awaited. *)

\* Mutant: a single row is not worth a statement.
HasSeveralMetrics(s) == \E k, l \in Key : k # l /\ buffer[s][k] # {} /\ buffer[s][l] # {}

HasMetrics(s) == buffer[s] # NoRows

\* Mutant: the buffer is sent but stays.
Kept(s) == buffer

Emptied(s) == [buffer EXCEPT ![s] = NoRows]

BulkAdd(s) ==
    /\ HasMetrics(s)
    /\ inserts' = inserts \cup
           {[server |-> s, rows |-> buffer[s], order |-> order[s], locked |-> {}]}
    /\ buffer' = Emptied(s)
    /\ order' = [order EXCEPT ![s] = NoOrder]
    /\ UNCHANGED <<taken, counted, dropped>>

-----------------------------------------------------------------------------
(* batchInsertMetrics: the rows are sorted by toggle (the sort is stable   *)
(* and does not look at the hour), locked in this order, and added up.     *)

Unlocked(i) == {k \in Key : i.rows[k] # {}} \ i.locked

\* Mutant: the rows are not sorted.
InAnyOrder(i, k, l) == TRUE

Before(i, k, l) == k[1] < l[1] \/ (k[1] = l[1] /\ i.order[k] < i.order[l])

IsNext(i, k) == k \in Unlocked(i) /\ \A l \in Unlocked(i) \ {k} : Before(i, k, l)

LockRow(i) ==
    /\ \E k \in Key :
          /\ IsNext(i, k)
          /\ \A j \in inserts : k \notin j.locked
          /\ inserts' = (inserts \ {i}) \cup {[i EXCEPT !.locked = @ \cup {k}]}
    /\ UNCHANGED <<taken, buffer, order, counted, dropped>>

Contains(rows, x) == \E k \in Key : x \in rows[k]

Commit(i) ==
    /\ Unlocked(i) = {}
    /\ counted' = [x \in Items |-> IF Contains(i.rows, x) THEN counted[x] + 1 ELSE counted[x]]
    /\ inserts' = inserts \ {i}
    /\ UNCHANGED <<taken, buffer, order, dropped>>

-----------------------------------------------------------------------------
(* What loses counts.  An error of the insert is printed, and the copy of  *)
(* the buffer is dropped; PostgreSQL aborts one statement of a circle that *)
(* wait for each other; a server that stops does not write its buffer.     *)

WaitsFor(i, j) == i # j /\ \E k \in j.locked : IsNext(i, k)

InCircle(i) ==
    \E S \in SUBSET inserts :
        /\ i \in S
        /\ \A j \in S : (\E n \in S : WaitsFor(j, n)) /\ (\E n \in S : WaitsFor(n, j))

Abort(i) ==
    /\ InCircle(i) \/ "fail" \in Faults
    /\ inserts' = inserts \ {i}
    /\ dropped' = dropped \cup {x \in Items : Contains(i.rows, x)}
    /\ UNCHANGED <<taken, buffer, order, counted>>

HeldBy(s) ==
    {x \in Items : \/ Contains(buffer[s], x)
                  \/ \E i \in inserts : i.server = s /\ Contains(i.rows, x)}

Stop(s) ==
    /\ "stop" \in Faults
    /\ buffer' = [buffer EXCEPT ![s] = NoRows]
    /\ order' = [order EXCEPT ![s] = NoOrder]
    /\ inserts' = {i \in inserts : i.server # s}
    /\ dropped' = dropped \cup HeldBy(s)
    /\ UNCHANGED <<taken, counted>>

-----------------------------------------------------------------------------
Init ==
    /\ taken = {}
    /\ buffer = [s \in Servers |-> NoRows]
    /\ order = [s \in Servers |-> NoOrder]
    /\ inserts = {}
    /\ counted = [x \in Items |-> 0]
    /\ dropped = {}

Server(s) ==
    \/ \E r \in Reports, h \in Hours, T \in SUBSET Toggles \ {{}} : Register(s, r, h, T)
    \/ BulkAdd(s)
    \/ Stop(s)

Database == \E i \in inserts : LockRow(i) \/ Commit(i) \/ Abort(i)

Next == (\E s \in Servers : Server(s)) \/ Database

Spec == Init /\ [][Next]_vars

\* The interval calls bulkAdd again and again, and the database goes on with
\* the statements it runs.
FairSpec == Spec /\ (\A s \in Servers : WF_vars(BulkAdd(s))) /\ WF_vars(Database)
-----------------------------------------------------------------------------
(* Properties.                                                             *)

TypeOK ==
    /\ taken \in SUBSET Items
    /\ buffer \in [Servers -> Rows]
    /\ order \in [Servers -> Order]
    /\ inserts \in SUBSET Insert
    /\ counted \in [Items -> Nat]
    /\ dropped \in SUBSET Items

\* Whatever fails, however inserts and reports interleave, a count is added
\* to the table at most once, and only what a client reported: the buffer is
\* emptied in the step that copies it.
Ledger == INSTANCE MetricsLedger WITH Items <- Items, taken <- taken, counted <- counted

ImplementsLedger == Ledger!Spec

Held(x) ==
    \/ \E s \in Servers : Contains(buffer[s], x)
    \/ \E i \in inserts : Contains(i.rows, x)

\* No count gets lost unseen: it is in the table, in a buffer, in a statement
\* that runs, or was thrown away with a statement that failed or a server that
\* stopped, and what was thrown away is not in the table.
NothingLost ==
    \A x \in taken : /\ counted[x] = 1 \/ x \in dropped \/ Held(x)
                     /\ (x \in dropped => counted[x] = 0 /\ ~Held(x))

\* "Sort the rows to avoid deadlocks": no statements wait in a circle.
NoDeadlock == \A i \in inserts : ~InCircle(i)

\* Every count that was reported reaches the table, unless its statement or
\* its server fails: none stays in a buffer for ever.
EventuallyCounted == \A x \in Items : x \in taken ~> counted[x] = 1 \/ x \in dropped
=============================================================================
