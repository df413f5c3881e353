---------------------------- MODULE Applications ----------------------------
(***************************************************************************)
(* How the clients that register reach the tables client_applications and  *)
(* client_instances, and how new applications are announced.  A server     *)
(* keeps registrations in memory, every five seconds writes them to the    *)
(* two tables, and every five minutes announces what is unannounced.       *)
(*                                                                         *)
(* The model has one instance of each application, in several environments.*)
(***************************************************************************)
EXTENDS Naturals, FiniteSets

CONSTANTS
    Servers,
    Apps,
    Envs,
    MaxFlushes,  \* bound: flushes in progress at once
    MaxEdits,    \* bound: edits of each application in the user interface
    MayFail,     \* whether statements fail
    MayDelete    \* whether applications are deleted

Nothing == "none"

VARIABLES
    seen,       \* seenClients of each server: the environment of each client
    flushes,    \* calls of bulkAdd in progress
    apps,       \* client_applications: absent, unannounced or announced
    instances,  \* client_instances: pairs of application and environment
    deleting,   \* applications whose instances are deleted already
    pending,    \* applications marked as announced, whose event is not stored
    announced,  \* how often each application was marked since it was created
    edits,      \* how often it was edited since
    registered, \* ghost: the registrations that servers took
    lost        \* ghost: those that were overwritten, failed or were deleted

vars == <<seen, flushes, apps, instances, deleting, pending, announced, edits, registered, lost>>

-----------------------------------------------------------------------------
(* registerClient.  The key of seenClients leaves out the environment, so  *)
(* that a client that registers in two environments is kept in the last.   *)

Overwritten(s, a, e) == IF seen[s][a] \in {Nothing, e} THEN {} ELSE {<<a, seen[s][a]>>}

RegisterClient(s, a, e) ==
    /\ seen' = [seen EXCEPT ![s][a] = e]
    /\ registered' = registered \cup {<<a, e>>}
    /\ lost' = (lost \ {<<a, e>>}) \cup Overwritten(s, a, e)
    /\ UNCHANGED <<flushes, apps, instances, deleting, pending, announced, edits>>

-----------------------------------------------------------------------------
(* bulkAdd: the registrations are taken, and written in two statements; an *)
(* error drops what is left.                                               *)

Registrations(s) == {x \in Apps \X Envs : seen[s][x[1]] = x[2]}

\* Mutant: seenClients is emptied when the statements are done.
EmptiedLater(s, at) ==
    IF at = "instances" THEN [seen EXCEPT ![s] = [a \in Apps |-> Nothing]] ELSE seen

Emptied(s, at) ==
    IF at = "start" THEN [seen EXCEPT ![s] = [a \in Apps |-> Nothing]] ELSE seen

BulkAdd(s) ==
    /\ Registrations(s) # {}
    /\ Cardinality(flushes) < MaxFlushes
    /\ flushes' = flushes \cup {[server |-> s, rows |-> Registrations(s), at |-> "apps"]}
    /\ seen' = Emptied(s, "start")
    /\ UNCHANGED <<apps, instances, deleting, pending, announced, edits, registered, lost>>

\* Mutant: an upsert sets announced to its default.
UpsertedAsNew(a) == "unannounced"

\* A registration has no value for announced: the column keeps it.
Upserted(a) == IF apps[a] = "absent" THEN "unannounced" ELSE apps[a]

UpsertApps(f) ==
    LET A == {x[1] : x \in f.rows} IN
    /\ f \in flushes
    /\ f.at = "apps"
    /\ apps' = [a \in Apps |-> IF a \in A THEN Upserted(a) ELSE apps[a]]
    /\ flushes' = (flushes \ {f}) \cup {[f EXCEPT !.at = "instances"]}
    /\ UNCHANGED <<seen, instances, deleting, pending, announced, edits, registered, lost>>

UpsertInstances(f) ==
    /\ f \in flushes
    /\ f.at = "instances"
    /\ instances' = instances \cup f.rows
    /\ flushes' = flushes \ {f}
    /\ seen' = Emptied(f.server, "instances")
    /\ UNCHANGED <<apps, deleting, pending, announced, edits, registered, lost>>

FailFlush(f) ==
    /\ MayFail
    /\ f \in flushes
    /\ flushes' = flushes \ {f}
    /\ lost' = lost \cup f.rows
    /\ UNCHANGED <<seen, apps, instances, deleting, pending, announced, edits, registered>>

-----------------------------------------------------------------------------
(* announceUnannounced: one statement marks the rows and returns those that*)
(* it changed; their events are stored in another one.                     *)

Unannounced == {a \in Apps : apps[a] = "unannounced"}

SetUnannouncedToAnnounced ==
    /\ Unannounced # {}
    /\ pending = {}
    /\ apps' = [a \in Apps |-> IF a \in Unannounced THEN "announced" ELSE apps[a]]
    /\ announced' = [a \in Apps |-> IF a \in Unannounced THEN announced[a] + 1 ELSE announced[a]]
    /\ pending' = Unannounced
    /\ UNCHANGED <<seen, flushes, instances, deleting, edits, registered, lost>>

BatchStore ==
    /\ pending # {}
    /\ pending' = {}
    /\ UNCHANGED <<seen, flushes, apps, instances, deleting, announced, edits, registered, lost>>

-----------------------------------------------------------------------------
\* createApplication, which the user interface calls to edit one: a missing
\* value of announced becomes false.
CreateApplication(a) ==
    /\ edits[a] < MaxEdits
    /\ apps' = [apps EXCEPT ![a] = "unannounced"]
    /\ edits' = [edits EXCEPT ![a] = @ + 1]
    /\ UNCHANGED <<seen, flushes, instances, deleting, pending, announced, registered, lost>>

\* deleteApplication: the instances first.
DeleteInstances(a) ==
    /\ MayDelete
    /\ a \notin deleting
    /\ apps[a] # "absent"
    /\ deleting' = deleting \cup {a}
    /\ instances' = {x \in instances : x[1] # a}
    /\ lost' = lost \cup {x \in instances : x[1] = a}
    /\ UNCHANGED <<seen, flushes, apps, pending, announced, edits, registered>>

DeleteApp(a) ==
    /\ a \in deleting
    /\ deleting' = deleting \ {a}
    /\ apps' = [apps EXCEPT ![a] = "absent"]
    /\ announced' = [announced EXCEPT ![a] = 0]
    /\ edits' = [edits EXCEPT ![a] = 0]
    /\ UNCHANGED <<seen, flushes, instances, pending, registered, lost>>

-----------------------------------------------------------------------------
Init ==
    /\ seen = [s \in Servers |-> [a \in Apps |-> Nothing]]
    /\ flushes = {}
    /\ apps = [a \in Apps |-> "absent"]
    /\ instances = {}
    /\ deleting = {}
    /\ pending = {}
    /\ announced = [a \in Apps |-> 0]
    /\ edits = [a \in Apps |-> 0]
    /\ registered = {}
    /\ lost = {}

Flush == [server : Servers, rows : SUBSET (Apps \X Envs), at : {"apps", "instances"}]

FlushStep(f) == UpsertApps(f) \/ UpsertInstances(f)

Next ==
    \/ \E s \in Servers, a \in Apps, e \in Envs : RegisterClient(s, a, e)
    \/ \E s \in Servers : BulkAdd(s)
    \/ \E f \in flushes : FlushStep(f) \/ FailFlush(f)
    \/ SetUnannouncedToAnnounced
    \/ BatchStore
    \/ \E a \in Apps : CreateApplication(a) \/ DeleteInstances(a) \/ DeleteApp(a)

-----------------------------------------------------------------------------
(* Properties.                                                             *)

\* "Same application registered multiple times should still only be announced
\* once": as long as it exists, an application is announced once, and once more
\* for each edit at most, whichever servers write and announce it.
AnnouncedOnce == \A a \in Apps : announced[a] <= 1 + edits[a]

\* Every registration that a server takes reaches the table of instances,
\* unless it is overwritten by one for another environment, or its flush fails.
EventuallyRegistered ==
    \A x \in Apps \X Envs : x \in registered ~> x \in instances \cup lost
=============================================================================
