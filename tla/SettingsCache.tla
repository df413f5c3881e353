---------------------------- MODULE SettingsCache ----------------------------
(***************************************************************************)
(* One setting, its row in the table settings, and the cache that each     *)
(* server keeps of it for good, the absence of a row included.  A write    *)
(* clears the cache first, and then looks whether the row exists.          *)
(***************************************************************************)
EXTENDS Naturals

CONSTANTS
    Servers,
    Requests,  \* bound: requests in progress at once
    Values     \* contents of the setting

\* A row that does not exist has the content Undefined, which is cached too.
Undefined == "undefined"
NotCached == "not cached"
Contents == Values \cup {Undefined}

VARIABLES
    content,  \* of the row
    cache,    \* of each server
    req       \* the requests in progress

vars == <<content, cache, req>>

\* refilled: another request has filled the cache since this one cleared it.
Idle == [at |-> "idle", server |-> "none", value |-> Undefined, refilled |-> FALSE]

At(r, step) == req[r].at = step
Goto(r, step) == req' = [req EXCEPT ![r].at = step]

-----------------------------------------------------------------------------
(* get: a miss reads the row, and fills the cache by what it read.  A hit  *)
(* changes nothing.                                                        *)

Get(r, s) ==
    /\ req[r] = Idle
    /\ cache[s] = NotCached
    /\ req' = [req EXCEPT ![r] = [Idle EXCEPT !.at = "read", !.server = s]]
    /\ UNCHANGED <<content, cache>>

Read(r) ==
    /\ At(r, "read")
    /\ req' = [req EXCEPT ![r].at = "fill", ![r].value = content]
    /\ UNCHANGED <<content, cache>>

Fill(r) ==
    LET s == req[r].server IN
    /\ At(r, "fill")
    /\ cache' = [cache EXCEPT ![s] = req[r].value]
    /\ req' = [q \in Requests |->
                 IF q = r THEN Idle
                 ELSE [req[q] EXCEPT !.refilled = @ \/ req[q].server = s]]
    /\ UNCHANGED content

-----------------------------------------------------------------------------
(* insert, delete and deleteAll.  insert of the service and insert of the  *)
(* store each look whether the row exists; two inserts of a new row break  *)
(* the primary key, and the second fails.                                  *)

\* Mutant: the cache is only cleared on delete.
ClearedByDelete(s, v) == IF v = Undefined THEN [cache EXCEPT ![s] = NotCached] ELSE cache

Cleared(s, v) == [cache EXCEPT ![s] = NotCached]

Write(r, s, v, step) ==
    /\ req[r] = Idle
    /\ cache' = Cleared(s, v)
    /\ req' = [req EXCEPT ![r] = [at |-> step, server |-> s, value |-> v, refilled |-> FALSE]]
    /\ UNCHANGED content

Insert(r, s, v) == v \in Values /\ Write(r, s, v, "exists")
Delete(r, s) == Write(r, s, Undefined, "delete")

Exists(r) ==
    /\ At(r, "exists")
    /\ Goto(r, IF content # Undefined THEN "updateRow" ELSE "storeExists")
    /\ UNCHANGED <<content, cache>>

StoreExists(r) ==
    /\ At(r, "storeExists")
    /\ Goto(r, IF content # Undefined THEN "updateRow" ELSE "insertNewRow")
    /\ UNCHANGED <<content, cache>>

Set(r, v) ==
    /\ content' = v
    /\ req' = [req EXCEPT ![r] = Idle]
    /\ UNCHANGED cache

UpdateRow(r) ==
    At(r, "updateRow") /\ Set(r, IF content = Undefined THEN Undefined ELSE req[r].value)

InsertNewRow(r) ==
    At(r, "insertNewRow") /\ Set(r, IF content = Undefined THEN req[r].value ELSE content)

DeleteRow(r) == At(r, "delete") /\ Set(r, Undefined)

-----------------------------------------------------------------------------
Init ==
    /\ content \in Contents
    /\ cache = [s \in Servers |-> NotCached]
    /\ req = [r \in Requests |-> Idle]

Call(r, s) == Get(r, s) \/ Delete(r, s) \/ \E v \in Values : Insert(r, s, v)

Continue(r) ==
    \/ Read(r) \/ Fill(r)
    \/ Exists(r) \/ StoreExists(r)
    \/ UpdateRow(r) \/ InsertNewRow(r) \/ DeleteRow(r)

Next == \E r \in Requests : Continue(r) \/ \E s \in Servers : Call(r, s)

Spec == Init /\ [][Next]_vars
-----------------------------------------------------------------------------
(* Properties.                                                             *)

Request == [at : {"idle", "read", "fill", "exists", "storeExists", "updateRow",
                  "insertNewRow", "delete"},
            server : Servers \cup {"none"}, value : Contents, refilled : BOOLEAN]

TypeOK ==
    /\ content \in Contents
    /\ cache \in [Servers -> Contents \cup {NotCached}]
    /\ req \in [Requests -> Request]

Current(s) == cache[s] \in {NotCached, content}

\* The write that changes the row comes from another server, which clears only
\* its own cache.
WrittenElsewhere(s) == \E r \in Requests : req[r].server # s /\ content' # content /\ req'[r] # req[r]

\* It comes from this server, but a get has filled the cache since it was
\* cleared.
Refilled(s) == \E r \in Requests : req[r].server = s /\ req[r].refilled /\ content' # content /\ req'[r] # req[r]

\* A get fills the cache by what it read before the row changed.
Outdated(s) == \E r \in Requests : req[r].server = s /\ At(r, "fill") /\ cache'[s] = req[r].value

\* The cache of a server is never invalidated from outside, so what it holds
\* can be stale for good; but it becomes stale in three ways only: by a write
\* of another server, by a get that overlaps a write after the cache was
\* cleared, and by a get that fills what it read before a write.
StaleOnlyByRaces ==
    [][\A s \in Servers : Current(s) /\ ~Current(s)' =>
           WrittenElsewhere(s) \/ Refilled(s) \/ Outdated(s)]_vars
=============================================================================
