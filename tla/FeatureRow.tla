----------------------------- MODULE FeatureRow -----------------------------
(***************************************************************************)
(* The row of one feature toggle in the table features, and the handlers   *)
(* that write it.  Some of them write one column; some read the row, change *)
(* one field of what they read, and write every column back.               *)
(***************************************************************************)
EXTENDS Naturals

CONSTANTS
    Projects,
    Requests   \* bound: requests in progress at once

Nothing == "none"
Fields == {"project", "archived", "stale", "variants"}
NewRow(project) == [project |-> project, archived |-> FALSE, stale |-> FALSE, variants |-> FALSE]
NoRow == NewRow(Nothing)

VARIABLES
    feature,   \* the row of features, or NoRow
    req,       \* the requests in progress
    asked,     \* ghost: of each field not raced, the value asked for last
    raced      \* ghost: the fields that two overlapping requests have written

vars == <<feature, req, asked, raced>>

Idle == [kind |-> Nothing, at |-> "idle", project |-> Nothing, field |-> Nothing, value |-> FALSE, read |-> NoRow]

At(r, step) == req[r].at = step
Goto(r, step) == req' = [req EXCEPT ![r].at = step]
Finish(r) == req' = [req EXCEPT ![r] = Idle]

\* The kinds of requests that write a field on purpose, and those that write it
\* along with the field they are about.
Writers(f) ==
    CASE f = "project" -> {"project", "delete"}
      [] f = "archived" -> {"archive", "revive", "patch", "put", "delete"}
      [] f = "stale" -> {"stale", "patch", "put", "delete"}
      [] f = "variants" -> {"variants", "delete"}

CarriersOf(f) == {"stale", "patch", "project"} \cup (IF f = "project" THEN {"put"} ELSE {})

BothWrite(f, a, b) == \E w \in Writers(f), c \in CarriersOf(f) : {w, c} = {a, b}

Begin(r, rec) ==
    /\ req[r] = Idle
    /\ req' = [req EXCEPT ![r] = rec]
    /\ raced' = raced \cup {f \in Fields : \E q \in Requests : BothWrite(f, rec.kind, req[q].kind)}

\* The handler reads the row; it fails if there is none.
Reads(r, rec) ==
    /\ feature # NoRow
    /\ Begin(r, rec)
    /\ UNCHANGED <<feature, asked>>

\* Of a field that was raced nothing is known.
Asked(row, fields) ==
    asked' = [f \in Fields |-> IF f \in fields \cup raced THEN row[f] ELSE asked[f]]

\* An update of a row that is gone updates nothing; update, archive, revive and
\* saveVariants then throw, since there is no row to return.
Update(row, fields) ==
    IF feature = NoRow THEN UNCHANGED <<feature, asked>>
    ELSE feature' = row /\ Asked(row, fields)

-----------------------------------------------------------------------------
(* The columns that dtoToRow makes of a feature: all of them.  What is     *)
(* archived is archived anew, now.                                         *)

\* Mutant: the time of archiving is not taken from the feature.
DtoWithoutArchived(project, data) == [data EXCEPT !.project = project, !.archived = FALSE]

DtoToRow(project, data) == [data EXCEPT !.project = project]

-----------------------------------------------------------------------------
(* Requests that write the row as they have read it, but for one field.    *)

UpdateStale(r, isStale) ==
    Reads(r, [Idle EXCEPT !.kind = "stale", !.at = "update", !.field = "stale", !.value = isStale, !.read = feature])

\* A patch of stale or archived; every other path of a patch is a column that
\* no other request writes alone, and variants cannot be patched here.
PatchFeature(r, project, field, value) ==
    Reads(r, [Idle EXCEPT !.kind = "patch", !.at = "validate", !.project = project,
                          !.field = field, !.value = value, !.read = feature])

ChangeProject(r, newProject) ==
    Reads(r, [Idle EXCEPT !.kind = "project", !.at = "update", !.field = "project",
                          !.project = newProject, !.read = feature])

\* updateFeatureToggle and validateFeatureContext.
ValidateContext(r) ==
    /\ At(r, "validate")
    /\ IF feature.project = req[r].project THEN Goto(r, "update") ELSE Finish(r)
    /\ UNCHANGED <<feature, asked, raced>>

Written(r) ==
    LET q == req[r]
        project == IF q.kind = "stale" THEN q.read.project ELSE q.project
    IN  DtoToRow(project, IF q.kind = "project" THEN q.read ELSE [q.read EXCEPT ![q.field] = q.value])

UpdateRow(r) ==
    /\ At(r, "update")
    /\ Update(Written(r), {req[r].field})
    /\ Finish(r)
    /\ UNCHANGED raced

\* A PUT writes what the body leaves out as its default, so that it revives an
\* archived feature; variants that the body does not name are left alone.
UpdateFeature(r, project, stale, archived) ==
    /\ Begin(r, [Idle EXCEPT !.kind = "put", !.at = "validatePut", !.project = project,
                 !.read = [project |-> project, archived |-> archived, stale |-> stale, variants |-> FALSE]])
    /\ UNCHANGED <<feature, asked>>

ValidatePut(r) ==
    /\ At(r, "validatePut")
    /\ IF feature.project = req[r].project THEN Goto(r, "put") ELSE Finish(r)
    /\ UNCHANGED <<feature, asked, raced>>

Put(r) ==
    /\ At(r, "put")
    /\ Update([DtoToRow(req[r].project, req[r].read) EXCEPT !.variants = feature.variants],
              {"stale", "archived"})
    /\ Finish(r)
    /\ UNCHANGED raced

-----------------------------------------------------------------------------
(* Requests that write one column.                                         *)

ArchiveToggle(r) == Reads(r, [Idle EXCEPT !.kind = "archive", !.at = "archive"])

Archive(r) ==
    /\ At(r, "archive")
    /\ Update([feature EXCEPT !.archived = TRUE], {"archived"})
    /\ Finish(r)
    /\ UNCHANGED raced

ReviveToggle(r) ==
    /\ Begin(r, [Idle EXCEPT !.kind = "revive", !.at = "revive"])
    /\ UNCHANGED <<feature, asked>>

Revive(r) ==
    /\ At(r, "revive")
    /\ Update([feature EXCEPT !.archived = FALSE], {"archived"})
    /\ Finish(r)
    /\ UNCHANGED raced

\* saveVariants reads the old variants for its event only, and updateVariants
\* patches variants that it has read; the row must be of the project.
SaveVariants(r, project, variants) ==
    Reads(r, [Idle EXCEPT !.kind = "variants", !.at = "saveVariants", !.project = project, !.value = variants])

SaveVariantsRow(r) ==
    /\ At(r, "saveVariants")
    /\ IF feature.project # req[r].project THEN UNCHANGED <<feature, asked>>
       ELSE Update([feature EXCEPT !.variants = req[r].value], {"variants"})
    /\ Finish(r)
    /\ UNCHANGED raced

-----------------------------------------------------------------------------
(* Requests that insert and delete the row.                                *)

\* The primary key lets one of two inserts through.
CreateRow(project) ==
    /\ feature = NoRow
    /\ feature' = NewRow(project)
    /\ asked' = feature'
    /\ UNCHANGED <<req, raced>>

DeleteFeature(r) == Reads(r, [Idle EXCEPT !.kind = "delete", !.at = "delete"])

\* Mutant: the row is deleted whether it is archived or not.
AnyRow == TRUE

IsArchived == feature.archived

Delete(r) ==
    /\ At(r, "delete")
    /\ feature' = IF feature # NoRow /\ IsArchived THEN NoRow ELSE feature
    /\ Finish(r)
    /\ UNCHANGED <<asked, raced>>

-----------------------------------------------------------------------------
Init ==
    /\ feature = NoRow
    /\ req = [r \in Requests |-> Idle]
    /\ asked = NoRow
    /\ raced = {}

Call(r) ==
    \/ \E p \in Projects :
          \/ ChangeProject(r, p)
          \/ \E b \in BOOLEAN :
                \/ SaveVariants(r, p, b)
                \/ \E f \in {"stale", "archived"} : PatchFeature(r, p, f, b)
                \/ \E c \in BOOLEAN : UpdateFeature(r, p, b, c)
    \/ \E b \in BOOLEAN : UpdateStale(r, b)
    \/ ArchiveToggle(r) \/ ReviveToggle(r) \/ DeleteFeature(r)

Continue(r) ==
    \/ ValidateContext(r) \/ UpdateRow(r)
    \/ ValidatePut(r) \/ Put(r)
    \/ Archive(r) \/ Revive(r) \/ SaveVariantsRow(r) \/ Delete(r)

Next ==
    \/ \E p \in Projects : CreateRow(p)
    \/ \E r \in Requests : Call(r) \/ Continue(r)

Spec == Init /\ [][Next]_vars
-----------------------------------------------------------------------------
(* Properties.                                                             *)

\* Of every column the row holds what was asked for last, unless a request that
\* writes the row back as it read it has overlapped with one that writes that
\* column: only then is an archiving, a revival, a move, a mark as stale or a
\* change of the variants undone (or a row that was created anew overwritten).
LostOnlyByRaces ==
    feature # NoRow =>
        \A f \in Fields : feature[f] # asked[f] => f \in raced

\* A feature is deleted only if the last request about its archiving archived
\* it, unless a race has undone that.
DeletedWhenArchived ==
    [][feature # NoRow /\ feature' = NoRow =>
           asked.archived \/ "archived" \in raced]_vars
=============================================================================
