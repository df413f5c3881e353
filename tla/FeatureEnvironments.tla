------------------------- MODULE FeatureEnvironments -------------------------
(***************************************************************************)
(* Which environments a feature toggle lives in, which strategies it has   *)
(* there, and where it is enabled: the tables features, feature_strategies,*)
(* feature_environments and project_environments, and every service        *)
(* handler that writes them.                                               *)
(*                                                                         *)
(* The server runs no transaction around a handler.  Each awaited SQL      *)
(* statement is atomic, and any other request, of this or of another       *)
(* server on the same database, may run between two statements.  So one    *)
(* action is one statement; a request in progress is a record that holds   *)
(* what the handler's local variables remember and, in `at', the statement *)
(* it runs next.                                                           *)
(***************************************************************************)
EXTENDS FiniteSets, Naturals

CONSTANTS
    Features,     \* names of feature toggles
    Projects,     \* project ids, all of which exist
    Envs,         \* names of the environments, all enabled
    StrategyIds,  \* bound: the uuids that createStrategy draws from
    Requests,     \* bound: as many requests are in progress at once
    DefaultEnv,   \* DEFAULT_ENV, the environment the legacy API works on
    Ops,          \* the operations that clients call
    None          \* null

(***************************************************************************)
(* "fail" is not an operation of the API: it lets a request stop between   *)
(* two statements (the database refuses one, or the process dies).         *)
(* "foreignEnv" lets deleteStrategy be called through the URL of another   *)
(* environment than the strategy's own.                                    *)
(***************************************************************************)
AllOps == {"createStrategy", "deleteStrategy", "updateEnabled", "toggle",
           "createFeature", "archive", "revive", "deleteFeature",
           "updateStale", "updateFeature", "changeProject",
           "addEnvironment", "removeEnvironment", "legacyUpdate",
           "foreignEnv", "fail"}

Steps == {"idle",
          "insertStrategy", "deleteStrategy", "countStrategies", "disable",
          "isEnabled", "hasEnvironment", "stillHasEnvironment",
          "readStrategies", "setEnabled",
          "insertFeature", "readProjectEnvs", "connectEnv", "deleteFeature",
          "writeRow", "removeAll", "checkContext",
          "featureEnvs", "targetEnvs", "getRow", "moveStrategies",
          "readFeatures", "connectFeatures", "disconnectFeatures",
          "disconnectProject"}

ASSUME ConstantsAssumption ==
    /\ DefaultEnv \in Envs
    /\ Ops \subseteq AllOps
    /\ None \notin Features \cup Projects \cup Envs \cup StrategyIds
    /\ IsFiniteSet(Envs)

VARIABLES
    project,      \* features.project, None where there is no row
    archived,     \* the features whose archived_at is set
    projectEnvs,  \* project_environments: pairs <<project, environment>>
    featureEnvs,  \* feature_environments: pairs <<feature, environment>>
    enabled,      \* the rows of feature_environments that are enabled
    strategies,   \* feature_strategies
    issued,       \* the uuids drawn so far
    req           \* the requests in progress

tables == <<project, archived, projectEnvs, featureEnvs, enabled, strategies, issued>>
vars == <<project, archived, projectEnvs, featureEnvs, enabled, strategies, issued, req>>

Strategy == [id : StrategyIds, feature : Features, env : Envs, project : Projects]

Fields == [op      : AllOps \cup {"none"},
           at      : Steps,
           feature : Features \cup {None},
           env     : Envs \cup {None},
           project : Projects \cup {None},
           flag    : BOOLEAN,  \* the enabled or archived value to write
           id      : StrategyIds \cup {None},
           rows    : SUBSET (Features \X Envs)]  \* rows read, or to be inserted

\* The steps at which a request holds a feature, an environment, a project.
FeatureSteps == Steps \ {"idle", "readFeatures", "connectFeatures",
                         "disconnectFeatures", "disconnectProject"}
EnvSteps == {"insertStrategy", "deleteStrategy", "countStrategies", "disable",
             "isEnabled", "hasEnvironment", "stillHasEnvironment",
             "readStrategies", "setEnabled", "removeAll", "checkContext",
             "readFeatures", "connectFeatures", "disconnectFeatures",
             "disconnectProject"}
ProjectSteps == {"insertStrategy", "removeAll", "checkContext", "insertFeature",
                 "readProjectEnvs", "connectEnv", "writeRow", "featureEnvs",
                 "targetEnvs", "getRow", "moveStrategies", "readFeatures",
                 "connectFeatures", "disconnectFeatures", "disconnectProject"}

Request == {q \in Fields :
    /\ q.at \in FeatureSteps => q.feature \in Features
    /\ q.at \in EnvSteps \/ q.op = "legacyUpdate" => q.env \in Envs
    /\ q.at \in ProjectSteps \/ q.op = "legacyUpdate" => q.project \in Projects
    /\ q.at \in {"insertStrategy", "checkContext"} => q.id \in StrategyIds
    /\ q.at = "connectEnv" => q.rows \subseteq {q.feature} \X Envs}

Idle == [op |-> "none", at |-> "idle", feature |-> None, env |-> None,
         project |-> None, flag |-> FALSE, id |-> None, rows |-> {}]

Exists(f) == project[f] # None

EnvsOfProject(p) == {e \in Envs : <<p, e>> \in projectEnvs}

EnvsOfFeature(f) == {e \in Envs : <<f, e>> \in featureEnvs}

FeaturesOf(p) == {f \in Features : project[f] = p}

StrategiesIn(f, e) == {s \in strategies : s.feature = f /\ s.env = e}

(***************************************************************************)
(* Control of a request: it begins, goes on to its next statement, or ends *)
(* (by its last statement or by an exception, which the caller sees as an  *)
(* error and which undoes nothing).                                        *)
(***************************************************************************)
Begin(r, op, step, f, e, p, flag, id) ==
    /\ op \in Ops
    /\ req[r] = Idle
    /\ req' = [req EXCEPT ![r] =
                 [op |-> op, at |-> step, feature |-> f, env |-> e, project |-> p,
                  flag |-> flag, id |-> id, rows |-> {}]]

At(r, step) == req[r].at = step

Goto(r, step) == req' = [req EXCEPT ![r].at = step]

Finish(r) == req' = [req EXCEPT ![r] = Idle]

-----------------------------------------------------------------------------
(* createStrategy: the context check, then the insert.  Its foreign keys   *)
(* refer to features and environments, not to project_environments.        *)

CreateStrategy(r) ==
    \E f \in Features, e \in Envs, id \in StrategyIds \ issued :
        /\ Exists(f)
        /\ Begin(r, "createStrategy", "insertStrategy", f, e, project[f], FALSE, id)
        /\ issued' = issued \cup {id}
        /\ UNCHANGED <<project, archived, projectEnvs, featureEnvs, enabled, strategies>>

\* legacyUpdate goes on to enable or disable the default environment.
AfterInsert(r) ==
    IF req[r].op = "legacyUpdate" THEN Goto(r, "hasEnvironment") ELSE Finish(r)

InsertStrategy(r) ==
    /\ At(r, "insertStrategy")
    /\ \/ /\ Exists(req[r].feature)
          /\ strategies' = strategies \cup
                 {[id |-> req[r].id, feature |-> req[r].feature,
                   env |-> req[r].env, project |-> req[r].project]}
          /\ AfterInsert(r)
       \/ /\ ~Exists(req[r].feature)
          /\ Finish(r)
          /\ UNCHANGED strategies
    /\ UNCHANGED <<project, archived, projectEnvs, featureEnvs, enabled, issued>>

-----------------------------------------------------------------------------
(* deleteStrategy: read the strategy and compare it with the feature and   *)
(* the project of the URL (the environment is not compared), delete it,    *)
(* and disable the URL's environment if no strategy is left in it.         *)

UrlEnvs(s) == IF "foreignEnv" \in Ops THEN Envs ELSE {s.env}

DeleteStrategy(r) ==
    \E s \in strategies : \E e \in UrlEnvs(s) :
        /\ Begin(r, "deleteStrategy", "deleteStrategy", s.feature, e, None, FALSE, s.id)
        /\ UNCHANGED tables

DeleteStrategyRow(r) ==
    /\ At(r, "deleteStrategy")
    /\ strategies' = {s \in strategies : s.id # req[r].id}
    /\ Goto(r, "countStrategies")
    /\ UNCHANGED <<project, archived, projectEnvs, featureEnvs, enabled, issued>>

\* Mutant: the EXISTS query forgets the environment.
NoStrategiesLeftAnywhere(r) == \A s \in strategies : s.feature # req[r].feature

NoStrategiesLeft(r) == StrategiesIn(req[r].feature, req[r].env) = {}

CountStrategies(r) ==
    /\ At(r, "countStrategies")
    /\ IF NoStrategiesLeft(r)
       THEN Goto(r, "disable")
       ELSE Finish(r)
    /\ UNCHANGED tables

DisableEnvironment(r) ==
    /\ At(r, "disable")
    /\ enabled' = enabled \ {<<req[r].feature, req[r].env>>}
    /\ Finish(r)
    /\ UNCHANGED <<project, archived, projectEnvs, featureEnvs, strategies, issued>>

-----------------------------------------------------------------------------
(* updateEnabled: the environment must be the feature's; to be enabled it  *)
(* must have strategies.  The update itself checks neither again.          *)

AfterHasEnvironment(flag) == IF flag THEN "stillHasEnvironment" ELSE "setEnabled"

UpdateEnabled(r) ==
    \E f \in Features, e \in Envs, p \in Projects, flag \in BOOLEAN :
        /\ <<f, e>> \in featureEnvs
        /\ Begin(r, "updateEnabled", AfterHasEnvironment(flag), f, e, p, flag, None)
        /\ UNCHANGED tables

Toggle(r) ==
    \E f \in Features, p \in Projects :
        /\ Exists(f)
        /\ Begin(r, "toggle", "isEnabled", f, DefaultEnv, p, FALSE, None)
        /\ UNCHANGED tables

IsEnvironmentEnabled(r) ==
    /\ At(r, "isEnabled")
    /\ LET row == <<req[r].feature, req[r].env>> IN
       IF row \in featureEnvs
       THEN req' = [req EXCEPT ![r].at = "hasEnvironment", ![r].flag = row \notin enabled]
       ELSE Finish(r)
    /\ UNCHANGED tables

FeatureHasEnvironment(r) ==
    /\ At(r, "hasEnvironment")
    /\ IF <<req[r].feature, req[r].env>> \in featureEnvs
       THEN Goto(r, AfterHasEnvironment(req[r].flag))
       ELSE Finish(r)
    /\ UNCHANGED tables

\* getStrategiesForEnvironment asks again for the environment.
StillHasEnvironment(r) ==
    /\ At(r, "stillHasEnvironment")
    /\ IF <<req[r].feature, req[r].env>> \in featureEnvs
       THEN Goto(r, "readStrategies")
       ELSE Finish(r)
    /\ UNCHANGED tables

\* Mutant: the strategies are not looked at.
MayEnableUnchecked(r) == TRUE

\* The query filters by the project of the URL as well.
MayEnable(r) ==
    \E s \in StrategiesIn(req[r].feature, req[r].env) : s.project = req[r].project

ReadStrategies(r) ==
    /\ At(r, "readStrategies")
    /\ IF MayEnable(r) THEN Goto(r, "setEnabled") ELSE Finish(r)
    /\ UNCHANGED tables

SetEnvironmentEnabledStatus(r) ==
    /\ At(r, "setEnabled")
    /\ LET row == {<<req[r].feature, req[r].env>>} \cap featureEnvs IN
       enabled' = IF req[r].flag THEN enabled \cup row ELSE enabled \ row
    /\ Finish(r)
    /\ UNCHANGED <<project, archived, projectEnvs, featureEnvs, strategies, issued>>

-----------------------------------------------------------------------------
(* createFeatureToggle: the name is free, insert the row (an error of the  *)
(* insert is logged and swallowed), connect the feature to each            *)
(* environment the project has.                                            *)

CreateFeature(r) ==
    \E f \in Features, p \in Projects :
        /\ ~Exists(f)
        /\ Begin(r, "createFeature", "insertFeature", f, None, p, FALSE, None)
        /\ UNCHANGED tables

InsertFeature(r) ==
    /\ At(r, "insertFeature")
    /\ project' = IF Exists(req[r].feature) THEN project
                  ELSE [project EXCEPT ![req[r].feature] = req[r].project]
    /\ Goto(r, "readProjectEnvs")
    /\ UNCHANGED <<archived, projectEnvs, featureEnvs, enabled, strategies, issued>>

ReadProjectEnvs(r) ==
    /\ At(r, "readProjectEnvs")
    /\ req' = [req EXCEPT ![r].at = "connectEnv",
                          ![r].rows = {req[r].feature} \X EnvsOfProject(req[r].project)]
    /\ UNCHANGED tables

\* The inserts run in parallel, in any order; one that conflicts is ignored,
\* one whose feature is gone breaks its foreign key and does not stop the rest.
ConnectEnv(r) ==
    /\ At(r, "connectEnv")
    /\ \/ /\ req[r].rows = {}
          /\ Finish(r)
          /\ UNCHANGED featureEnvs
       \/ \E row \in req[r].rows :
             /\ featureEnvs' = IF Exists(req[r].feature) THEN featureEnvs \cup {row}
                               ELSE featureEnvs
             /\ req' = [req EXCEPT ![r].rows = @ \ {row}]
    /\ UNCHANGED <<project, archived, projectEnvs, enabled, strategies, issued>>

-----------------------------------------------------------------------------
(* archiveToggle and reviveToggle: one update each.                        *)

Archive(r) ==
    \E f \in Features :
        /\ "archive" \in Ops
        /\ req[r] = Idle
        /\ Exists(f)
        /\ archived' = archived \cup {f}
        /\ UNCHANGED <<project, projectEnvs, featureEnvs, enabled, strategies, issued, req>>

Revive(r) ==
    \E f \in Features :
        /\ "revive" \in Ops
        /\ req[r] = Idle
        /\ Exists(f)
        /\ archived' = archived \ {f}
        /\ UNCHANGED <<project, projectEnvs, featureEnvs, enabled, strategies, issued, req>>

(* deleteFeature: the delete only takes an archived row; the foreign keys  *)
(* of feature_environments and feature_strategies cascade.                 *)

DeleteFeature(r) ==
    \E f \in Features :
        /\ Exists(f)
        /\ Begin(r, "deleteFeature", "deleteFeature", f, None, None, FALSE, None)
        /\ UNCHANGED tables

CascadedStrategies(f) == {s \in strategies : s.feature # f}

DeleteFeatureRow(r) ==
    LET f == req[r].feature IN
    /\ At(r, "deleteFeature")
    /\ IF f \in archived
       THEN /\ project' = [project EXCEPT ![f] = None]
            /\ archived' = archived \ {f}
            /\ featureEnvs' = {row \in featureEnvs : row[1] # f}
            /\ enabled' = {row \in enabled : row[1] # f}
            /\ strategies' = CascadedStrategies(f)
       ELSE UNCHANGED <<project, archived, featureEnvs, enabled, strategies>>
    /\ Finish(r)
    /\ UNCHANGED <<projectEnvs, issued>>

-----------------------------------------------------------------------------
(* Handlers that write a whole row of features from what they read before. *)

\* updateStale: project and archived_at are written back as they were read.
UpdateStale(r) ==
    \E f \in Features :
        /\ Exists(f)
        /\ Begin(r, "updateStale", "writeRow", f, None, project[f], (f \in archived), None)
        /\ UNCHANGED tables

\* updateFeatureToggle, behind PUT and PATCH: the project is the URL's and
\* was compared with the row; archived comes with the body (a PATCH starts
\* from the row, a PUT that does not mention it means false).
UpdateFeature(r) ==
    \E f \in Features, flag \in BOOLEAN :
        /\ Exists(f)
        /\ Begin(r, "updateFeature", "writeRow", f, None, project[f], flag, None)
        /\ UNCHANGED tables

\* The legacy PUT /api/admin/features/:name replaces the strategies of the
\* default environment too: by none, or by one that the body names.
LegacyUpdate(r) ==
    \E f \in Features, flag \in BOOLEAN, id \in (StrategyIds \ issued) \cup {None} :
        /\ Exists(f)
        /\ Begin(r, "legacyUpdate", "writeRow", f, DefaultEnv, project[f], flag, id)
        /\ issued' = issued \cup ({id} \ {None})
        /\ UNCHANGED <<project, archived, projectEnvs, featureEnvs, enabled, strategies>>

AfterWriteRow(r) ==
    CASE req[r].op = "changeProject" -> Goto(r, "moveStrategies")
      [] req[r].op = "legacyUpdate"  -> Goto(r, "removeAll")
      [] OTHER                       -> Finish(r)

\* The legacy body's `enabled' is not `archived', which defaults to false.
ArchivedToWrite(r) == req[r].flag /\ req[r].op # "legacyUpdate"

WriteRow(r) ==
    LET f == req[r].feature IN
    /\ At(r, "writeRow")
    /\ \/ /\ Exists(f)
          /\ project' = [project EXCEPT ![f] = req[r].project]
          /\ archived' = IF ArchivedToWrite(r) THEN archived \cup {f} ELSE archived \ {f}
          /\ AfterWriteRow(r)
       \/ /\ ~Exists(f)
          /\ Finish(r)
          /\ UNCHANGED <<project, archived>>
    /\ UNCHANGED <<projectEnvs, featureEnvs, enabled, strategies, issued>>

Replaced(r) == StrategiesIn(req[r].feature, req[r].env)

RemoveAllStrategies(r) ==
    /\ At(r, "removeAll")
    /\ strategies' = strategies \ Replaced(r)
    /\ Goto(r, IF req[r].id # None THEN "checkContext" ELSE "hasEnvironment")
    /\ UNCHANGED <<project, archived, projectEnvs, featureEnvs, enabled, issued>>

CheckContext(r) ==
    /\ At(r, "checkContext")
    /\ IF project[req[r].feature] = req[r].project
       THEN Goto(r, "insertStrategy")
       ELSE Finish(r)
    /\ UNCHANGED tables

-----------------------------------------------------------------------------
(* changeProject: the feature must have the same environments as the       *)
(* target project; the row moves first, its strategies in a later update.  *)

ChangeProject(r) ==
    \E f \in Features, p \in Projects :
        /\ Exists(f)
        /\ Begin(r, "changeProject", "featureEnvs", f, None, p, FALSE, None)
        /\ UNCHANGED tables

ReadFeatureEnvs(r) ==
    /\ At(r, "featureEnvs")
    /\ req' = [req EXCEPT ![r].at = "targetEnvs",
                   ![r].rows = {req[r].feature} \X EnvsOfFeature(req[r].feature)]
    /\ UNCHANGED tables

\* Mutant: environments that only the target project has are overlooked.
TargetHasEnvs(r) ==
    req[r].rows \subseteq {req[r].feature} \X EnvsOfProject(req[r].project)

CheckProjectsCompatibility(r) ==
    req[r].rows = {req[r].feature} \X EnvsOfProject(req[r].project)

CompareEnvs(r) ==
    /\ At(r, "targetEnvs")
    /\ IF CheckProjectsCompatibility(r) THEN Goto(r, "getRow") ELSE Finish(r)
    /\ UNCHANGED tables

GetRow(r) ==
    /\ At(r, "getRow")
    /\ IF Exists(req[r].feature)
       THEN req' = [req EXCEPT ![r].at = "writeRow", ![r].rows = {},
                               ![r].flag = req[r].feature \in archived]
       ELSE Finish(r)
    /\ UNCHANGED tables

\* Mutant: the strategies keep their old project.
NotMoved(s, f, p) == s

Moved(s, f, p) == IF s.feature = f THEN [s EXCEPT !.project = p] ELSE s

MoveStrategies(r) ==
    /\ At(r, "moveStrategies")
    /\ strategies' = {Moved(s, req[r].feature, req[r].project) : s \in strategies}
    /\ Finish(r)
    /\ UNCHANGED <<project, archived, projectEnvs, featureEnvs, enabled, issued>>

-----------------------------------------------------------------------------
(* addEnvironmentToProject and removeEnvironmentFromProject.               *)

AddEnvironment(r) ==
    \E e \in Envs, p \in Projects :
        /\ <<p, e>> \notin projectEnvs
        /\ projectEnvs' = projectEnvs \cup {<<p, e>>}
        /\ Begin(r, "addEnvironment", "readFeatures", None, e, p, FALSE, None)
        /\ UNCHANGED <<project, archived, featureEnvs, enabled, strategies, issued>>

ReadFeatures(r) ==
    /\ At(r, "readFeatures")
    /\ req' = [req EXCEPT ![r].at = "connectFeatures",
                          ![r].rows = FeaturesOf(req[r].project) \X {req[r].env}]
    /\ UNCHANGED tables

\* Mutant: the rows are inserted though a feature is gone.
ForeignKeysIgnored(rows) == TRUE

ForeignKeysHold(rows) == \A row \in rows : Exists(row[1])

\* One insert for all rows: if one of the features is gone it inserts none.
ConnectFeatures(r) ==
    /\ At(r, "connectFeatures")
    /\ featureEnvs' = IF ForeignKeysHold(req[r].rows)
                      THEN featureEnvs \cup req[r].rows
                      ELSE featureEnvs
    /\ Finish(r)
    /\ UNCHANGED <<project, archived, projectEnvs, enabled, strategies, issued>>

\* Mutant: the last environment is not protected.
HasEnvs(p) == Cardinality(EnvsOfProject(p)) >= 1

HasOtherEnvs(p) == Cardinality(EnvsOfProject(p)) > 1

RemoveEnvironment(r) ==
    \E e \in Envs, p \in Projects :
        /\ HasOtherEnvs(p)
        /\ Begin(r, "removeEnvironment", "disconnectFeatures", None, e, p, FALSE, None)
        /\ UNCHANGED tables

\* The strategies stay: the second query of disconnectFeatures only selects.
DisconnectFeatures(r) ==
    LET rows == FeaturesOf(req[r].project) \X {req[r].env} IN
    /\ At(r, "disconnectFeatures")
    /\ featureEnvs' = featureEnvs \ rows
    /\ enabled' = enabled \ rows
    /\ Goto(r, "disconnectProject")
    /\ UNCHANGED <<project, archived, projectEnvs, strategies, issued>>

DisconnectProject(r) ==
    /\ At(r, "disconnectProject")
    /\ projectEnvs' = projectEnvs \ {<<req[r].project, req[r].env>>}
    /\ Finish(r)
    /\ UNCHANGED <<project, archived, featureEnvs, enabled, strategies, issued>>

-----------------------------------------------------------------------------
Fail(r) ==
    /\ "fail" \in Ops
    /\ ~At(r, "idle")
    /\ Finish(r)
    /\ UNCHANGED tables

\* Every project is linked to some environments (createProject links it to
\* all that are enabled), and the features that exist are in those.
Init ==
    /\ projectEnvs = Projects \X Envs
    /\ project \in [Features -> Projects \cup {None}]
    /\ archived = {}
    /\ featureEnvs = {f \in Features : Exists(f)} \X Envs
    /\ enabled = {}
    /\ strategies = {}
    /\ issued = {}
    /\ req = [r \in Requests |-> Idle]

Call(r) ==
    \/ CreateStrategy(r)
    \/ DeleteStrategy(r)
    \/ UpdateEnabled(r)
    \/ Toggle(r)
    \/ CreateFeature(r)
    \/ Archive(r)
    \/ Revive(r)
    \/ DeleteFeature(r)
    \/ UpdateStale(r)
    \/ UpdateFeature(r)
    \/ LegacyUpdate(r)
    \/ ChangeProject(r)
    \/ AddEnvironment(r)
    \/ RemoveEnvironment(r)

Continue(r) ==
    \/ InsertStrategy(r)
    \/ DeleteStrategyRow(r)
    \/ CountStrategies(r)
    \/ DisableEnvironment(r)
    \/ IsEnvironmentEnabled(r)
    \/ FeatureHasEnvironment(r)
    \/ StillHasEnvironment(r)
    \/ ReadStrategies(r)
    \/ SetEnvironmentEnabledStatus(r)
    \/ InsertFeature(r)
    \/ ReadProjectEnvs(r)
    \/ ConnectEnv(r)
    \/ DeleteFeatureRow(r)
    \/ WriteRow(r)
    \/ RemoveAllStrategies(r)
    \/ CheckContext(r)
    \/ ReadFeatureEnvs(r)
    \/ CompareEnvs(r)
    \/ GetRow(r)
    \/ MoveStrategies(r)
    \/ ReadFeatures(r)
    \/ ConnectFeatures(r)
    \/ DisconnectFeatures(r)
    \/ DisconnectProject(r)

Next == \E r \in Requests : Call(r) \/ Continue(r) \/ Fail(r)

Spec == Init /\ [][Next]_vars

\* A request that was accepted runs to its end; nobody has to send one.
FairSpec == Spec /\ \A r \in Requests : WF_vars(Continue(r))
-----------------------------------------------------------------------------
(* Properties.                                                             *)

\* The columns have their types, and the foreign keys, primary keys and the
\* enabled column of the schema hold: a row of feature_environments or
\* feature_strategies belongs to a feature that exists, whatever requests
\* interleave (deleteFeature cascades, a late insert fails).
TypeOK ==
    /\ project \in [Features -> Projects \cup {None}]
    /\ archived \in SUBSET {f \in Features : Exists(f)}
    /\ projectEnvs \in SUBSET (Projects \X Envs)
    /\ featureEnvs \in SUBSET ({f \in Features : Exists(f)} \X Envs)
    /\ enabled \in SUBSET featureEnvs
    /\ strategies \in SUBSET Strategy
    /\ \A s \in strategies : Exists(s.feature)
    /\ issued \in SUBSET StrategyIds
    /\ req \in [Requests -> Request]

Quiescent == \A r \in Requests : req[r] = Idle

Uncovered(f, e) == <<f, e>> \in enabled /\ StrategiesIn(f, e) = {}

\* When no request is in progress, a feature is enabled only where it has a
\* strategy.  updateEnabled refuses to enable an environment without one and
\* deleteStrategy disables the environment it empties; clients evaluate an
\* enabled feature without strategies as on for everybody.
EnabledHasStrategies ==
    Quiescent => \A f \in Features, e \in Envs : ~Uncovered(f, e)

\* When no request is in progress, a feature lives in exactly the
\* environments of its project, as createFeatureToggle, addEnvironmentToProject,
\* removeEnvironmentFromProject and the compatibility check of changeProject
\* together maintain.
FeatureInProjectEnvs ==
    Quiescent => \A f \in Features :
        Exists(f) => EnvsOfFeature(f) = EnvsOfProject(project[f])

\* When no request is in progress, the project a strategy records is the one
\* its feature belongs to: changeProject moves both, and a strategy of another
\* project can be neither listed, changed nor deleted through the feature.
StrategyInFeatureProject ==
    Quiescent => \A s \in strategies : s.project = project[s.feature]

\* A project always has an environment: removeEnvironmentFromProject refuses
\* to remove the last one.
ProjectKeepsEnvironment == \A p \in Projects : EnvsOfProject(p) # {}

\* A deleteStrategy that has deleted its row and will still look whether the
\* environment must be disabled.
PendingDisable(f, e) ==
    \E r \in Requests : /\ req[r].at \in {"countStrategies", "disable"}
                        /\ req[r].feature = f
                        /\ req[r].env = e

\* An enabled environment has a strategy, or its disabling is on the way.
Guarded(f, e) == Uncovered(f, e) => PendingDisable(f, e)

StaleEnable(r, f, e) ==
    /\ At(r, "setEnabled")
    /\ req[r].flag
    /\ req[r].feature = f
    /\ req[r].env = e
    /\ StrategiesIn(f, e) = {}

ForeignDelete(r, f, e) ==
    /\ At(r, "deleteStrategy")
    /\ \E s \in StrategiesIn(f, e) : s.id = req[r].id /\ s.env # req[r].env

LegacyRemoval(r, f, e) == At(r, "removeAll") /\ req[r].feature = f /\ req[r].env = e

BrokenOff(r) == At(r, "countStrategies") \/ At(r, "disable")

\* However requests interleave, the guard of an enabled environment is lost in
\* four ways only: updateEnabled acts on a check that a deletion has outdated,
\* deleteStrategy is called through another environment's URL, the legacy
\* update removes all strategies, or a deleteStrategy breaks off half-way.
\* In particular concurrent deletions never leave an environment enabled.
GuardLostOnlyByRaces ==
    [][\A f \in Features, e \in Envs :
          Guarded(f, e) /\ ~Guarded(f, e)' =>
              \E r \in Requests :
                  \/ StaleEnable(r, f, e)
                  \/ ForeignDelete(r, f, e)
                  \/ LegacyRemoval(r, f, e)
                  \/ BrokenOff(r) /\ "fail" \in Ops]_vars

\* An environment that lost its last strategy while enabled is eventually
\* disabled or given a strategy: the request that deleted it goes on.
EmptiedIsDisabled ==
    \A f \in Features, e \in Envs : Uncovered(f, e) ~> ~Uncovered(f, e)
=============================================================================
