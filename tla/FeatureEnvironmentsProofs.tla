----------------------- MODULE FeatureEnvironmentsProofs -----------------------
(***************************************************************************)
(* Proofs about FeatureEnvironments, for any sets of features, projects,   *)
(* environments, strategy ids and requests.                                *)
(***************************************************************************)
EXTENDS FeatureEnvironments, FiniteSetTheorems, TLAPS

ReqType == req \in [Requests -> Request]

TablesOK ==
    /\ project \in [Features -> Projects \cup {None}]
    /\ archived \in SUBSET {f \in Features : Exists(f)}
    /\ projectEnvs \in SUBSET (Projects \X Envs)
    /\ featureEnvs \in SUBSET ({f \in Features : Exists(f)} \X Envs)
    /\ enabled \in SUBSET featureEnvs
    /\ strategies \in SUBSET Strategy
    /\ \A s \in strategies : Exists(s.feature)
    /\ issued \in SUBSET StrategyIds

LEMMA TypeOKSplit == TypeOK <=> TablesOK /\ ReqType
  BY DEF TypeOK, TablesOK, ReqType

LEMMA IdleType == Idle \in Request
  BY DEF Idle, Request, Fields, AllOps, Steps, FeatureSteps, EnvSteps, ProjectSteps

LEMMA FinishType ==
  ASSUME ReqType, NEW r \in Requests, Finish(r)
  PROVE  ReqType'
  BY IdleType DEF ReqType, Finish

LEMMA GotoType ==
  ASSUME ReqType, NEW r \in Requests, NEW step \in Steps, Goto(r, step),
         step \in FeatureSteps => req[r].feature \in Features,
         step \in EnvSteps => req[r].env \in Envs,
         step \in ProjectSteps => req[r].project \in Projects,
         step \in {"insertStrategy", "checkContext"} => req[r].id \in StrategyIds,
         step # "connectEnv"
  PROVE  ReqType'
  BY DEF ReqType, Goto, Request, Fields

LEMMA ProjectOfFeature ==
  ASSUME TypeOK, NEW f \in Features, Exists(f)
  PROVE  project[f] \in Projects
  BY DEF TypeOK, Exists

\* Every statement that begins a request fills the record with values of the
\* right type.
LEMMA CallType ==
  ASSUME TypeOK, NEW r \in Requests, Call(r)
  PROVE  ReqType'
  <1>0. ReqType
    BY TypeOKSplit
  <1> USE DEF AllOps, Steps, FeatureSteps, EnvSteps, ProjectSteps, Begin,
              Request, Fields, ReqType
  <1>1. CASE CreateStrategy(r)
    <2>1. PICK f \in Features, e \in Envs, id \in StrategyIds :
            /\ Exists(f)
            /\ Begin(r, "createStrategy", "insertStrategy", f, e, project[f], FALSE, id)
      BY <1>1 DEF CreateStrategy
    <2>2. QED
      BY <1>0, <2>1, ProjectOfFeature
  <1>2. CASE DeleteStrategy(r)
    <2>1. PICK s \in strategies : \E e \in UrlEnvs(s) :
            Begin(r, "deleteStrategy", "deleteStrategy", s.feature, e, None, FALSE, s.id)
      BY <1>2 DEF DeleteStrategy
    <2>2. s.feature \in Features /\ s.env \in Envs /\ s.id \in StrategyIds
      BY DEF TypeOK, Strategy
    <2>3. PICK e \in Envs :
            Begin(r, "deleteStrategy", "deleteStrategy", s.feature, e, None, FALSE, s.id)
      BY <2>1, <2>2 DEF UrlEnvs
    <2>4. QED
      BY <1>0, <2>2, <2>3
  <1>3. CASE UpdateEnabled(r)
    <2>1. PICK f \in Features, e \in Envs, p \in Projects, flag \in BOOLEAN :
            Begin(r, "updateEnabled", AfterHasEnvironment(flag), f, e, p, flag, None)
      BY <1>3 DEF UpdateEnabled
    <2>2. QED
      BY <1>0, <2>1 DEF AfterHasEnvironment
  <1>4. CASE Toggle(r)
    <2>1. PICK f \in Features, p \in Projects :
            Begin(r, "toggle", "isEnabled", f, DefaultEnv, p, FALSE, None)
      BY <1>4 DEF Toggle
    <2>2. QED
      BY <1>0, <2>1, ConstantsAssumption
  <1>5. CASE CreateFeature(r)
    <2>1. PICK f \in Features, p \in Projects :
            Begin(r, "createFeature", "insertFeature", f, None, p, FALSE, None)
      BY <1>5 DEF CreateFeature
    <2>2. QED
      BY <1>0, <2>1
  <1>6. CASE Archive(r)
    BY <1>0, <1>6 DEF Archive, ReqType
  <1>7. CASE Revive(r)
    BY <1>0, <1>7 DEF Revive, ReqType
  <1>8. CASE DeleteFeature(r)
    <2>1. PICK f \in Features :
            Begin(r, "deleteFeature", "deleteFeature", f, None, None, FALSE, None)
      BY <1>8 DEF DeleteFeature
    <2>2. QED
      BY <1>0, <2>1
  <1>9. CASE UpdateStale(r)
    <2>1. PICK f \in Features :
            /\ Exists(f)
            /\ Begin(r, "updateStale", "writeRow", f, None, project[f], (f \in archived), None)
      BY <1>9 DEF UpdateStale
    <2>2. (f \in archived) \in BOOLEAN
      OBVIOUS
    <2>3. QED
      BY <1>0, <2>1, <2>2, ProjectOfFeature
  <1>10. CASE UpdateFeature(r)
    <2>1. PICK f \in Features, flag \in BOOLEAN :
            /\ Exists(f)
            /\ Begin(r, "updateFeature", "writeRow", f, None, project[f], flag, None)
      BY <1>10 DEF UpdateFeature
    <2>2. QED
      BY <1>0, <2>1, ProjectOfFeature
  <1>11. CASE LegacyUpdate(r)
    <2>1. PICK f \in Features, flag \in BOOLEAN, id \in StrategyIds \cup {None} :
            /\ Exists(f)
            /\ Begin(r, "legacyUpdate", "writeRow", f, DefaultEnv, project[f], flag, id)
      BY <1>11 DEF LegacyUpdate
    <2>2. QED
      BY <1>0, <2>1, ProjectOfFeature, ConstantsAssumption
  <1>12. CASE ChangeProject(r)
    <2>1. PICK f \in Features, p \in Projects :
            Begin(r, "changeProject", "featureEnvs", f, None, p, FALSE, None)
      BY <1>12 DEF ChangeProject
    <2>2. QED
      BY <1>0, <2>1
  <1>13. CASE AddEnvironment(r)
    <2>1. PICK e \in Envs, p \in Projects :
            Begin(r, "addEnvironment", "readFeatures", None, e, p, FALSE, None)
      BY <1>13 DEF AddEnvironment
    <2>2. QED
      BY <1>0, <2>1
  <1>14. CASE RemoveEnvironment(r)
    <2>1. PICK e \in Envs, p \in Projects :
            Begin(r, "removeEnvironment", "disconnectFeatures", None, e, p, FALSE, None)
      BY <1>14 DEF RemoveEnvironment
    <2>2. QED
      BY <1>0, <2>1
  <1>15. QED
    BY <1>1, <1>2, <1>3, <1>4, <1>5, <1>6, <1>7, <1>8, <1>9, <1>10, <1>11,
       <1>12, <1>13, <1>14 DEF Call

\* So does every later statement.
LEMMA ContinueType ==
  ASSUME TypeOK, NEW r \in Requests, Continue(r)
  PROVE  ReqType'
  <1>0. ReqType /\ req[r] \in Request
    BY TypeOKSplit DEF ReqType
  <1> USE DEF Steps, FeatureSteps, EnvSteps, ProjectSteps, At, Request, Fields
  <1>1. CASE InsertStrategy(r)
    BY <1>0, <1>1, FinishType, GotoType DEF InsertStrategy, AfterInsert
  <1>2. CASE DeleteStrategyRow(r)
    BY <1>0, <1>2, FinishType, GotoType DEF DeleteStrategyRow
  <1>3. CASE CountStrategies(r)
    BY <1>0, <1>3, FinishType, GotoType DEF CountStrategies
  <1>4. CASE DisableEnvironment(r)
    BY <1>0, <1>4, FinishType DEF DisableEnvironment
  <1>5. CASE IsEnvironmentEnabled(r)
    BY <1>0, <1>5, FinishType DEF IsEnvironmentEnabled, ReqType
  <1>6. CASE FeatureHasEnvironment(r)
    BY <1>0, <1>6, FinishType, GotoType DEF FeatureHasEnvironment, AfterHasEnvironment
  <1>7. CASE StillHasEnvironment(r) \/ ReadStrategies(r)
    BY <1>0, <1>7, FinishType, GotoType DEF StillHasEnvironment, ReadStrategies
  <1>8. CASE SetEnvironmentEnabledStatus(r)
    BY <1>0, <1>8, FinishType DEF SetEnvironmentEnabledStatus
  <1>9. CASE InsertFeature(r)
    BY <1>0, <1>9, FinishType, GotoType DEF InsertFeature
  <1>10. CASE ReadProjectEnvs(r)
    <2>1. PICK rows \in SUBSET (Features \X Envs) :
            /\ rows \subseteq {req[r].feature} \X Envs
            /\ req' = [req EXCEPT ![r].at = "connectEnv", ![r].rows = rows]
      BY <1>0, <1>10 DEF ReadProjectEnvs, EnvsOfProject
    <2> DEFINE q == [req[r] EXCEPT !.at = "connectEnv", !.rows = rows]
    <2>2. /\ q \in Fields
          /\ q.at = "connectEnv" /\ q.rows = rows
          /\ q.feature = req[r].feature /\ q.project = req[r].project
          /\ q.op = req[r].op /\ q.env = req[r].env
      BY <1>0, <2>1
    <2>3. req[r].feature \in Features /\ req[r].project \in Projects
      BY <1>0, <1>10 DEF ReadProjectEnvs
    <2>4. q \in Request
      <3> HIDE DEF q, Fields
      <3> QED
        BY <1>0, <2>1, <2>2, <2>3
    <2>5. req' = [req EXCEPT ![r] = q]
      BY <1>0, <2>1 DEF ReqType
    <2>6. QED
      BY <1>0, <2>4, <2>5 DEF ReqType
  <1>11. CASE ConnectEnv(r)
    BY <1>0, <1>11, FinishType DEF ConnectEnv, ReqType
  <1>12. CASE DeleteFeatureRow(r)
    BY <1>0, <1>12, FinishType DEF DeleteFeatureRow
  <1>13. CASE WriteRow(r)
    BY <1>0, <1>13, FinishType, GotoType DEF WriteRow, AfterWriteRow
  <1>14. CASE RemoveAllStrategies(r)
    BY <1>0, <1>14, FinishType, GotoType DEF RemoveAllStrategies, Goto, ReqType
  <1>15. CASE CheckContext(r)
    BY <1>0, <1>15, FinishType, GotoType DEF CheckContext
  <1>16. CASE ReadFeatureEnvs(r)
    <2>1. /\ {req[r].feature} \X EnvsOfFeature(req[r].feature) \in SUBSET (Features \X Envs)
      BY <1>0, <1>16 DEF ReadFeatureEnvs, EnvsOfFeature
    <2>2. QED
      BY <1>0, <1>16, <2>1 DEF ReadFeatureEnvs, ReqType
  <1>17. CASE CompareEnvs(r)
    BY <1>0, <1>17, FinishType, GotoType DEF CompareEnvs
  <1>18. CASE GetRow(r)
    BY <1>0, <1>18, FinishType DEF GetRow, ReqType
  <1>19. CASE MoveStrategies(r)
    BY <1>0, <1>19, FinishType DEF MoveStrategies
  <1>20. CASE ReadFeatures(r)
    <2>1. /\ FeaturesOf(req[r].project) \X {req[r].env} \in SUBSET (Features \X Envs)
      BY <1>0, <1>20 DEF ReadFeatures, FeaturesOf
    <2>2. QED
      BY <1>0, <1>20, <2>1 DEF ReadFeatures, ReqType
  <1>21. CASE ConnectFeatures(r)
    BY <1>0, <1>21, FinishType DEF ConnectFeatures
  <1>22. CASE DisconnectFeatures(r)
    BY <1>0, <1>22, FinishType, GotoType DEF DisconnectFeatures
  <1>23. CASE DisconnectProject(r)
    BY <1>0, <1>23, FinishType DEF DisconnectProject
  <1>24. QED
    BY <1>1, <1>2, <1>3, <1>4, <1>5, <1>6, <1>7, <1>8, <1>9, <1>10, <1>11,
       <1>12, <1>13, <1>14, <1>15, <1>16, <1>17, <1>18, <1>19, <1>20, <1>21,
       <1>22, <1>23 DEF Continue

\* Only these actions write a table.
Writes(r) ==
    \/ CreateStrategy(r) \/ LegacyUpdate(r) \/ Archive(r) \/ Revive(r)
    \/ AddEnvironment(r) \/ InsertStrategy(r) \/ DeleteStrategyRow(r)
    \/ DisableEnvironment(r) \/ SetEnvironmentEnabledStatus(r)
    \/ InsertFeature(r) \/ ConnectEnv(r) \/ DeleteFeatureRow(r) \/ WriteRow(r)
    \/ RemoveAllStrategies(r) \/ MoveStrategies(r) \/ ConnectFeatures(r)
    \/ DisconnectFeatures(r) \/ DisconnectProject(r)

LEMMA WritesOrNot ==
  ASSUME NEW r \in Requests, Call(r) \/ Continue(r) \/ Fail(r)
  PROVE  Writes(r) \/ UNCHANGED tables
  BY DEF Call, Continue, Fail, Writes, DeleteStrategy, UpdateEnabled, Toggle,
         CreateFeature, DeleteFeature, UpdateStale, UpdateFeature, ChangeProject,
         RemoveEnvironment, CountStrategies, IsEnvironmentEnabled,
         FeatureHasEnvironment, StillHasEnvironment, ReadStrategies,
         ReadProjectEnvs, CheckContext, ReadFeatureEnvs, CompareEnvs, GetRow, ReadFeatures

LEMMA WritesType ==
  ASSUME TypeOK, NEW r \in Requests, Writes(r)
  PROVE  TablesOK'
  <1>0. TablesOK /\ req[r] \in Request
    BY TypeOKSplit DEF ReqType
  <1> USE ConstantsAssumption DEF TablesOK, Exists, At, Request, Fields, Strategy,
              FeatureSteps, EnvSteps, ProjectSteps, Steps
  <1>1. CASE CreateStrategy(r)
    BY <1>0, <1>1 DEF CreateStrategy
  <1>2. CASE LegacyUpdate(r)
    BY <1>0, <1>2 DEF LegacyUpdate
  <1>3. CASE Archive(r)
    BY <1>0, <1>3 DEF Archive
  <1>4. CASE Revive(r)
    BY <1>0, <1>4 DEF Revive
  <1>5. CASE AddEnvironment(r)
    BY <1>0, <1>5 DEF AddEnvironment
  <1>6. CASE InsertStrategy(r)
    BY <1>0, <1>6 DEF InsertStrategy
  <1>7. CASE DeleteStrategyRow(r)
    BY <1>0, <1>7 DEF DeleteStrategyRow
  <1>8. CASE DisableEnvironment(r)
    BY <1>0, <1>8 DEF DisableEnvironment
  <1>9. CASE SetEnvironmentEnabledStatus(r)
    BY <1>0, <1>9 DEF SetEnvironmentEnabledStatus
  <1>10. CASE InsertFeature(r)
    BY <1>0, <1>10 DEF InsertFeature
  <1>11. CASE ConnectEnv(r)
    BY <1>0, <1>11 DEF ConnectEnv
  <1>12. CASE DeleteFeatureRow(r)
    BY <1>0, <1>12 DEF DeleteFeatureRow, CascadedStrategies
  <1>13. CASE WriteRow(r)
    BY <1>0, <1>13 DEF WriteRow, ArchivedToWrite
  <1>14. CASE RemoveAllStrategies(r)
    BY <1>0, <1>14 DEF RemoveAllStrategies, Replaced, StrategiesIn
  <1>15. CASE MoveStrategies(r)
    BY <1>0, <1>15 DEF MoveStrategies, Moved
  <1>16. CASE ConnectFeatures(r)
    BY <1>0, <1>16 DEF ConnectFeatures, ForeignKeysHold
  <1>17. CASE DisconnectFeatures(r)
    BY <1>0, <1>17 DEF DisconnectFeatures, FeaturesOf
  <1>18. CASE DisconnectProject(r)
    BY <1>0, <1>18 DEF DisconnectProject
  <1>19. QED
    BY <1>1, <1>2, <1>3, <1>4, <1>5, <1>6, <1>7, <1>8, <1>9, <1>10, <1>11,
       <1>12, <1>13, <1>14, <1>15, <1>16, <1>17, <1>18 DEF Writes

LEMMA TypeStep == TypeOK /\ [Next]_vars => TypeOK'
  <1> SUFFICES ASSUME TypeOK, [Next]_vars PROVE TypeOK'
    OBVIOUS
  <1>1. CASE UNCHANGED vars
    BY <1>1 DEF vars, TypeOK, Exists, Strategy
  <1>2. ASSUME NEW r \in Requests, Call(r) \/ Continue(r) \/ Fail(r)
        PROVE  TypeOK'
    <2>1. ReqType'
      <3>1. CASE Fail(r)
        BY <3>1, FinishType, TypeOKSplit DEF Fail
      <3>2. QED
        BY <1>2, <3>1, CallType, ContinueType
    <2>2. TablesOK'
      <3>1. CASE Writes(r)
        BY <3>1, WritesType
      <3>2. CASE UNCHANGED tables
        BY <3>2, TypeOKSplit DEF tables, TablesOK, Exists
      <3>3. QED
        BY <1>2, <3>1, <3>2, WritesOrNot
    <2>3. QED
      BY <2>1, <2>2 DEF TypeOK, TablesOK, ReqType
  <1>3. QED
    BY <1>1, <1>2 DEF Next

LEMMA InitType == Init => TypeOK
  BY IdleType DEF Init, TypeOK, Exists

\* The tables keep their foreign keys and every request in progress holds the
\* names its next statement needs, whatever requests interleave or break off.
THEOREM TypeCorrect == Spec => []TypeOK
  BY InitType, TypeStep, PTL DEF Spec

-----------------------------------------------------------------------------
(* The ids of strategies: no two strategies share one, and an id that a     *)
(* request has drawn but not inserted is known to that request only.        *)

InsertSteps == {"insertStrategy", "writeRow", "removeAll", "checkContext"}

InsertPending(r) == req[r].id # None /\ req[r].at \in InsertSteps

SameRow(s, t) == s.id = t.id /\ s.feature = t.feature /\ s.env = t.env

FreshIds ==
    /\ \A s \in strategies : s.id \in issued
    /\ \A s, t \in strategies : s.id = t.id => SameRow(s, t)
    /\ \A r \in Requests :
          /\ req[r].id \in issued \cup {None}
          /\ req[r].at \in {"featureEnvs", "targetEnvs", "getRow"} => req[r].id = None
          /\ At(r, "deleteStrategy") =>
                \A s \in strategies : s.id = req[r].id => s.feature = req[r].feature
          /\ InsertPending(r) =>
                /\ \A s \in strategies : s.id # req[r].id
                /\ \A q \in Requests \ {r} : req[q].id # req[r].id

LEMMA OthersKeep ==
  ASSUME TypeOK, NEW r \in Requests, Call(r) \/ Continue(r) \/ Fail(r),
         NEW q \in Requests \ {r}
  PROVE  req'[q] = req[q]
  <1>1. req \in [Requests -> Request]
    BY DEF TypeOK
  <1>2. CASE Call(r)
    BY <1>1, <1>2 DEF Call, Begin, CreateStrategy, DeleteStrategy, UpdateEnabled,
       Toggle, CreateFeature, Archive, Revive, DeleteFeature, UpdateStale,
       UpdateFeature, LegacyUpdate, ChangeProject, AddEnvironment, RemoveEnvironment
  <1>3. CASE Continue(r)
    BY <1>1, <1>3 DEF Continue, Finish, Goto, InsertStrategy, AfterInsert,
       DeleteStrategyRow, CountStrategies, DisableEnvironment,
       IsEnvironmentEnabled, FeatureHasEnvironment, StillHasEnvironment,
       ReadStrategies, SetEnvironmentEnabledStatus, InsertFeature, ReadProjectEnvs, ConnectEnv,
       DeleteFeatureRow, WriteRow, AfterWriteRow, RemoveAllStrategies,
       CheckContext, ReadFeatureEnvs, CompareEnvs, GetRow, MoveStrategies,
       ReadFeatures, ConnectFeatures, DisconnectFeatures, DisconnectProject
  <1>4. CASE Fail(r)
    BY <1>1, <1>4 DEF Fail, Finish
  <1>5. QED
    BY <1>2, <1>3, <1>4

\* A later statement keeps what the request holds, or ends the request.
LEMMA ContinueShape ==
  ASSUME TypeOK, NEW r \in Requests, Continue(r) \/ Fail(r)
  PROVE  \/ req'[r] = Idle
         \/ /\ req'[r].id = req[r].id
            /\ req'[r].feature = req[r].feature
            /\ req'[r].env = req[r].env
            /\ req'[r].op = req[r].op
            /\ req'[r].at \in InsertSteps =>
                  req[r].at \in {"getRow", "writeRow", "removeAll", "checkContext"}
            /\ req'[r].at \notin {"deleteStrategy", "featureEnvs"}
            /\ req'[r].at \in {"targetEnvs", "getRow"} =>
                  req[r].at \in {"featureEnvs", "targetEnvs"}
  <1>1. req \in [Requests -> Request] /\ req[r] \in Fields
    BY DEF TypeOK, Request
  <1> USE DEF Fields, At, Goto, Finish, InsertSteps
  <1>2. CASE Fail(r)
    BY <1>1, <1>2 DEF Fail
  <1>3. CASE InsertStrategy(r)
    BY <1>1, <1>3 DEF InsertStrategy, AfterInsert
  <1>4. CASE DeleteStrategyRow(r)
    BY <1>1, <1>4 DEF DeleteStrategyRow
  <1>5. CASE CountStrategies(r)
    BY <1>1, <1>5 DEF CountStrategies
  <1>6. CASE DisableEnvironment(r)
    BY <1>1, <1>6 DEF DisableEnvironment
  <1>7. CASE IsEnvironmentEnabled(r)
    BY <1>1, <1>7 DEF IsEnvironmentEnabled
  <1>8. CASE FeatureHasEnvironment(r)
    BY <1>1, <1>8 DEF FeatureHasEnvironment, AfterHasEnvironment
  <1>9. CASE StillHasEnvironment(r) \/ ReadStrategies(r)
    BY <1>1, <1>9 DEF StillHasEnvironment, ReadStrategies
  <1>10. CASE SetEnvironmentEnabledStatus(r)
    BY <1>1, <1>10 DEF SetEnvironmentEnabledStatus
  <1>11. CASE InsertFeature(r)
    BY <1>1, <1>11 DEF InsertFeature
  <1>12. CASE ReadProjectEnvs(r)
    BY <1>1, <1>12 DEF ReadProjectEnvs
  <1>13. CASE ConnectEnv(r)
    BY <1>1, <1>13 DEF ConnectEnv
  <1>14. CASE DeleteFeatureRow(r)
    BY <1>1, <1>14 DEF DeleteFeatureRow
  <1>15. CASE WriteRow(r)
    BY <1>1, <1>15 DEF WriteRow, AfterWriteRow
  <1>16. CASE RemoveAllStrategies(r)
    BY <1>1, <1>16 DEF RemoveAllStrategies
  <1>17. CASE CheckContext(r)
    BY <1>1, <1>17 DEF CheckContext
  <1>18. CASE ReadFeatureEnvs(r)
    BY <1>1, <1>18 DEF ReadFeatureEnvs
  <1>19. CASE CompareEnvs(r)
    BY <1>1, <1>19 DEF CompareEnvs
  <1>20. CASE GetRow(r)
    BY <1>1, <1>20 DEF GetRow
  <1>21. CASE MoveStrategies(r)
    BY <1>1, <1>21 DEF MoveStrategies
  <1>22. CASE ReadFeatures(r)
    BY <1>1, <1>22 DEF ReadFeatures
  <1>23. CASE ConnectFeatures(r)
    BY <1>1, <1>23 DEF ConnectFeatures
  <1>24. CASE DisconnectFeatures(r)
    BY <1>1, <1>24 DEF DisconnectFeatures
  <1>25. CASE DisconnectProject(r)
    BY <1>1, <1>25 DEF DisconnectProject
  <1>26. QED
    BY <1>2, <1>3, <1>4, <1>5, <1>6, <1>7, <1>8, <1>9, <1>10, <1>11, <1>12,
       <1>13, <1>14, <1>15, <1>16, <1>17, <1>18, <1>19, <1>20, <1>21, <1>22,
       <1>23, <1>24, <1>25 DEF Continue

\* A call writes no strategy; the id it holds is none, a new one, or that of
\* the strategy it deletes.
LEMMA CallShape ==
  ASSUME TypeOK, NEW r \in Requests, Call(r)
  PROVE  /\ req[r] = Idle
         /\ strategies' = strategies
         /\ \/ req'[r].id = None /\ req'[r].at # "deleteStrategy"
            \/ /\ req'[r].id \in issued' \ issued
               /\ req'[r].at \in {"insertStrategy", "writeRow"}
            \/ /\ req'[r].at = "deleteStrategy"
               /\ \E s \in strategies : req'[r].id = s.id /\ req'[r].feature = s.feature
  <1>1. req \in [Requests -> Request]
    BY DEF TypeOK
  <1> USE DEF Begin, Idle
  <1>2. CASE CreateStrategy(r)
    BY <1>1, <1>2 DEF CreateStrategy
  <1>3. CASE DeleteStrategy(r)
    BY <1>1, <1>3 DEF DeleteStrategy, tables
  <1>4. CASE UpdateEnabled(r)
    BY <1>1, <1>4 DEF UpdateEnabled, AfterHasEnvironment, tables
  <1>5. CASE Toggle(r)
    BY <1>1, <1>5 DEF Toggle, tables
  <1>6. CASE CreateFeature(r)
    BY <1>1, <1>6 DEF CreateFeature, tables
  <1>7. CASE Archive(r) \/ Revive(r)
    BY <1>1, <1>7 DEF Archive, Revive
  <1>8. CASE DeleteFeature(r)
    BY <1>1, <1>8 DEF DeleteFeature, tables
  <1>9. CASE UpdateStale(r)
    BY <1>1, <1>9 DEF UpdateStale, tables
  <1>10. CASE UpdateFeature(r)
    BY <1>1, <1>10 DEF UpdateFeature, tables
  <1>11. CASE LegacyUpdate(r)
    BY <1>1, <1>11 DEF LegacyUpdate
  <1>12. CASE ChangeProject(r)
    BY <1>1, <1>12 DEF ChangeProject, tables
  <1>13. CASE AddEnvironment(r)
    BY <1>1, <1>13 DEF AddEnvironment
  <1>14. CASE RemoveEnvironment(r)
    BY <1>1, <1>14 DEF RemoveEnvironment, tables
  <1>15. QED
    BY <1>2, <1>3, <1>4, <1>5, <1>6, <1>7, <1>8, <1>9, <1>10, <1>11, <1>12,
       <1>13, <1>14 DEF Call

\* The row that insertStrategy adds.
InsertedBy(r, t) ==
    At(r, "insertStrategy") /\ t.id = req[r].id /\ t.feature = req[r].feature
                            /\ t.env = req[r].env

\* No statement but the insert of createStrategy makes a strategy.
LEMMA StrategiesKeep ==
  ASSUME TypeOK, NEW r \in Requests, Call(r) \/ Continue(r) \/ Fail(r)
  PROVE  \A t \in strategies' : (\E s \in strategies : SameRow(s, t)) \/ InsertedBy(r, t)
  <1>1. strategies \subseteq Strategy
    BY DEF TypeOK
  <1> USE DEF SameRow
  <1>2. CASE strategies' \subseteq strategies
    BY <1>2
  <1>3. CASE InsertStrategy(r)
    BY <1>3 DEF InsertStrategy, InsertedBy
  <1>4. CASE MoveStrategies(r)
    BY <1>1, <1>4 DEF MoveStrategies, Moved, Strategy
  <1>5. CASE Call(r)
    BY <1>5, CallShape
  <1>6. Writes(r) => \/ strategies' \subseteq strategies \/ Call(r)
                     \/ InsertStrategy(r) \/ MoveStrategies(r)
    BY DEF Writes, Call, DeleteStrategyRow, DisableEnvironment,
           SetEnvironmentEnabledStatus, InsertFeature, ConnectEnv,
           DeleteFeatureRow, CascadedStrategies, WriteRow, RemoveAllStrategies,
           ConnectFeatures, DisconnectFeatures, DisconnectProject
  <1>7. UNCHANGED tables => strategies' \subseteq strategies
    BY DEF tables
  <1>8. QED
    BY <1>2, <1>3, <1>4, <1>5, <1>6, <1>7, WritesOrNot

LEMMA IssuedGrows ==
  ASSUME NEW r \in Requests, Call(r) \/ Continue(r) \/ Fail(r)
  PROVE  issued \subseteq issued'
  BY WritesOrNot DEF Writes, tables, CreateStrategy, LegacyUpdate, Archive, Revive,
     AddEnvironment, InsertStrategy, DeleteStrategyRow, DisableEnvironment,
     SetEnvironmentEnabledStatus, InsertFeature, ConnectEnv, DeleteFeatureRow,
     WriteRow, RemoveAllStrategies, MoveStrategies, ConnectFeatures,
     DisconnectFeatures, DisconnectProject

LEMMA FreshIdsStep ==
  ASSUME TypeOK, TypeOK', FreshIds,
         NEW r \in Requests, Call(r) \/ Continue(r) \/ Fail(r)
  PROVE  FreshIds'
  <1>1. \A t \in strategies' : (\E s \in strategies : SameRow(s, t)) \/ InsertedBy(r, t)
    BY StrategiesKeep
  <1>2. \A q \in Requests \ {r} : req'[q] = req[q]
    BY OthersKeep
  <1>3. issued \subseteq issued'
    BY IssuedGrows
  <1>4. req[r] \in Request
    BY DEF TypeOK
  <1>5. At(r, "insertStrategy") => InsertPending(r) /\ req[r].id \in issued
    <2>1. req[r].at = "insertStrategy" => req[r].id \in StrategyIds
      BY <1>4 DEF Request
    <2>2. QED
      BY <2>1, ConstantsAssumption DEF At, InsertPending, InsertSteps, FreshIds
  <1>6. \A t \in strategies' : t.id \in issued'
    BY <1>1, <1>3, <1>5 DEF FreshIds, SameRow, InsertedBy
  <1>7. \A s, t \in strategies' : s.id = t.id => SameRow(s, t)
    <2>1. TAKE s, t \in strategies'
    <2>2. HAVE s.id = t.id
    <2>3. CASE InsertedBy(r, s) /\ InsertedBy(r, t)
      BY <2>2, <2>3 DEF InsertedBy, SameRow
    <2>4. ASSUME NEW u \in strategies, SameRow(u, s), InsertedBy(r, t)
          PROVE  FALSE
      BY <2>2, <2>4, <1>5 DEF FreshIds, InsertedBy, SameRow
    <2>5. ASSUME NEW u \in strategies, SameRow(u, t), InsertedBy(r, s)
          PROVE  FALSE
      BY <2>2, <2>5, <1>5 DEF FreshIds, InsertedBy, SameRow
    <2>6. ASSUME NEW u \in strategies, NEW v \in strategies, SameRow(u, s), SameRow(v, t)
          PROVE  SameRow(s, t)
      BY <2>2, <2>6 DEF FreshIds, SameRow
    <2>7. QED
      BY <1>1, <2>3, <2>4, <2>5, <2>6
  <1>8. ASSUME NEW q \in Requests
        PROVE  /\ req'[q].id \in issued' \cup {None}
               /\ req'[q].at \in {"featureEnvs", "targetEnvs", "getRow"} => req'[q].id = None
    <2>1. CASE q # r
      BY <1>2, <1>3, <2>1 DEF FreshIds
    <2>2. CASE q = r /\ Call(r)
      BY <1>3, <2>2, CallShape DEF FreshIds
    <2>3. CASE q = r /\ (Continue(r) \/ Fail(r))
      BY <1>3, <2>3, ContinueShape DEF FreshIds, Idle
    <2>4. QED
      BY <2>1, <2>2, <2>3
  <1>9. ASSUME NEW q \in Requests, req'[q].at = "deleteStrategy",
               NEW t \in strategies', t.id = req'[q].id
        PROVE  t.feature = req'[q].feature
    <2>1. CASE q # r
      <3>1. req[q] = req'[q]
        BY <1>2, <2>1
      <3>2. ~InsertedBy(r, t)
        BY <1>5, <1>9, <2>1, <3>1 DEF FreshIds, InsertedBy
      <3>3. PICK s \in strategies : SameRow(s, t)
        BY <1>1, <3>2
      <3>4. QED
        BY <1>9, <3>1, <3>3 DEF FreshIds, SameRow, At
    <2>2. CASE q = r /\ Call(r)
      BY <1>9, <2>2, CallShape DEF FreshIds, SameRow, Idle
    <2>3. CASE q = r /\ (Continue(r) \/ Fail(r))
      BY <1>9, <2>3, ContinueShape DEF Idle
    <2>4. QED
      BY <2>1, <2>2, <2>3
  <1>10. ASSUME NEW q \in Requests, req'[q].id # None, req'[q].at \in InsertSteps
         PROVE  /\ \A s \in strategies' : s.id # req'[q].id
                /\ \A p \in Requests \ {q} : req'[p].id # req'[q].id
    <2>1. CASE q # r
      <3>1. req[q] = req'[q] /\ InsertPending(q)
        BY <1>2, <1>10, <2>1 DEF InsertPending
      <3>2. \A s \in strategies' : s.id # req'[q].id
        BY <1>1, <1>5, <2>1, <3>1 DEF FreshIds, InsertedBy, SameRow
      <3>3. req'[r].id # req'[q].id
        <4>1. CASE Call(r)
          BY <1>10, <2>1, <3>1, <4>1, CallShape DEF FreshIds
        <4>2. CASE Continue(r) \/ Fail(r)
          BY <1>10, <2>1, <3>1, <4>2, ContinueShape DEF FreshIds, Idle
        <4>3. QED
          BY <4>1, <4>2
      <3>4. QED
        BY <1>2, <3>1, <3>2, <3>3 DEF FreshIds
    <2>2. CASE q = r /\ Call(r)
      BY <1>2, <1>10, <2>2, CallShape, ConstantsAssumption DEF FreshIds, InsertSteps, TypeOK
    <2>3. CASE q = r /\ (Continue(r) \/ Fail(r))
      <3>1. /\ req'[r].id = req[r].id
            /\ req[r].at \in {"getRow", "writeRow", "removeAll", "checkContext"}
        BY <1>10, <2>3, ContinueShape DEF Idle
      <3>2. InsertPending(r)
        BY <1>10, <2>3, <3>1 DEF FreshIds, InsertPending, InsertSteps
      <3>3. QED
        BY <1>1, <1>2, <2>3, <3>1, <3>2 DEF FreshIds, InsertedBy, SameRow, At
    <2>4. QED
      BY <2>1, <2>2, <2>3
  <1>11. QED
    BY <1>6, <1>7, <1>8, <1>9, <1>10 DEF FreshIds, InsertPending, At, SameRow

LEMMA FreshIdsInit == Init => FreshIds
  BY DEF Init, FreshIds, Idle, At, InsertPending, InsertSteps

LEMMA FreshIdsUnchanged ==
  ASSUME FreshIds, UNCHANGED vars
  PROVE  FreshIds'
  BY DEF FreshIds, SameRow, At, InsertPending, vars

LEMMA FreshIdsNext == TypeOK /\ TypeOK' /\ FreshIds /\ [Next]_vars => FreshIds'
  BY FreshIdsStep, FreshIdsUnchanged DEF Next

\* Strategy ids are never reused: of requests in progress and stored rows no
\* two share an id that is about to be inserted, so a delete by id takes the
\* strategy whose feature was checked and no other.
LEMMA IdsAreFresh == Spec => []FreshIds
  BY TypeCorrect, FreshIdsInit, FreshIdsNext, PTL DEF Spec

-----------------------------------------------------------------------------
(* How an enabled environment loses its last strategy.                     *)

\* Only setEnvironmentEnabledStatus enables.
LEMMA EnabledGrows ==
  ASSUME TypeOK, NEW r \in Requests, Call(r) \/ Continue(r) \/ Fail(r)
  PROVE  \A row \in enabled' :
            \/ row \in enabled
            \/ /\ At(r, "setEnabled") /\ req[r].flag
               /\ row = <<req[r].feature, req[r].env>>
               /\ strategies' = strategies
  <1>1. CASE SetEnvironmentEnabledStatus(r)
    BY <1>1 DEF SetEnvironmentEnabledStatus
  <1>2. Writes(r) => enabled' \subseteq enabled \/ SetEnvironmentEnabledStatus(r)
    BY DEF Writes, CreateStrategy, LegacyUpdate, Archive, Revive,
       AddEnvironment, InsertStrategy, DeleteStrategyRow, DisableEnvironment,
       InsertFeature, ConnectEnv, DeleteFeatureRow, WriteRow,
       RemoveAllStrategies, MoveStrategies, ConnectFeatures,
       DisconnectFeatures, DisconnectProject
  <1>3. UNCHANGED tables => enabled' \subseteq enabled
    BY DEF tables
  <1>4. QED
    BY <1>1, <1>2, <1>3, WritesOrNot

\* Three statements delete strategies.
LEMMA StrategiesShrink ==
  ASSUME TypeOK, NEW r \in Requests, Call(r) \/ Continue(r) \/ Fail(r),
         NEW s \in strategies
  PROVE  \/ \E t \in strategies' : SameRow(s, t)
         \/ DeleteStrategyRow(r) /\ s.id = req[r].id
         \/ RemoveAllStrategies(r) /\ s.feature = req[r].feature /\ s.env = req[r].env
         \/ DeleteFeatureRow(r) /\ \A row \in enabled' : row[1] # s.feature
  <1>1. s \in Strategy
    BY DEF TypeOK
  <1> USE DEF SameRow
  <1>2. CASE s \in strategies'
    BY <1>2
  <1>3. CASE DeleteStrategyRow(r)
    BY <1>3 DEF DeleteStrategyRow
  <1>4. CASE RemoveAllStrategies(r)
    BY <1>4 DEF RemoveAllStrategies, Replaced, StrategiesIn
  <1>5. CASE DeleteFeatureRow(r)
    BY <1>5 DEF DeleteFeatureRow, CascadedStrategies
  <1>6. CASE MoveStrategies(r)
    <2>1. Moved(s, req[r].feature, req[r].project) \in strategies'
      BY <1>6 DEF MoveStrategies
    <2>2. SameRow(s, Moved(s, req[r].feature, req[r].project))
      BY <1>1 DEF Moved, Strategy
    <2>3. QED
      BY <2>1, <2>2
  <1>7. Writes(r) => \/ s \in strategies' \/ DeleteStrategyRow(r)
                     \/ RemoveAllStrategies(r) \/ DeleteFeatureRow(r)
                     \/ MoveStrategies(r)
    BY DEF Writes, CreateStrategy, LegacyUpdate, Archive, Revive,
       AddEnvironment, InsertStrategy, DisableEnvironment,
       SetEnvironmentEnabledStatus, InsertFeature, ConnectEnv, WriteRow,
       ConnectFeatures, DisconnectFeatures, DisconnectProject
  <1>8. UNCHANGED tables => s \in strategies'
    BY DEF tables
  <1>9. QED
    BY <1>2, <1>3, <1>4, <1>5, <1>6, <1>7, <1>8, WritesOrNot

\* A request that will look whether to disable an environment disables it,
\* finds a strategy there, goes on, or breaks off.
LEMMA PendingStep ==
  ASSUME TypeOK, NEW r \in Requests, Call(r) \/ Continue(r) \/ Fail(r),
         NEW f \in Features, NEW e \in Envs, PendingDisable(f, e)
  PROVE  \/ PendingDisable(f, e)'
         \/ ~Uncovered(f, e)'
         \/ BrokenOff(r) /\ "fail" \in Ops
  <1>1. PICK q \in Requests : /\ req[q].at \in {"countStrategies", "disable"}
                              /\ req[q].feature = f /\ req[q].env = e
    BY DEF PendingDisable
  <1>2. CASE q # r
    <2>1. req'[q] = req[q]
      BY <1>2, OthersKeep
    <2>2. QED
      BY <1>1, <2>1 DEF PendingDisable
  <1>3. CASE q = r
    <2>1. req \in [Requests -> Request] /\ req[r] \in Fields
      BY DEF TypeOK, Request
    <2>2. CASE CountStrategies(r)
      <3>1. CASE NoStrategiesLeft(r)
        BY <1>1, <1>3, <2>1, <2>2, <3>1 DEF CountStrategies, Goto, Fields, PendingDisable
      <3>2. CASE ~NoStrategiesLeft(r)
        BY <1>1, <1>3, <2>2, <3>2
           DEF CountStrategies, NoStrategiesLeft, StrategiesIn, Uncovered, tables
      <3>3. QED
        BY <3>1, <3>2
    <2>3. CASE DisableEnvironment(r)
      BY <1>1, <1>3, <2>3 DEF DisableEnvironment, Uncovered
    <2>4. CASE Fail(r)
      BY <1>1, <1>3, <2>4 DEF Fail, BrokenOff, At
    <2>5. ~Call(r)
      BY <1>1, <1>3, CallShape DEF Idle
    <2>6. Continue(r) => CountStrategies(r) \/ DisableEnvironment(r)
      BY <1>1, <1>3 DEF Continue, At, InsertStrategy, DeleteStrategyRow,
         IsEnvironmentEnabled, FeatureHasEnvironment, StillHasEnvironment,
         ReadStrategies, SetEnvironmentEnabledStatus, InsertFeature, ReadProjectEnvs, ConnectEnv,
         DeleteFeatureRow, WriteRow, RemoveAllStrategies, CheckContext,
         ReadFeatureEnvs, CompareEnvs, GetRow, MoveStrategies, ReadFeatures,
         ConnectFeatures, DisconnectFeatures, DisconnectProject
    <2>7. QED
      BY <2>2, <2>3, <2>4, <2>5, <2>6
  <1>4. QED
    BY <1>2, <1>3

LEMMA GuardStep ==
  ASSUME TypeOK, FreshIds, NEW r \in Requests, Call(r) \/ Continue(r) \/ Fail(r),
         NEW f \in Features, NEW e \in Envs,
         Guarded(f, e), ~Guarded(f, e)'
  PROVE  \/ StaleEnable(r, f, e)
         \/ ForeignDelete(r, f, e)
         \/ LegacyRemoval(r, f, e)
         \/ BrokenOff(r) /\ "fail" \in Ops
  <1>1. Uncovered(f, e)' /\ ~PendingDisable(f, e)'
    BY DEF Guarded
  <1>2. CASE PendingDisable(f, e)
    BY <1>1, <1>2, PendingStep
  <1>3. CASE <<f, e>> \notin enabled
    <2>1. /\ At(r, "setEnabled") /\ req[r].flag
          /\ <<f, e>> = <<req[r].feature, req[r].env>>
          /\ strategies' = strategies
      BY <1>1, <1>3, EnabledGrows DEF Uncovered
    <2>2. QED
      BY <1>1, <2>1 DEF StaleEnable, Uncovered, StrategiesIn
  <1>4. CASE StrategiesIn(f, e) # {}
    <2>1. PICK s \in strategies : s.feature = f /\ s.env = e
      BY <1>4 DEF StrategiesIn
    <2>2. ~ \E t \in strategies' : SameRow(s, t)
      BY <1>1, <2>1 DEF Uncovered, StrategiesIn, SameRow
    <2>3. CASE DeleteStrategyRow(r) /\ s.id = req[r].id
      <3>1. At(r, "deleteStrategy") /\ s.feature = req[r].feature
        BY <2>3 DEF DeleteStrategyRow, FreshIds
      <3>2. CASE s.env = req[r].env
        <4>1. req[r] \in Fields /\ req \in [Requests -> Request]
          BY DEF TypeOK, Request
        <4>2. PendingDisable(f, e)'
          BY <2>1, <2>3, <3>1, <3>2, <4>1
             DEF DeleteStrategyRow, Goto, PendingDisable, Fields
        <4>3. QED
          BY <1>1, <4>2
      <3>3. QED
        BY <2>1, <2>3, <3>1, <3>2 DEF ForeignDelete, StrategiesIn
    <2>4. CASE RemoveAllStrategies(r) /\ s.feature = req[r].feature /\ s.env = req[r].env
      BY <2>1, <2>4 DEF RemoveAllStrategies, LegacyRemoval
    <2>5. CASE \A row \in enabled' : row[1] # s.feature
      BY <1>1, <2>1, <2>5 DEF Uncovered
    <2>6. QED
      BY <2>2, <2>3, <2>4, <2>5, StrategiesShrink
  <1>5. QED
    BY <1>2, <1>3, <1>4 DEF Guarded, Uncovered

\* However many requests interleave, and whatever they break off, an enabled
\* environment is left without a strategy and without a request that will
\* disable it only by one of the four steps that the property names.
THEOREM GuardCorrect == Spec => GuardLostOnlyByRaces
  <1> DEFINE Lost ==
        \A f \in Features, e \in Envs :
          Guarded(f, e) /\ ~Guarded(f, e)' =>
              \E r \in Requests :
                  \/ StaleEnable(r, f, e)
                  \/ ForeignDelete(r, f, e)
                  \/ LegacyRemoval(r, f, e)
                  \/ BrokenOff(r) /\ "fail" \in Ops
  <1>1. TypeOK /\ FreshIds /\ [Next]_vars => [Lost]_vars
    BY GuardStep DEF Next
  <1>2. QED
    BY <1>1, TypeCorrect, IdsAreFresh, PTL DEF Spec, GuardLostOnlyByRaces

-----------------------------------------------------------------------------
(* Without those four steps no enabled environment is left uncovered.      *)

\* No legacy endpoint, every strategy deleted through the URL of its own
\* environment, every request run to its end, and no request that deletes
\* strategies next to another one.
Calm ==
    /\ Ops \cap {"legacyUpdate", "foreignEnv", "fail"} = {}
    /\ \/ \A r, q \in Requests : r = q
       \/ Ops \cap {"deleteStrategy", "deleteFeature"} = {}

\* Which operation a statement belongs to.
Started(r) ==
    /\ req[r].op \in Ops \cup {"none"}
    /\ req[r].at = "removeAll" => req[r].op = "legacyUpdate"
    /\ req[r].at = "deleteStrategy" => req[r].op = "deleteStrategy"
    /\ req[r].at = "deleteFeature" => req[r].op = "deleteFeature"

\* What updateEnabled has checked, and where deleteStrategy deletes.
Checked(r) ==
    /\ At(r, "setEnabled") /\ req[r].flag => StrategiesIn(req[r].feature, req[r].env) # {}
    /\ At(r, "deleteStrategy") =>
          \A s \in strategies : s.id = req[r].id => s.env = req[r].env

CalmInv ==
    /\ \A r \in Requests : Started(r) /\ Checked(r)
    /\ \A f \in Features, e \in Envs : Guarded(f, e)

LEMMA StartedStep ==
  ASSUME TypeOK, NEW r \in Requests, Call(r) \/ Continue(r) \/ Fail(r),
         Started(r)
  PROVE  Started(r)'
  <1>1. req \in [Requests -> Request] /\ req[r] \in Fields
    BY DEF TypeOK, Request
  <1> USE DEF Started
  <1>2. CASE Continue(r) \/ Fail(r)
    <2>1. CASE RemoveAllStrategies(r)
      BY <1>1, <2>1 DEF RemoveAllStrategies, Goto, Fields
    <2>2. CASE WriteRow(r)
      BY <1>1, <2>2 DEF WriteRow, AfterWriteRow, Goto, Finish, Idle, Fields
    <2>3. CASE Fail(r) \/ InsertStrategy(r) \/ DeleteStrategyRow(r) \/ CountStrategies(r)
               \/ DisableEnvironment(r) \/ IsEnvironmentEnabled(r)
               \/ FeatureHasEnvironment(r) \/ StillHasEnvironment(r)
               \/ ReadStrategies(r) \/ SetEnvironmentEnabledStatus(r)
      BY <1>1, <2>3 DEF Fail, Goto, Finish, Idle, Fields, InsertStrategy, AfterInsert,
         DeleteStrategyRow, CountStrategies, DisableEnvironment,
         IsEnvironmentEnabled, FeatureHasEnvironment, AfterHasEnvironment,
         StillHasEnvironment, ReadStrategies, SetEnvironmentEnabledStatus
    <2>4. CASE InsertFeature(r) \/ ReadProjectEnvs(r) \/ ConnectEnv(r)
               \/ DeleteFeatureRow(r) \/ CheckContext(r) \/ ReadFeatureEnvs(r)
      BY <1>1, <2>4 DEF Goto, Finish, Idle, Fields, InsertFeature, ReadProjectEnvs,
         ConnectEnv, DeleteFeatureRow, CheckContext, ReadFeatureEnvs, At
    <2>5. CASE CompareEnvs(r) \/ GetRow(r) \/ MoveStrategies(r) \/ ReadFeatures(r)
               \/ ConnectFeatures(r) \/ DisconnectFeatures(r) \/ DisconnectProject(r)
      BY <1>1, <2>5 DEF Goto, Finish, Idle, Fields, CompareEnvs, GetRow,
         MoveStrategies, ReadFeatures, ConnectFeatures, DisconnectFeatures,
         DisconnectProject
    <2>6. QED
      BY <1>2, <2>1, <2>2, <2>3, <2>4, <2>5 DEF Continue
  <1>3. CASE Call(r)
    <2> USE DEF Begin
    <2>1. CASE CreateStrategy(r)
      BY <1>1, <2>1 DEF CreateStrategy
    <2>2. CASE DeleteStrategy(r)
      BY <1>1, <2>2 DEF DeleteStrategy
    <2>3. CASE UpdateEnabled(r)
      BY <1>1, <2>3 DEF UpdateEnabled, AfterHasEnvironment
    <2>4. CASE Toggle(r)
      BY <1>1, <2>4 DEF Toggle
    <2>5. CASE CreateFeature(r)
      BY <1>1, <2>5 DEF CreateFeature
    <2>6. CASE Archive(r) \/ Revive(r)
      BY <1>1, <2>6 DEF Archive, Revive
    <2>7. CASE DeleteFeature(r)
      BY <1>1, <2>7 DEF DeleteFeature
    <2>8. CASE UpdateStale(r)
      BY <1>1, <2>8 DEF UpdateStale
    <2>9. CASE UpdateFeature(r)
      BY <1>1, <2>9 DEF UpdateFeature
    <2>10. CASE LegacyUpdate(r)
      BY <1>1, <2>10 DEF LegacyUpdate
    <2>11. CASE ChangeProject(r)
      BY <1>1, <2>11 DEF ChangeProject
    <2>12. CASE AddEnvironment(r)
      BY <1>1, <2>12 DEF AddEnvironment
    <2>13. CASE RemoveEnvironment(r)
      BY <1>1, <2>13 DEF RemoveEnvironment
    <2>14. QED
      BY <1>3, <2>1, <2>2, <2>3, <2>4, <2>5, <2>6, <2>7, <2>8, <2>9, <2>10,
         <2>11, <2>12, <2>13 DEF Call
  <1>4. QED
    BY <1>2, <1>3

\* Where a call leaves its request.
LEMMA CallAt ==
  ASSUME TypeOK, NEW r \in Requests, Call(r)
  PROVE  /\ req'[r].at = "setEnabled" => ~req'[r].flag
         /\ req'[r].at = "deleteStrategy" => DeleteStrategy(r)
  <1>1. req \in [Requests -> Request]
    BY DEF TypeOK, Begin, Idle
  <1>2. CASE UpdateEnabled(r)
    <2>1. PICK f \in Features, e \in Envs, p \in Projects, flag \in BOOLEAN :
            Begin(r, "updateEnabled", AfterHasEnvironment(flag), f, e, p, flag, None)
      BY <1>2 DEF UpdateEnabled
    <2>2. req'[r].at = AfterHasEnvironment(flag) /\ req'[r].flag = flag
      BY <1>1, <2>1 DEF Begin
    <2>3. CASE flag = TRUE
      BY <2>2, <2>3 DEF AfterHasEnvironment
    <2>4. CASE flag = FALSE
      BY <2>2, <2>4 DEF AfterHasEnvironment
    <2>5. QED
      BY <2>3, <2>4
  <1>3. CASE CreateStrategy(r)
    BY <1>1, <1>3 DEF CreateStrategy, Begin, Idle
  <1>4. CASE Toggle(r)
    BY <1>1, <1>4 DEF Toggle, Begin, Idle
  <1>5. CASE CreateFeature(r)
    BY <1>1, <1>5 DEF CreateFeature, Begin, Idle
  <1>6. CASE Archive(r)
    BY <1>1, <1>6 DEF Archive, Begin, Idle
  <1>7. CASE Revive(r)
    BY <1>1, <1>7 DEF Revive, Begin, Idle
  <1>8. CASE DeleteFeature(r)
    BY <1>1, <1>8 DEF DeleteFeature, Begin, Idle
  <1>9. CASE UpdateStale(r)
    BY <1>1, <1>9 DEF UpdateStale, Begin, Idle
  <1>10. CASE UpdateFeature(r)
    BY <1>1, <1>10 DEF UpdateFeature, Begin, Idle
  <1>11. CASE LegacyUpdate(r)
    BY <1>1, <1>11 DEF LegacyUpdate, Begin, Idle
  <1>12. CASE ChangeProject(r)
    BY <1>1, <1>12 DEF ChangeProject, Begin, Idle
  <1>13. CASE AddEnvironment(r)
    BY <1>1, <1>13 DEF AddEnvironment, Begin, Idle
  <1>14. CASE RemoveEnvironment(r)
    BY <1>1, <1>14 DEF RemoveEnvironment, Begin, Idle
  <1>15. CASE DeleteStrategy(r)
    <2>1. req'[r].at = "deleteStrategy"
      BY <1>1, <1>15 DEF DeleteStrategy, Begin
    <2>2. QED
      BY <1>15, <2>1
  <1>16. QED
    BY <1>2, <1>3, <1>4, <1>5, <1>6, <1>7, <1>8, <1>9,
       <1>10, <1>11, <1>12, <1>13, <1>14, <1>15 DEF Call

LEMMA InsertsNewId ==
  ASSUME TypeOK, NEW r \in Requests, At(r, "insertStrategy")
  PROVE  InsertPending(r)
  BY ConstantsAssumption DEF TypeOK, Request, At, InsertPending, InsertSteps

LEMMA NotToSetEnabled ==
  ASSUME TypeOK, NEW r \in Requests, Continue(r) \/ Fail(r),
         ~ReadStrategies(r), ~FeatureHasEnvironment(r)
  PROVE  req'[r].at # "setEnabled"
  <1>1. req \in [Requests -> Request] /\ req[r] \in Fields
    BY DEF TypeOK, Request
  <1> USE DEF Goto, Finish, Idle, Fields, At
  <1>2. CASE Fail(r) \/ InsertStrategy(r) \/ DeleteStrategyRow(r) \/ CountStrategies(r)
             \/ DisableEnvironment(r) \/ IsEnvironmentEnabled(r)
             \/ StillHasEnvironment(r) \/ SetEnvironmentEnabledStatus(r)
             \/ InsertFeature(r)
    BY <1>1, <1>2 DEF Fail, InsertStrategy, AfterInsert, DeleteStrategyRow,
       CountStrategies, DisableEnvironment, IsEnvironmentEnabled,
       StillHasEnvironment, SetEnvironmentEnabledStatus, InsertFeature
  <1>3. CASE ReadProjectEnvs(r) \/ ConnectEnv(r) \/ DeleteFeatureRow(r) \/ WriteRow(r)
             \/ RemoveAllStrategies(r) \/ CheckContext(r) \/ ReadFeatureEnvs(r)
    BY <1>1, <1>3 DEF ReadProjectEnvs, ConnectEnv, DeleteFeatureRow, WriteRow,
       AfterWriteRow, RemoveAllStrategies, CheckContext, ReadFeatureEnvs
  <1>4. CASE CompareEnvs(r) \/ GetRow(r) \/ MoveStrategies(r) \/ ReadFeatures(r)
             \/ ConnectFeatures(r) \/ DisconnectFeatures(r) \/ DisconnectProject(r)
    BY <1>1, <1>4 DEF CompareEnvs, GetRow, MoveStrategies, ReadFeatures,
       ConnectFeatures, DisconnectFeatures, DisconnectProject
  <1>5. QED
    BY <1>2, <1>3, <1>4 DEF Continue

\* What the check of updateEnabled found is still there when it enables.
LEMMA CheckedStep ==
  ASSUME Calm, TypeOK, FreshIds, FreshIds',
         NEW r \in Requests, Call(r) \/ Continue(r) \/ Fail(r),
         \A q \in Requests : Started(q) /\ Checked(q),
         NEW q \in Requests
  PROVE  Checked(q)'
  <1>1. req \in [Requests -> Request] /\ req[r] \in Fields /\ req[q] \in Fields
    BY DEF TypeOK, Request
  <1>2. ASSUME req'[q].at = "setEnabled", req'[q].flag
        PROVE  \E t \in strategies' : t.feature = req'[q].feature /\ t.env = req'[q].env
    <2>1. CASE q # r
      <3>1. req[q] = req'[q]
        BY <2>1, OthersKeep
      <3>2. PICK s \in strategies : s.feature = req[q].feature /\ s.env = req[q].env
        BY <1>2, <3>1 DEF Checked, At, StrategiesIn
      <3>3. ~DeleteStrategyRow(r) /\ ~RemoveAllStrategies(r) /\ ~DeleteFeatureRow(r)
        BY <2>1 DEF Calm, Started, DeleteStrategyRow, RemoveAllStrategies,
           DeleteFeatureRow, At
      <3>4. QED
        BY <3>1, <3>2, <3>3, StrategiesShrink DEF SameRow
    <2>2. CASE q = r /\ Call(r)
      BY <1>2, <2>2, CallAt
    <2>3. CASE q = r /\ ReadStrategies(r)
      BY <1>1, <1>2, <2>3 DEF ReadStrategies, MayEnable, StrategiesIn, Goto,
         Finish, Idle, tables, Fields
    <2>4. CASE q = r /\ FeatureHasEnvironment(r)
      BY <1>1, <1>2, <2>4 DEF FeatureHasEnvironment, AfterHasEnvironment, Goto,
         Finish, Idle, Fields
    <2>5. CASE q = r /\ ~ReadStrategies(r) /\ ~FeatureHasEnvironment(r)
               /\ (Continue(r) \/ Fail(r))
      <3>1. req'[r].at # "setEnabled"
        BY <2>5, NotToSetEnabled
      <3>2. QED
        BY <1>2, <2>5, <3>1
    <2>6. QED
      BY <2>1, <2>2, <2>3, <2>4, <2>5
  <1>3. ASSUME req'[q].at = "deleteStrategy",
               NEW t \in strategies', t.id = req'[q].id
        PROVE  t.env = req'[q].env
    <2>1. CASE q # r
      <3>1. req[q] = req'[q]
        BY <2>1, OthersKeep
      <3>2. ~InsertedBy(r, t)
        BY <1>3, <2>1, <3>1, InsertsNewId
           DEF FreshIds, InsertedBy, At, InsertPending, InsertSteps
      <3>3. PICK s \in strategies : SameRow(s, t)
        BY <3>2, StrategiesKeep
      <3>4. QED
        BY <1>3, <3>1, <3>3 DEF Checked, At, SameRow
    <2>2. CASE q = r /\ Call(r)
      <3>1. CASE DeleteStrategy(r)
        <4>1. PICK s \in strategies :
                Begin(r, "deleteStrategy", "deleteStrategy", s.feature, s.env, None, FALSE, s.id)
          BY <3>1 DEF DeleteStrategy, UrlEnvs, Calm
        <4>2. req'[r].env = s.env /\ req'[r].id = s.id
          BY <1>1, <4>1 DEF Begin
        <4>3. t \in strategies
          BY <2>2, CallShape
        <4>4. QED
          BY <1>3, <2>2, <4>2, <4>3 DEF FreshIds, SameRow
      <3>2. QED
        BY <1>3, <2>2, <3>1, CallAt
    <2>3. CASE q = r /\ (Continue(r) \/ Fail(r))
      BY <1>3, <2>3, ContinueShape DEF Idle
    <2>4. QED
      BY <2>1, <2>2, <2>3
  <1>4. QED
    BY <1>2, <1>3 DEF Checked, At, StrategiesIn

LEMMA CalmStep ==
  ASSUME Calm, TypeOK, FreshIds, FreshIds', CalmInv, [Next]_vars
  PROVE  CalmInv'
  <1>1. CASE UNCHANGED vars
    BY <1>1 DEF CalmInv, vars, Started, Checked, At, StrategiesIn, Guarded,
       Uncovered, PendingDisable
  <1>2. ASSUME NEW r \in Requests, Call(r) \/ Continue(r) \/ Fail(r)
        PROVE  CalmInv'
    <2>1. ASSUME NEW q \in Requests
          PROVE  Started(q)' /\ Checked(q)'
      <3>1. CASE q = r
        BY <1>2, <3>1, StartedStep, CheckedStep DEF CalmInv
      <3>2. CASE q # r
        <4>1. req'[q] = req[q]
          BY <1>2, <3>2, OthersKeep
        <4>2. QED
          BY <1>2, <4>1, CheckedStep DEF CalmInv, Started
      <3>3. QED
        BY <3>1, <3>2
    <2>2. ASSUME NEW f \in Features, NEW e \in Envs
          PROVE  Guarded(f, e)'
      <3>1. ~StaleEnable(r, f, e)
        BY DEF StaleEnable, CalmInv, Checked
      <3>2. ~ForeignDelete(r, f, e)
        BY DEF ForeignDelete, CalmInv, Checked, StrategiesIn
      <3>3. ~LegacyRemoval(r, f, e)
        BY DEF LegacyRemoval, CalmInv, Started, Calm, At
      <3>4. "fail" \notin Ops
        BY DEF Calm
      <3>5. QED
        BY <1>2, <3>1, <3>2, <3>3, <3>4, GuardStep DEF CalmInv
    <2>3. QED
      BY <2>1, <2>2 DEF CalmInv
  <1>3. QED
    BY <1>1, <1>2 DEF Next

LEMMA CalmInit == Init => CalmInv
  BY DEF Init, CalmInv, Started, Checked, At, Idle, Guarded, Uncovered

LEMMA CalmQuiet == CalmInv => EnabledHasStrategies
  BY DEF CalmInv, Guarded, PendingDisable, EnabledHasStrategies, Quiescent, Idle

\* As long as the legacy endpoint is not used, strategies are deleted through
\* their own environment, and no request that deletes runs next to another
\* one, the guards of updateEnabled and deleteStrategy do keep an enabled
\* feature from being without strategies, however the other requests of the
\* API interleave.
THEOREM EnabledHasStrategiesWhenCalm == Calm => (Spec => []EnabledHasStrategies)
  <1> SUFFICES ASSUME Calm PROVE Spec => []EnabledHasStrategies
    OBVIOUS
  <1>1. TypeOK /\ FreshIds /\ FreshIds' /\ CalmInv /\ [Next]_vars => CalmInv'
    BY CalmStep
  <1>2. QED
    BY <1>1, TypeCorrect, IdsAreFresh, CalmInit, CalmQuiet, PTL DEF Spec

-----------------------------------------------------------------------------
(* Requests that keep out of each other's way: which handler a statement   *)
(* belongs to, and which statements follow it.                             *)

\* Which handler a statement belongs to.
Handler(r) ==
    LET q == req[r] IN
    /\ (q.op = "none") <=> (q.at = "idle")
    /\ (q.op = "createFeature") <=> (q.at \in {"insertFeature", "readProjectEnvs", "connectEnv"})
    /\ (q.op = "deleteFeature") <=> (q.at = "deleteFeature")
    /\ (q.op = "addEnvironment") <=> (q.at \in {"readFeatures", "connectFeatures"})
    /\ (q.op = "removeEnvironment") <=> (q.at \in {"disconnectFeatures", "disconnectProject"})
    /\ q.at \in {"featureEnvs", "targetEnvs", "getRow", "moveStrategies"} => q.op = "changeProject"
    /\ q.op = "changeProject" =>
          q.at \in {"featureEnvs", "targetEnvs", "getRow", "writeRow", "moveStrategies"}

\* The statements that a call begins with.
FirstSteps == {"insertStrategy", "deleteStrategy", "stillHasEnvironment", "setEnabled",
               "isEnabled", "insertFeature", "deleteFeature", "writeRow", "featureEnvs",
               "readFeatures", "disconnectFeatures", "idle"}

LEMMA CallSuccessor ==
  ASSUME TypeOK, NEW r \in Requests, Call(r)
  PROVE  /\ req'[r].at \in FirstSteps
         /\ req'[r].at = "insertStrategy" => CreateStrategy(r)
         /\ req'[r].at = "insertFeature" => CreateFeature(r)
         /\ req'[r].at = "deleteFeature" => DeleteFeature(r)
         /\ req'[r].at = "writeRow" => UpdateStale(r) \/ UpdateFeature(r) \/ LegacyUpdate(r)
         /\ req'[r].at = "featureEnvs" => ChangeProject(r)
         /\ req'[r].at = "readFeatures" => AddEnvironment(r)
         /\ req'[r].at = "disconnectFeatures" => RemoveEnvironment(r)
         /\ Handler(r)'
  <1>1. req \in [Requests -> Request]
    BY DEF TypeOK
  <1> USE DEF FirstSteps, Handler
  <1>2. CASE CreateStrategy(r)
    <2>1. req'[r].at = "insertStrategy" /\ req'[r].op = "createStrategy"
      BY <1>1, <1>2 DEF CreateStrategy, Begin
    <2>2. QED
      BY <1>2, <2>1
  <1>3. CASE DeleteStrategy(r)
    <2>1. req'[r].at = "deleteStrategy" /\ req'[r].op = "deleteStrategy"
      BY <1>1, <1>3 DEF DeleteStrategy, Begin
    <2>2. QED
      BY <1>3, <2>1
  <1>4. CASE UpdateEnabled(r)
    <2>1. req'[r].at \in {"stillHasEnvironment", "setEnabled"} /\ req'[r].op = "updateEnabled"
      BY <1>1, <1>4 DEF UpdateEnabled, AfterHasEnvironment, Begin
    <2>2. QED
      BY <2>1
  <1>5. CASE Toggle(r)
    <2>1. req'[r].at = "isEnabled" /\ req'[r].op = "toggle"
      BY <1>1, <1>5 DEF Toggle, Begin
    <2>2. QED
      BY <1>5, <2>1
  <1>6. CASE CreateFeature(r)
    <2>1. req'[r].at = "insertFeature" /\ req'[r].op = "createFeature"
      BY <1>1, <1>6 DEF CreateFeature, Begin
    <2>2. QED
      BY <1>6, <2>1
  <1>7. CASE Archive(r) \/ Revive(r)
    BY <1>1, <1>7 DEF Archive, Revive, Idle
  <1>8. CASE DeleteFeature(r)
    <2>1. req'[r].at = "deleteFeature" /\ req'[r].op = "deleteFeature"
      BY <1>1, <1>8 DEF DeleteFeature, Begin
    <2>2. QED
      BY <1>8, <2>1
  <1>9. CASE UpdateStale(r)
    <2>1. req'[r].at = "writeRow" /\ req'[r].op = "updateStale"
      BY <1>1, <1>9 DEF UpdateStale, Begin
    <2>2. QED
      BY <1>9, <2>1
  <1>10. CASE UpdateFeature(r)
    <2>1. req'[r].at = "writeRow" /\ req'[r].op = "updateFeature"
      BY <1>1, <1>10 DEF UpdateFeature, Begin
    <2>2. QED
      BY <1>10, <2>1
  <1>11. CASE LegacyUpdate(r)
    <2>1. req'[r].at = "writeRow" /\ req'[r].op = "legacyUpdate"
      BY <1>1, <1>11 DEF LegacyUpdate, Begin
    <2>2. QED
      BY <1>11, <2>1
  <1>12. CASE ChangeProject(r)
    <2>1. req'[r].at = "featureEnvs" /\ req'[r].op = "changeProject"
      BY <1>1, <1>12 DEF ChangeProject, Begin
    <2>2. QED
      BY <1>12, <2>1
  <1>13. CASE AddEnvironment(r)
    <2>1. req'[r].at = "readFeatures" /\ req'[r].op = "addEnvironment"
      BY <1>1, <1>13 DEF AddEnvironment, Begin
    <2>2. QED
      BY <1>13, <2>1
  <1>14. CASE RemoveEnvironment(r)
    <2>1. req'[r].at = "disconnectFeatures" /\ req'[r].op = "removeEnvironment"
      BY <1>1, <1>14 DEF RemoveEnvironment, Begin
    <2>2. QED
      BY <1>14, <2>1
  <1>15. QED
    BY <1>2, <1>3, <1>4, <1>5, <1>6, <1>7, <1>8, <1>9, <1>10, <1>11, <1>12, <1>13, <1>14 DEF Call

LEMMA ContinueSuccessor ==
  ASSUME TypeOK, NEW r \in Requests, Continue(r) \/ Fail(r), Handler(r)
  PROVE  /\ Handler(r)'
         /\ \/ req'[r] = Idle
            \/ /\ req'[r].at \notin
                     FirstSteps \ {"insertStrategy", "writeRow", "stillHasEnvironment", "setEnabled"}
               /\ req'[r].project = req[r].project
               /\ req'[r].at = "insertStrategy" => CheckContext(r)
               /\ req'[r].at = "readProjectEnvs" => InsertFeature(r)
               /\ req'[r].at = "connectEnv" => ReadProjectEnvs(r) \/ ConnectEnv(r)
               /\ req'[r].at = "targetEnvs" => ReadFeatureEnvs(r)
               /\ req'[r].at = "getRow" => CompareEnvs(r)
               /\ req'[r].at = "writeRow" => GetRow(r)
               /\ req'[r].at = "moveStrategies" => WriteRow(r)
               /\ req'[r].at = "connectFeatures" => ReadFeatures(r)
               /\ req'[r].at = "disconnectProject" => DisconnectFeatures(r)
  <1>1. req \in [Requests -> Request] /\ req[r] \in Fields
    BY DEF TypeOK, Request
  <1> DEFINE Onto(step) == /\ req'[r].at = step
                          /\ req'[r].op = req[r].op
                          /\ req'[r].project = req[r].project
  <1>2. ASSUME req'[r] = Idle PROVE Handler(r)'
    BY <1>2 DEF Handler, Idle
  <1> USE DEF Fields, At, Goto, Finish
  <1>3. CASE Fail(r)
    BY <1>1, <1>2, <1>3 DEF Fail
  <1>4. CASE InsertStrategy(r)
    <2>1. Onto("hasEnvironment") \/ req'[r] = Idle
      BY <1>1, <1>4 DEF InsertStrategy, AfterInsert
    <2>2. req[r].at = "insertStrategy"
      BY <1>4 DEF InsertStrategy
    <2>3. QED
      BY <1>2, <1>4, <2>1, <2>2 DEF Handler, FirstSteps
  <1>5. CASE DeleteStrategyRow(r)
    <2>1. Onto("countStrategies") \/ req'[r] = Idle
      BY <1>1, <1>5 DEF DeleteStrategyRow
    <2>2. req[r].at = "deleteStrategy"
      BY <1>5 DEF DeleteStrategyRow
    <2>3. QED
      BY <1>2, <1>5, <2>1, <2>2 DEF Handler, FirstSteps
  <1>6. CASE CountStrategies(r)
    <2>1. Onto("disable") \/ req'[r] = Idle
      BY <1>1, <1>6 DEF CountStrategies
    <2>2. req[r].at = "countStrategies"
      BY <1>6 DEF CountStrategies
    <2>3. QED
      BY <1>2, <1>6, <2>1, <2>2 DEF Handler, FirstSteps
  <1>7. CASE DisableEnvironment(r)
    BY <1>1, <1>2, <1>7 DEF DisableEnvironment
  <1>8. CASE IsEnvironmentEnabled(r)
    <2>1. Onto("hasEnvironment") \/ req'[r] = Idle
      BY <1>1, <1>8 DEF IsEnvironmentEnabled
    <2>2. req[r].at = "isEnabled"
      BY <1>8 DEF IsEnvironmentEnabled
    <2>3. QED
      BY <1>2, <1>8, <2>1, <2>2 DEF Handler, FirstSteps
  <1>9. CASE FeatureHasEnvironment(r)
    <2>1. Onto("stillHasEnvironment") \/ Onto("setEnabled") \/ req'[r] = Idle
      BY <1>1, <1>9 DEF FeatureHasEnvironment, AfterHasEnvironment
    <2>2. req[r].at = "hasEnvironment"
      BY <1>9 DEF FeatureHasEnvironment
    <2>3. QED
      BY <1>2, <1>9, <2>1, <2>2 DEF Handler, FirstSteps
  <1>10. CASE StillHasEnvironment(r)
    <2>1. Onto("readStrategies") \/ req'[r] = Idle
      BY <1>1, <1>10 DEF StillHasEnvironment
    <2>2. req[r].at = "stillHasEnvironment"
      BY <1>10 DEF StillHasEnvironment
    <2>3. QED
      BY <1>2, <1>10, <2>1, <2>2 DEF Handler, FirstSteps
  <1>11. CASE ReadStrategies(r)
    <2>1. Onto("setEnabled") \/ req'[r] = Idle
      BY <1>1, <1>11 DEF ReadStrategies
    <2>2. req[r].at = "readStrategies"
      BY <1>11 DEF ReadStrategies
    <2>3. QED
      BY <1>2, <1>11, <2>1, <2>2 DEF Handler, FirstSteps
  <1>12. CASE SetEnvironmentEnabledStatus(r)
    BY <1>1, <1>2, <1>12 DEF SetEnvironmentEnabledStatus
  <1>13. CASE InsertFeature(r)
    <2>1. Onto("readProjectEnvs") \/ req'[r] = Idle
      BY <1>1, <1>13 DEF InsertFeature
    <2>2. req[r].at = "insertFeature"
      BY <1>13 DEF InsertFeature
    <2>3. QED
      BY <1>2, <1>13, <2>1, <2>2 DEF Handler, FirstSteps
  <1>14. CASE ReadProjectEnvs(r)
    <2>1. Onto("connectEnv") \/ req'[r] = Idle
      BY <1>1, <1>14 DEF ReadProjectEnvs
    <2>2. req[r].at = "readProjectEnvs"
      BY <1>14 DEF ReadProjectEnvs
    <2>3. QED
      BY <1>2, <1>14, <2>1, <2>2 DEF Handler, FirstSteps
  <1>15. CASE ConnectEnv(r)
    <2>1. Onto("connectEnv") \/ req'[r] = Idle
      BY <1>1, <1>15 DEF ConnectEnv
    <2>2. req[r].at = "connectEnv"
      BY <1>15 DEF ConnectEnv
    <2>3. QED
      BY <1>2, <1>15, <2>1, <2>2 DEF Handler, FirstSteps
  <1>16. CASE DeleteFeatureRow(r)
    BY <1>1, <1>2, <1>16 DEF DeleteFeatureRow
  <1>17. CASE WriteRow(r)
    <2>1. \/ Onto("moveStrategies") /\ req[r].op = "changeProject"
          \/ Onto("removeAll") /\ req[r].op = "legacyUpdate"
          \/ req'[r] = Idle
      BY <1>1, <1>17 DEF WriteRow, AfterWriteRow
    <2>2. req[r].at = "writeRow"
      BY <1>17 DEF WriteRow
    <2>3. QED
      BY <1>2, <1>17, <2>1, <2>2 DEF Handler, FirstSteps
  <1>18. CASE RemoveAllStrategies(r)
    <2>1. Onto("checkContext") \/ Onto("hasEnvironment") \/ req'[r] = Idle
      BY <1>1, <1>18 DEF RemoveAllStrategies
    <2>2. req[r].at = "removeAll"
      BY <1>18 DEF RemoveAllStrategies
    <2>3. QED
      BY <1>2, <1>18, <2>1, <2>2 DEF Handler, FirstSteps
  <1>19. CASE CheckContext(r)
    <2>1. Onto("insertStrategy") \/ req'[r] = Idle
      BY <1>1, <1>19 DEF CheckContext
    <2>2. req[r].at = "checkContext"
      BY <1>19 DEF CheckContext
    <2>3. QED
      BY <1>2, <1>19, <2>1, <2>2 DEF Handler, FirstSteps
  <1>20. CASE ReadFeatureEnvs(r)
    <2>1. Onto("targetEnvs") \/ req'[r] = Idle
      BY <1>1, <1>20 DEF ReadFeatureEnvs
    <2>2. req[r].at = "featureEnvs"
      BY <1>20 DEF ReadFeatureEnvs
    <2>3. QED
      BY <1>2, <1>20, <2>1, <2>2 DEF Handler, FirstSteps
  <1>21. CASE CompareEnvs(r)
    <2>1. Onto("getRow") \/ req'[r] = Idle
      BY <1>1, <1>21 DEF CompareEnvs
    <2>2. req[r].at = "targetEnvs"
      BY <1>21 DEF CompareEnvs
    <2>3. QED
      BY <1>2, <1>21, <2>1, <2>2 DEF Handler, FirstSteps
  <1>22. CASE GetRow(r)
    <2>1. Onto("writeRow") \/ req'[r] = Idle
      BY <1>1, <1>22 DEF GetRow
    <2>2. req[r].at = "getRow"
      BY <1>22 DEF GetRow
    <2>3. QED
      BY <1>2, <1>22, <2>1, <2>2 DEF Handler, FirstSteps
  <1>23. CASE MoveStrategies(r)
    BY <1>1, <1>2, <1>23 DEF MoveStrategies
  <1>24. CASE ReadFeatures(r)
    <2>1. Onto("connectFeatures") \/ req'[r] = Idle
      BY <1>1, <1>24 DEF ReadFeatures
    <2>2. req[r].at = "readFeatures"
      BY <1>24 DEF ReadFeatures
    <2>3. QED
      BY <1>2, <1>24, <2>1, <2>2 DEF Handler, FirstSteps
  <1>25. CASE ConnectFeatures(r)
    BY <1>1, <1>2, <1>25 DEF ConnectFeatures
  <1>26. CASE DisconnectFeatures(r)
    <2>1. Onto("disconnectProject") \/ req'[r] = Idle
      BY <1>1, <1>26 DEF DisconnectFeatures
    <2>2. req[r].at = "disconnectFeatures"
      BY <1>26 DEF DisconnectFeatures
    <2>3. QED
      BY <1>2, <1>26, <2>1, <2>2 DEF Handler, FirstSteps
  <1>27. CASE DisconnectProject(r)
    BY <1>1, <1>2, <1>27 DEF DisconnectProject
  <1>28. QED
    BY <1>3, <1>4, <1>5, <1>6, <1>7, <1>8, <1>9, <1>10, <1>11, <1>12, <1>13,
       <1>14, <1>15, <1>16, <1>17, <1>18, <1>19, <1>20, <1>21, <1>22, <1>23,
       <1>24, <1>25, <1>26, <1>27 DEF Continue

Handlers == \A r \in Requests : Handler(r)

LEMMA HandlersStep == TypeOK /\ Handlers /\ [Next]_vars => Handlers'
  <1> SUFFICES ASSUME TypeOK, Handlers, [Next]_vars PROVE Handlers'
    OBVIOUS
  <1>1. CASE UNCHANGED vars
    BY <1>1 DEF vars, Handlers, Handler
  <1>2. ASSUME NEW r \in Requests, Call(r) \/ Continue(r) \/ Fail(r)
        PROVE  Handlers'
    <2>1. Handler(r)'
      BY <1>2, CallSuccessor, ContinueSuccessor DEF Handlers
    <2>2. ASSUME NEW q \in Requests \ {r} PROVE Handler(q)'
      BY <1>2, OthersKeep DEF Handlers, Handler
    <2>3. QED
      BY <2>1, <2>2 DEF Handlers
  <1>3. QED
    BY <1>1, <1>2 DEF Next

LEMMA HandlersCorrect == Spec => []Handlers
  <1>1. Init => Handlers
    BY DEF Init, Handlers, Handler, Idle
  <1>2. QED
    BY <1>1, HandlersStep, TypeCorrect, PTL DEF Spec

-----------------------------------------------------------------------------
(* A project keeps an environment.                                         *)

\* No two requests remove environments from one project at a time.
OneRemoval ==
    \A r, q \in Requests :
        (/\ req[r].op = "removeEnvironment"
         /\ req[q].op = "removeEnvironment"
         /\ req[r].project = req[q].project) => r = q

\* What the check of removeEnvironment has found is still there.
Leaves(r) ==
    req[r].at \in {"disconnectFeatures", "disconnectProject"} =>
        \E e \in Envs : <<req[r].project, e>> \in projectEnvs /\ e # req[r].env

LEMMA OtherElement ==
  ASSUME NEW S, IsFiniteSet(S), Cardinality(S) > 1, NEW x
  PROVE  \E y \in S : y # x
  <1> SUFFICES ASSUME S \subseteq {x} PROVE FALSE
    OBVIOUS
  <1>1. Cardinality({x}) = 1 /\ IsFiniteSet({x})
    BY FS_Singleton
  <1>2. Cardinality(S) <= Cardinality({x})
    BY <1>1, FS_Subset
  <1>3. Cardinality(S) \in Nat
    BY FS_CardinalityType
  <1>4. QED
    BY <1>1, <1>2, <1>3

\* Only removeEnvironment unlinks an environment from a project.
LEMMA ProjectEnvsShrink ==
  ASSUME NEW r \in Requests, Call(r) \/ Continue(r) \/ Fail(r)
  PROVE  \A row \in projectEnvs :
            \/ row \in projectEnvs'
            \/ DisconnectProject(r) /\ row = <<req[r].project, req[r].env>>
  <1>1. CASE DisconnectProject(r)
    BY <1>1 DEF DisconnectProject
  <1>2. Writes(r) => projectEnvs \subseteq projectEnvs' \/ DisconnectProject(r)
    BY DEF Writes, CreateStrategy, LegacyUpdate, Archive, Revive, AddEnvironment,
       InsertStrategy, DeleteStrategyRow, DisableEnvironment,
       SetEnvironmentEnabledStatus, InsertFeature, ConnectEnv, DeleteFeatureRow,
       WriteRow, RemoveAllStrategies, MoveStrategies, ConnectFeatures, DisconnectFeatures
  <1>3. UNCHANGED tables => projectEnvs \subseteq projectEnvs'
    BY DEF tables
  <1>4. QED
    BY <1>1, <1>2, <1>3, WritesOrNot

LEMMA LeavesStep ==
  ASSUME TypeOK, TypeOK', Handlers, OneRemoval,
         NEW r \in Requests, Call(r) \/ Continue(r) \/ Fail(r),
         NEW q \in Requests, Leaves(q)
  PROVE  Leaves(q)'
  <1> SUFFICES ASSUME req'[q].at \in {"disconnectFeatures", "disconnectProject"}
               PROVE  \E e \in Envs : <<req'[q].project, e>> \in projectEnvs' /\ e # req'[q].env
    BY DEF Leaves
  <1>1. req \in [Requests -> Request]
    BY DEF TypeOK
  <1>2. CASE q # r
    <2>1. req'[q] = req[q]
      BY <1>2, OthersKeep
    <2>2. PICK e \in Envs : <<req[q].project, e>> \in projectEnvs /\ e # req[q].env
      BY <2>1 DEF Leaves
    <2>3. ~(DisconnectProject(r) /\ req[r].project = req[q].project)
      BY <1>2, <2>1 DEF DisconnectProject, At, OneRemoval, Handlers, Handler
    <2>4. QED
      BY <2>1, <2>2, <2>3, ProjectEnvsShrink
  <1>3. CASE q = r /\ Call(r)
    <2>1. RemoveEnvironment(r)
      BY <1>3, CallSuccessor DEF FirstSteps
    <2>2. PICK e \in Envs, p \in Projects :
            /\ HasOtherEnvs(p)
            /\ Begin(r, "removeEnvironment", "disconnectFeatures", None, e, p, FALSE, None)
            /\ UNCHANGED tables
      BY <2>1 DEF RemoveEnvironment
    <2>3. req'[r].project = p /\ req'[r].env = e /\ projectEnvs' = projectEnvs
      BY <1>1, <2>2 DEF Begin, tables
    <2>4. IsFiniteSet(EnvsOfProject(p))
      BY FS_Subset, ConstantsAssumption DEF EnvsOfProject
    <2>5. \E y \in EnvsOfProject(p) : y # e
      BY <2>2, <2>4, OtherElement DEF HasOtherEnvs
    <2>6. QED
      BY <1>3, <2>3, <2>5 DEF EnvsOfProject
  <1>4. CASE q = r /\ (Continue(r) \/ Fail(r))
    <2>1. DisconnectFeatures(r) /\ req'[r].project = req[r].project
      BY <1>4, ContinueSuccessor DEF FirstSteps, Idle, Handlers
    <2>2. req'[r].env = req[r].env
      BY <1>4, ContinueShape DEF Idle
    <2>3. QED
      BY <1>4, <2>1, <2>2 DEF DisconnectFeatures, At, Leaves
  <1>5. QED
    BY <1>2, <1>3, <1>4

KeepInv == ProjectKeepsEnvironment /\ \A r \in Requests : Leaves(r)

LEMMA KeepStep == TypeOK /\ TypeOK' /\ Handlers /\ OneRemoval /\ KeepInv /\ [Next]_vars => KeepInv'
  <1> SUFFICES ASSUME TypeOK, TypeOK', Handlers, OneRemoval, KeepInv, [Next]_vars
               PROVE  KeepInv'
    OBVIOUS
  <1>1. CASE UNCHANGED vars
    BY <1>1 DEF vars, KeepInv, Leaves, ProjectKeepsEnvironment, EnvsOfProject
  <1>2. ASSUME NEW r \in Requests, Call(r) \/ Continue(r) \/ Fail(r)
        PROVE  KeepInv'
    <2>1. \A q \in Requests : Leaves(q)'
      BY <1>2, LeavesStep DEF KeepInv
    <2>2. ASSUME NEW p \in Projects
          PROVE  \E e \in Envs : <<p, e>> \in projectEnvs'
      <3>1. CASE DisconnectProject(r) /\ req[r].project = p
        <4>1. PICK e \in Envs : <<p, e>> \in projectEnvs /\ e # req[r].env
          BY <3>1 DEF DisconnectProject, At, KeepInv, Leaves
        <4>2. QED
          BY <1>2, <4>1, ProjectEnvsShrink
      <3>2. CASE ~(DisconnectProject(r) /\ req[r].project = p)
        <4>1. PICK e \in Envs : <<p, e>> \in projectEnvs
          BY DEF KeepInv, ProjectKeepsEnvironment, EnvsOfProject
        <4>2. QED
          BY <1>2, <3>2, <4>1, ProjectEnvsShrink
      <3>3. QED
        BY <3>1, <3>2
    <2>3. QED
      BY <2>1, <2>2 DEF KeepInv, ProjectKeepsEnvironment, EnvsOfProject
  <1>3. QED
    BY <1>1, <1>2 DEF Next

LEMMA KeepInit == Init => KeepInv
  BY ConstantsAssumption DEF Init, KeepInv, Leaves, ProjectKeepsEnvironment, EnvsOfProject, Idle

\* A project keeps an environment as long as no two requests remove
\* environments from it at a time: the only gap in the check of
\* removeEnvironmentFromProject is between two removals, whatever else runs
\* next to them and whatever breaks off.
THEOREM LastEnvironmentKept == Spec /\ []OneRemoval => []ProjectKeepsEnvironment
  <1>1. KeepInv => ProjectKeepsEnvironment
    BY DEF KeepInv
  <1>2. QED
    BY <1>1, KeepInit, KeepStep, TypeCorrect, HandlersCorrect, PTL DEF Spec

-----------------------------------------------------------------------------
(* The project that a strategy records is its feature's.                   *)

\* While a request moves or deletes a feature, no other works on it.
OneMove ==
    \A r, q \in Requests :
        (/\ req[r].op \in {"changeProject", "deleteFeature"}
         /\ req[q].feature = req[r].feature) => r = q

\* The statements that write the project their request has read.
HoldsHome(r) ==
    \/ req[r].at \in {"insertStrategy", "moveStrategies"}
    \/ (req[r].at = "writeRow" /\ req[r].op # "changeProject")

Home(r) == HoldsHome(r) => project[req[r].feature] = req[r].project

\* A strategy's project is its feature's, or a request is about to move it.
AtHome(s) ==
    \/ s.project = project[s.feature]
    \/ \E r \in Requests : At(r, "moveStrategies") /\ req[r].feature = s.feature

HomeInv ==
    /\ \A r \in Requests : Home(r)
    /\ \A s \in strategies : AtHome(s)

\* Three statements write features.project.
LEMMA ProjectWrites ==
  ASSUME TypeOK, Handlers, HomeInv, NEW r \in Requests, Call(r) \/ Continue(r) \/ Fail(r),
         NEW f \in Features
  PROVE  \/ project'[f] = project[f]
         \/ /\ InsertFeature(r) /\ ~Exists(f) /\ strategies' = strategies
         \/ /\ req[r].op \in {"changeProject", "deleteFeature"}
            /\ f = req[r].feature
            /\ DeleteFeatureRow(r) \/ (WriteRow(r) /\ req[r].op = "changeProject")
  <1>1. project \in [Features -> Projects \cup {None}]
    BY DEF TypeOK
  <1>2. CASE InsertFeature(r)
    BY <1>1, <1>2 DEF InsertFeature, Exists
  <1>3. CASE DeleteFeatureRow(r)
    <2>1. req[r].op = "deleteFeature"
      BY <1>3 DEF DeleteFeatureRow, Handlers, Handler, At
    <2>2. f = req[r].feature \/ project'[f] = project[f]
      BY <1>1, <1>3 DEF DeleteFeatureRow
    <2>3. QED
      BY <1>3, <2>1, <2>2
  <1>4. CASE WriteRow(r)
    <2>1. f = req[r].feature \/ project'[f] = project[f]
      BY <1>1, <1>4 DEF WriteRow
    <2>2. CASE req[r].op # "changeProject"
      <3>1. project[req[r].feature] = req[r].project
        BY <1>4, <2>2 DEF WriteRow, At, HomeInv, Home, HoldsHome
      <3>2. project'[f] = project[f]
        BY <1>1, <1>4, <2>1, <3>1 DEF WriteRow
      <3>3. QED
        BY <3>2
    <2>3. QED
      BY <1>4, <2>1, <2>2
  <1>5. Writes(r) => \/ project' = project \/ InsertFeature(r)
                     \/ DeleteFeatureRow(r) \/ WriteRow(r)
    BY DEF Writes, CreateStrategy, LegacyUpdate, Archive, Revive, AddEnvironment,
       InsertStrategy, DeleteStrategyRow, DisableEnvironment,
       SetEnvironmentEnabledStatus, ConnectEnv, RemoveAllStrategies,
       MoveStrategies, ConnectFeatures, DisconnectFeatures, DisconnectProject
  <1>6. UNCHANGED tables => project' = project
    BY DEF tables
  <1>7. QED
    BY <1>2, <1>3, <1>4, <1>5, <1>6, WritesOrNot

LEMMA HomeStep ==
  ASSUME TypeOK, TypeOK', Handlers, OneMove, OneMove', HomeInv,
         NEW r \in Requests, Call(r) \/ Continue(r) \/ Fail(r),
         NEW q \in Requests
  PROVE  Home(q)'
  <1> SUFFICES ASSUME \/ req'[q].at \in {"insertStrategy", "moveStrategies"}
                      \/ (req'[q].at = "writeRow" /\ req'[q].op # "changeProject")
               PROVE  project'[req'[q].feature] = req'[q].project
    BY DEF Home, HoldsHome
  <1>1. req \in [Requests -> Request] /\ req[r] \in Fields /\ req[q] \in Fields
    BY DEF TypeOK, Request
  <1>2. CASE q # r
    <2>1. req'[q] = req[q]
      BY <1>2, OthersKeep
    <2>2. project[req[q].feature] = req[q].project
      BY <2>1 DEF HomeInv, Home, HoldsHome
    <2>3. req[q].feature \in Features /\ req[q].project \in Projects
      BY <1>1, <2>1 DEF Request, FeatureSteps, ProjectSteps, Steps
    <2>4. Exists(req[q].feature)
      BY <2>2, <2>3, ConstantsAssumption DEF Exists
    <2>5. project'[req[q].feature] = project[req[q].feature]
      BY <1>2, <2>3, <2>4, ProjectWrites DEF OneMove
    <2>6. QED
      BY <2>1, <2>2, <2>5
  <1>3. CASE q = r /\ Call(r)
    <2>1. CreateStrategy(r) \/ UpdateStale(r) \/ UpdateFeature(r) \/ LegacyUpdate(r)
      BY <1>3, CallSuccessor DEF FirstSteps
    <2>2. project'[req'[r].feature] = req'[r].project
      BY <1>1, <2>1 DEF CreateStrategy, UpdateStale, UpdateFeature, LegacyUpdate, Begin, tables
    <2>3. QED
      BY <1>3, <2>2
  <1>4. CASE q = r /\ (Continue(r) \/ Fail(r))
    <2>1. /\ \/ CheckContext(r)
             \/ GetRow(r) /\ req[r].op # "changeProject"
             \/ WriteRow(r) /\ req'[r].at = "moveStrategies"
          /\ req'[r].project = req[r].project
          /\ req'[r].feature = req[r].feature
      BY <1>4, ContinueSuccessor, ContinueShape DEF Idle, Handlers
    <2>2. CASE CheckContext(r)
      <3>1. project[req[r].feature] = req[r].project /\ project' = project
        BY <1>1, <1>4, <2>2 DEF CheckContext, Finish, Idle, tables
      <3>2. QED
        BY <1>4, <2>1, <3>1
    <2>3. CASE GetRow(r) /\ req[r].op # "changeProject"
      BY <2>3 DEF GetRow, At, Handlers, Handler
    <2>4. CASE WriteRow(r) /\ req'[r].at = "moveStrategies"
      <3>1. req[r].feature \in Features /\ project \in [Features -> Projects \cup {None}]
        BY <1>1, <2>4 DEF WriteRow, At, Request, FeatureSteps, Steps, TypeOK
      <3>2. Exists(req[r].feature)
        BY <1>1, <2>4 DEF WriteRow, Finish, Idle
      <3>3. project'[req[r].feature] = req[r].project
        BY <2>4, <3>1, <3>2 DEF WriteRow
      <3>4. QED
        BY <1>4, <2>1, <3>3
    <2>5. QED
      BY <2>1, <2>2, <2>3, <2>4
  <1>5. QED
    BY <1>2, <1>3, <1>4

\* Where a strategy in the table comes from.
LEMMA StrategyOrigin ==
  ASSUME TypeOK, NEW r \in Requests, Call(r) \/ Continue(r) \/ Fail(r),
         NEW t \in strategies'
  PROVE  \/ t \in strategies /\ ~(MoveStrategies(r) /\ t.feature = req[r].feature)
         \/ InsertStrategy(r) /\ t.feature = req[r].feature /\ t.project = req[r].project
         \/ MoveStrategies(r) /\ t.feature = req[r].feature /\ t.project = req[r].project
  <1>1. strategies \subseteq Strategy
    BY DEF TypeOK
  <1>2. CASE InsertStrategy(r)
    BY <1>2 DEF InsertStrategy, MoveStrategies, At
  <1>3. CASE MoveStrategies(r)
    <2>1. PICK s \in strategies : t = Moved(s, req[r].feature, req[r].project)
      BY <1>3 DEF MoveStrategies
    <2>2. s \in Strategy
      BY <1>1
    <2>3. CASE s.feature = req[r].feature
      BY <1>3, <2>1, <2>2, <2>3 DEF Moved, Strategy
    <2>4. CASE s.feature # req[r].feature
      BY <1>3, <2>1, <2>4 DEF Moved
    <2>5. QED
      BY <2>3, <2>4
  <1>4. CASE Call(r)
    BY <1>4, CallShape DEF MoveStrategies, At, Idle
  <1>5. Writes(r) => \/ strategies' \subseteq strategies \/ Call(r)
                     \/ InsertStrategy(r) \/ MoveStrategies(r)
    BY DEF Writes, Call, DeleteStrategyRow, DisableEnvironment,
           SetEnvironmentEnabledStatus, InsertFeature, ConnectEnv,
           DeleteFeatureRow, CascadedStrategies, WriteRow, RemoveAllStrategies,
           ConnectFeatures, DisconnectFeatures, DisconnectProject
  <1>6. UNCHANGED tables => strategies' \subseteq strategies
    BY DEF tables
  <1>7. QED
    BY <1>2, <1>3, <1>4, <1>5, <1>6, WritesOrNot

LEMMA AtHomeStep ==
  ASSUME TypeOK, TypeOK', Handlers, OneMove, HomeInv, "fail" \notin Ops,
         NEW r \in Requests, Call(r) \/ Continue(r) \/ Fail(r),
         NEW t \in strategies'
  PROVE  \/ t.project = project'[t.feature]
         \/ \E q \in Requests : req'[q].at = "moveStrategies" /\ req'[q].feature = t.feature
  <1>1. /\ req \in [Requests -> Request] /\ req[r] \in Fields
        /\ project \in [Features -> Projects \cup {None}]
        /\ t.feature \in Features
    BY DEF TypeOK, Request, Strategy
  <1>2. CASE /\ InsertStrategy(r) \/ MoveStrategies(r)
             /\ t.feature = req[r].feature /\ t.project = req[r].project
    BY <1>2 DEF InsertStrategy, MoveStrategies, At, HomeInv, Home, HoldsHome
  <1>3. CASE t \in strategies /\ ~(MoveStrategies(r) /\ t.feature = req[r].feature)
    <2>1. ASSUME t.project = project[t.feature], project'[t.feature] # project[t.feature]
          PROVE  req'[r].at = "moveStrategies" /\ req'[r].feature = t.feature
      <3>1. Exists(t.feature)
        BY <1>3 DEF TypeOK
      <3>2. /\ t.feature = req[r].feature
            /\ DeleteFeatureRow(r) \/ (WriteRow(r) /\ req[r].op = "changeProject")
        BY <1>1, <2>1, <3>1, ProjectWrites
      <3>3. CASE DeleteFeatureRow(r)
        <4>1. strategies' = CascadedStrategies(req[r].feature)
          BY <2>1, <3>3 DEF DeleteFeatureRow
        <4>2. QED
          BY <3>2, <4>1 DEF CascadedStrategies
      <3>4. CASE WriteRow(r) /\ req[r].op = "changeProject"
        <4>1. AfterWriteRow(r)
          BY <2>1, <3>4 DEF WriteRow
        <4>2. QED
          BY <1>1, <3>2, <3>4, <4>1 DEF AfterWriteRow, Goto, Fields
      <3>5. QED
        BY <3>2, <3>3, <3>4
    <2>2. ASSUME NEW q \in Requests, At(q, "moveStrategies"), req[q].feature = t.feature
          PROVE  req'[q].at = "moveStrategies" /\ req'[q].feature = t.feature
      <3>1. CASE q # r
        BY <2>2, <3>1, OthersKeep DEF At
      <3>2. CASE q = r
        <4>1. ~Call(r) /\ ~Fail(r)
          BY <2>2, <3>2, CallShape DEF Idle, At, Fail
        <4>2. MoveStrategies(r)
          BY <2>2, <3>2, <4>1 DEF Continue, At, InsertStrategy, DeleteStrategyRow,
             CountStrategies, DisableEnvironment, IsEnvironmentEnabled,
             FeatureHasEnvironment, StillHasEnvironment, ReadStrategies,
             SetEnvironmentEnabledStatus, InsertFeature, ReadProjectEnvs, ConnectEnv,
             DeleteFeatureRow, WriteRow, RemoveAllStrategies, CheckContext,
             ReadFeatureEnvs, CompareEnvs, GetRow, ReadFeatures,
             ConnectFeatures, DisconnectFeatures, DisconnectProject
        <4>3. QED
          BY <1>3, <2>2, <3>2, <4>2
      <3>3. QED
        BY <3>1, <3>2
    <2>3. AtHome(t)
      BY <1>3 DEF HomeInv
    <2>4. QED
      BY <2>1, <2>2, <2>3 DEF AtHome
  <1>4. QED
    BY <1>2, <1>3, StrategyOrigin

LEMMA HomeNext ==
  ASSUME TypeOK, TypeOK', Handlers, OneMove, OneMove', HomeInv, "fail" \notin Ops,
         [Next]_vars
  PROVE  HomeInv'
  <1>1. CASE UNCHANGED vars
    BY <1>1 DEF vars, HomeInv, Home, HoldsHome, AtHome, At
  <1>2. ASSUME NEW r \in Requests, Call(r) \/ Continue(r) \/ Fail(r)
        PROVE  HomeInv'
    <2>1. \A q \in Requests : Home(q)'
      BY <1>2, HomeStep
    <2>2. \A t \in strategies' :
            \/ t.project = project'[t.feature]
            \/ \E q \in Requests : req'[q].at = "moveStrategies" /\ req'[q].feature = t.feature
      BY <1>2, AtHomeStep
    <2>3. (\A t \in strategies : AtHome(t))'
      BY <2>2 DEF AtHome, At
    <2>4. QED
      BY <2>1, <2>3 DEF HomeInv
  <1>3. QED
    BY <1>1, <1>2 DEF Next

LEMMA HomeInit == Init => HomeInv
  BY DEF Init, HomeInv, Home, HoldsHome, Idle

LEMMA HomeCorrect ==
    "fail" \notin Ops => (Spec /\ []OneMove => []HomeInv)
  <1> SUFFICES ASSUME "fail" \notin Ops PROVE Spec /\ []OneMove => []HomeInv
    OBVIOUS
  <1>1. TypeOK /\ TypeOK' /\ Handlers /\ OneMove /\ OneMove' /\ HomeInv /\ [Next]_vars => HomeInv'
    BY HomeNext
  <1>2. QED
    BY <1>1, HomeInit, TypeCorrect, HandlersCorrect, PTL DEF Spec

\* The project that a strategy records is its feature's whenever no request
\* is in progress, provided no request breaks off and no other request works
\* on a feature while it is moved to another project or deleted.  Everything
\* else may interleave: creations, deletions and updates of strategies, whole-
\* row updates, the legacy endpoint, and requests on other features.
THEOREM StrategyFollowsFeature ==
    "fail" \notin Ops => (Spec /\ []OneMove => []StrategyInFeatureProject)
  <1>1. HomeInv => StrategyInFeatureProject
    BY DEF HomeInv, AtHome, At, StrategyInFeatureProject, Quiescent, Idle
  <1>2. QED
    BY <1>1, HomeCorrect, PTL

-----------------------------------------------------------------------------
(* A feature lives in the environments of its project.                     *)

\* The operations that write project_environments or feature_environments,
\* or the project that they are compared by.
Linkers == {"createFeature", "deleteFeature", "changeProject",
            "addEnvironment", "removeEnvironment"}

\* One such request is in progress at a time.
OneLinker ==
    \A r, q \in Requests : req[r].op \in Linkers /\ req[q].op \in Linkers => r = q

FeatureIn(f, e) == <<f, e>> \in featureEnvs

ProjectIn(p, e) == <<p, e>> \in projectEnvs

\* The feature f has the environments of project p.
SameEnvs(f, p) == \A e \in Envs : FeatureIn(f, e) <=> ProjectIn(p, e)

\* The features of project p have all its environments except d.
AllBut(p, d) ==
    \A f \in Features, e \in Envs :
        project[f] = p => (FeatureIn(f, e) <=> (ProjectIn(p, e) /\ e # d))

\* What a request knows at each of its statements.
CreateLinks(q) ==
    /\ q.at = "insertFeature" => ~Exists(q.feature)
    /\ q.at \in {"readProjectEnvs", "connectEnv"} => project[q.feature] = q.project
    /\ q.at = "readProjectEnvs" => \A e \in Envs : ~FeatureIn(q.feature, e)
    /\ q.at = "connectEnv" =>
          \A e \in Envs : ProjectIn(q.project, e) <=>
                             (FeatureIn(q.feature, e) \/ <<q.feature, e>> \in q.rows)

MoveLinks(q) ==
    /\ q.at = "targetEnvs" =>
          \A e \in Envs : FeatureIn(q.feature, e) <=> <<q.feature, e>> \in q.rows
    /\ q.at = "getRow" => SameEnvs(q.feature, q.project)
    /\ q.at = "writeRow" /\ q.op = "changeProject" => SameEnvs(q.feature, q.project)

EnvLinks(q) ==
    /\ q.at \in {"readFeatures", "connectFeatures"} => ProjectIn(q.project, q.env)
    /\ q.at \in {"readFeatures", "connectFeatures", "disconnectProject"} =>
          AllBut(q.project, q.env)
    /\ q.at = "connectFeatures" => q.rows = FeaturesOf(q.project) \X {q.env}

Links(r) == CreateLinks(req[r]) /\ MoveLinks(req[r]) /\ EnvLinks(req[r])

\* A request is about to give the feature the environments of its project.
InHand(r, f) ==
    \/ req[r].at \in {"readProjectEnvs", "connectEnv"} /\ req[r].feature = f
    \/ /\ req[r].at \in {"readFeatures", "connectFeatures", "disconnectProject"}
       /\ project[f] = req[r].project

LinkInv ==
    /\ \A r \in Requests : Links(r)
    /\ \A f \in Features :
          Exists(f) => SameEnvs(f, project[f]) \/ \E r \in Requests : InHand(r, f)

\* Of a request that is no linker the invariant says nothing.
LEMMA NotLinking ==
  ASSUME NEW r \in Requests, Handler(r), req[r].op \notin Linkers
  PROVE  Links(r) /\ \A f \in Features : ~InHand(r, f)
  BY DEF Handler, Linkers, Links, CreateLinks, MoveLinks, EnvLinks, InHand

\* Only a linker's statements write what the invariant is about.
LEMMA LinkTables ==
  ASSUME TypeOK, TypeOK', Handlers, HomeInv,
         NEW r \in Requests, Call(r) \/ Continue(r) \/ Fail(r),
         req[r].op \notin Linkers, req'[r].op \notin Linkers
  PROVE  project' = project /\ projectEnvs' = projectEnvs /\ featureEnvs' = featureEnvs
  <1>1. Handler(r)
    BY DEF Handlers
  <1>2. ASSUME NEW f \in Features PROVE project'[f] = project[f]
    BY <1>1, ProjectWrites DEF Linkers, InsertFeature, Handler, At
  <1>3. project' = project
    BY <1>2 DEF TypeOK
  <1>4. ~AddEnvironment(r)
    <2>1. req \in [Requests -> Request]
      BY DEF TypeOK
    <2>2. AddEnvironment(r) => req'[r].op = "addEnvironment"
      BY <2>1 DEF AddEnvironment, Begin
    <2>3. QED
      BY <2>2 DEF Linkers
  <1>5. Writes(r) => projectEnvs' = projectEnvs /\ featureEnvs' = featureEnvs
    BY <1>1, <1>4 DEF Writes, At, Handler, Linkers, CreateStrategy, LegacyUpdate, Archive, Revive,
       InsertStrategy, DeleteStrategyRow, DisableEnvironment,
       SetEnvironmentEnabledStatus, InsertFeature, ConnectEnv, DeleteFeatureRow,
       WriteRow, RemoveAllStrategies, MoveStrategies, ConnectFeatures,
       DisconnectFeatures, DisconnectProject
  <1>6. UNCHANGED tables => projectEnvs' = projectEnvs /\ featureEnvs' = featureEnvs
    BY DEF tables
  <1>7. QED
    BY <1>3, <1>5, <1>6, WritesOrNot

\* Calls find every feature linked to the environments of its project, and
\* leave it so or, for a new environment, linked to all but that one.
LEMMA LinkCall ==
  ASSUME TypeOK, TypeOK', NEW r \in Requests, Call(r), req'[r].op \in Linkers,
         \A f \in Features : Exists(f) => SameEnvs(f, project[f])
  PROVE  /\ Links(r)'
         /\ \A f \in Features : Exists(f)' => SameEnvs(f, project[f])' \/ InHand(r, f)'
  <1>1. req \in [Requests -> Request]
    BY DEF TypeOK
  <1> USE DEF Linkers, Begin, Links, CreateLinks, MoveLinks, EnvLinks, InHand
  <1>2. CASE CreateFeature(r)
    BY <1>1, <1>2 DEF CreateFeature, tables, SameEnvs, FeatureIn, ProjectIn, Exists
  <1>3. CASE DeleteFeature(r)
    BY <1>1, <1>3 DEF DeleteFeature, tables, SameEnvs, FeatureIn, ProjectIn, Exists
  <1>4. CASE ChangeProject(r)
    BY <1>1, <1>4 DEF ChangeProject, tables, SameEnvs, FeatureIn, ProjectIn, Exists
  <1>5. CASE RemoveEnvironment(r)
    BY <1>1, <1>5 DEF RemoveEnvironment, tables, SameEnvs, FeatureIn, ProjectIn, Exists
  <1>6. CASE AddEnvironment(r)
    <2>1. PICK d \in Envs, p \in Projects :
            /\ <<p, d>> \notin projectEnvs
            /\ projectEnvs' = projectEnvs \cup {<<p, d>>}
            /\ Begin(r, "addEnvironment", "readFeatures", None, d, p, FALSE, None)
            /\ UNCHANGED <<project, archived, featureEnvs, enabled, strategies, issued>>
      BY <1>6 DEF AddEnvironment
    <2>2. req'[r].at = "readFeatures" /\ req'[r].env = d /\ req'[r].project = p
      BY <1>1, <2>1
    <2>3. AllBut(p, d)'
      BY <2>1, ConstantsAssumption DEF AllBut, SameEnvs, FeatureIn, ProjectIn, Exists, TypeOK
    <2>4. Links(r)'
      BY <2>1, <2>2, <2>3 DEF ProjectIn
    <2>5. ASSUME NEW f \in Features, Exists(f)'
          PROVE  SameEnvs(f, project[f])' \/ InHand(r, f)'
      BY <2>1, <2>2, <2>5 DEF SameEnvs, FeatureIn, ProjectIn, Exists
    <2>6. QED
      BY <2>4, <2>5
  <1>7. ~(Archive(r) \/ Revive(r))
    BY <1>1 DEF Archive, Revive, Idle
  <1>8. CASE CreateStrategy(r) \/ UpdateStale(r) \/ UpdateFeature(r) \/ LegacyUpdate(r)
    BY <1>1, <1>8 DEF CreateStrategy, UpdateStale, UpdateFeature, LegacyUpdate
  <1>9. CASE DeleteStrategy(r) \/ UpdateEnabled(r) \/ Toggle(r)
    <2>1. req'[r].op \in {"deleteStrategy", "updateEnabled", "toggle"}
      <3> HIDE DEF Linkers, Links, CreateLinks, MoveLinks, EnvLinks, InHand
      <3>1. CASE DeleteStrategy(r)
        BY <1>1, <3>1 DEF DeleteStrategy
      <3>2. CASE UpdateEnabled(r)
        BY <1>1, <3>2 DEF UpdateEnabled
      <3>3. CASE Toggle(r)
        BY <1>1, <3>3 DEF Toggle
      <3>4. QED
        BY <1>9, <3>1, <3>2, <3>3
    <2>2. QED
      BY <2>1
  <1>10. QED
    BY <1>2, <1>3, <1>4, <1>5, <1>6, <1>7, <1>8, <1>9 DEF Call

\* The rows of features and environments that a request remembers.
LEMMA RowsType ==
  ASSUME TypeOK, NEW r \in Requests
  PROVE  /\ req \in [Requests -> Request] /\ req[r] \in Fields
         /\ req[r].rows \subseteq Features \X Envs
         /\ req[r].at \in FeatureSteps => req[r].feature \in Features
         /\ req[r].at \in EnvSteps => req[r].env \in Envs
         /\ req[r].at \in ProjectSteps => req[r].project \in Projects
         /\ req[r].at = "connectEnv" => req[r].rows \subseteq {req[r].feature} \X Envs
  BY DEF TypeOK, Request, Fields

\* What createFeature does to the links.
LEMMA LinkCreate ==
  ASSUME TypeOK, TypeOK', NEW r \in Requests, Links(r),
         InsertFeature(r) \/ ReadProjectEnvs(r) \/ ConnectEnv(r),
         \A f \in Features : Exists(f) => SameEnvs(f, project[f]) \/ InHand(r, f)
  PROVE  /\ Links(r)'
         /\ \A f \in Features : Exists(f)' => SameEnvs(f, project[f])' \/ InHand(r, f)'
  <1>1. /\ req \in [Requests -> Request] /\ req[r] \in Fields
        /\ req[r].feature \in Features /\ req[r].project \in Projects
        /\ project \in [Features -> Projects \cup {None}]
    BY RowsType DEF TypeOK, InsertFeature, ReadProjectEnvs, ConnectEnv, At,
       FeatureSteps, ProjectSteps, Steps
  <1>2. featureEnvs \subseteq {f \in Features : Exists(f)} \X Envs
    BY DEF TypeOK
  <1> USE DEF Fields, At, Goto, Finish, Idle, Exists, FeatureIn, ProjectIn
  <1>3. CASE InsertFeature(r)
    <2>1. ~Exists(req[r].feature)
      BY <1>3 DEF InsertFeature, Links, CreateLinks
    <2>2. /\ project' = [project EXCEPT ![req[r].feature] = req[r].project]
          /\ projectEnvs' = projectEnvs /\ featureEnvs' = featureEnvs
          /\ req'[r] = [req[r] EXCEPT !.at = "readProjectEnvs"]
      BY <1>1, <1>3, <2>1 DEF InsertFeature
    <2>3. \A e \in Envs : ~FeatureIn(req[r].feature, e)
      BY <1>2, <2>1
    <2>4. Links(r)'
      BY <1>1, <2>2, <2>3 DEF Links, CreateLinks, MoveLinks, EnvLinks
    <2>5. ASSUME NEW f \in Features, Exists(f)'
          PROVE  SameEnvs(f, project[f])' \/ InHand(r, f)'
      <3>1. CASE f = req[r].feature
        BY <1>1, <2>2, <3>1 DEF InHand
      <3>2. CASE f # req[r].feature
        <4>1. Exists(f) /\ project'[f] = project[f] /\ ~InHand(r, f)
          BY <1>1, <1>3, <2>2, <2>5, <3>2 DEF InHand, InsertFeature
        <4>2. QED
          BY <2>2, <4>1 DEF SameEnvs
      <3>3. QED
        BY <3>1, <3>2
    <2>6. QED
      BY <2>4, <2>5
  <1>4. CASE ReadProjectEnvs(r)
    <2>1. /\ project' = project /\ projectEnvs' = projectEnvs /\ featureEnvs' = featureEnvs
          /\ req'[r] = [req[r] EXCEPT !.at = "connectEnv",
                                      !.rows = {req[r].feature} \X EnvsOfProject(req[r].project)]
      BY <1>1, <1>4 DEF ReadProjectEnvs, tables
    <2>2. /\ project[req[r].feature] = req[r].project
          /\ \A e \in Envs : ~FeatureIn(req[r].feature, e)
      BY <1>4 DEF ReadProjectEnvs, Links, CreateLinks
    <2>3. Links(r)'
      BY <1>1, <2>1, <2>2 DEF Links, CreateLinks, MoveLinks, EnvLinks, EnvsOfProject
    <2>4. ASSUME NEW f \in Features, Exists(f)'
          PROVE  SameEnvs(f, project[f])' \/ InHand(r, f)'
      <3>1. InHand(r, f) => InHand(r, f)'
        BY <1>1, <1>4, <2>1 DEF InHand, ReadProjectEnvs
      <3>2. QED
        BY <2>1, <2>4, <3>1 DEF SameEnvs
    <2>5. QED
      BY <2>3, <2>4
  <1>5. CASE ConnectEnv(r) /\ req[r].rows = {}
    <2>1. /\ project' = project /\ projectEnvs' = projectEnvs /\ featureEnvs' = featureEnvs
          /\ req'[r] = Idle
      BY <1>1, <1>5 DEF ConnectEnv
    <2>2. SameEnvs(req[r].feature, project[req[r].feature])
      BY <1>5 DEF ConnectEnv, Links, CreateLinks, SameEnvs
    <2>3. Links(r)'
      BY <2>1 DEF Links, CreateLinks, MoveLinks, EnvLinks
    <2>4. ASSUME NEW f \in Features, Exists(f)'
          PROVE  SameEnvs(f, project[f])'
      BY <1>5, <2>1, <2>2, <2>4 DEF SameEnvs, InHand, ConnectEnv
    <2>5. QED
      BY <2>3, <2>4
  <1>6. CASE ConnectEnv(r) /\ req[r].rows # {}
    <2>1. /\ project[req[r].feature] = req[r].project
          /\ \A e \in Envs : ProjectIn(req[r].project, e) <=>
                (FeatureIn(req[r].feature, e) \/ <<req[r].feature, e>> \in req[r].rows)
      BY <1>6 DEF ConnectEnv, Links, CreateLinks
    <2>2. Exists(req[r].feature)
      BY <1>1, <2>1, ConstantsAssumption
    <2>3. PICK row \in req[r].rows :
            /\ featureEnvs' = featureEnvs \cup {row}
            /\ req' = [req EXCEPT ![r].rows = @ \ {row}]
      BY <1>6, <2>2 DEF ConnectEnv
    <2>4. PICK d \in Envs : row = <<req[r].feature, d>>
      BY <1>6, RowsType DEF ConnectEnv
    <2>5. /\ project' = project /\ projectEnvs' = projectEnvs
          /\ req'[r] = [req[r] EXCEPT !.rows = @ \ {row}]
          /\ req[r].at = "connectEnv"
      BY <1>1, <1>6, <2>3 DEF ConnectEnv
    <2>6. Links(r)'
      BY <1>1, <2>1, <2>3, <2>4, <2>5 DEF Links, CreateLinks, MoveLinks, EnvLinks
    <2>7. ASSUME NEW f \in Features, Exists(f)'
          PROVE  SameEnvs(f, project[f])' \/ InHand(r, f)'
      <3>1. InHand(r, f) <=> f = req[r].feature
        BY <2>5 DEF InHand
      <3>2. InHand(r, f)' <=> f = req[r].feature
        BY <1>1, <2>5 DEF InHand
      <3>3. CASE f # req[r].feature
        BY <2>3, <2>4, <2>5, <2>7, <3>1, <3>3 DEF SameEnvs
      <3>4. QED
        BY <3>2, <3>3
    <2>8. QED
      BY <2>6, <2>7
  <1>7. QED
    BY <1>3, <1>4, <1>5, <1>6

\* What changeProject and deleteFeature do to the links.
LEMMA LinkMove ==
  ASSUME TypeOK, TypeOK', Handlers, NEW r \in Requests, Links(r),
         \/ ReadFeatureEnvs(r) \/ CompareEnvs(r) \/ GetRow(r) \/ MoveStrategies(r)
         \/ DeleteFeatureRow(r)
         \/ WriteRow(r) /\ req[r].op = "changeProject",
         \A f \in Features : Exists(f) => SameEnvs(f, project[f])
  PROVE  /\ Links(r)'
         /\ \A f \in Features : Exists(f)' => SameEnvs(f, project[f])'
  <1>1. /\ req \in [Requests -> Request] /\ req[r] \in Fields
        /\ req[r].rows \subseteq Features \X Envs
        /\ req[r].feature \in Features
        /\ project \in [Features -> Projects \cup {None}]
    BY RowsType DEF TypeOK, ReadFeatureEnvs, CompareEnvs, GetRow, MoveStrategies,
       DeleteFeatureRow, WriteRow, At, FeatureSteps, Steps
  <1> USE DEF Fields, At, Goto, Finish, Idle, Exists, FeatureIn, ProjectIn
  <1>2. ASSUME UNCHANGED <<project, projectEnvs, featureEnvs>>
        PROVE  \A f \in Features : Exists(f)' => SameEnvs(f, project[f])'
    BY <1>2 DEF SameEnvs
  <1>3. CASE ReadFeatureEnvs(r)
    <2>1. /\ UNCHANGED <<project, projectEnvs, featureEnvs>>
          /\ req'[r] = [req[r] EXCEPT !.at = "targetEnvs",
                           !.rows = {req[r].feature} \X EnvsOfFeature(req[r].feature)]
      BY <1>1, <1>3 DEF ReadFeatureEnvs, tables
    <2>2. Links(r)'
      BY <1>1, <2>1 DEF Links, CreateLinks, MoveLinks, EnvLinks, EnvsOfFeature
    <2>3. QED
      BY <1>2, <2>1, <2>2
  <1>4. CASE CompareEnvs(r)
    <2>1. UNCHANGED <<project, projectEnvs, featureEnvs>>
      BY <1>4 DEF CompareEnvs, tables
    <2>2. CASE CheckProjectsCompatibility(r)
      <3>1. req'[r] = [req[r] EXCEPT !.at = "getRow"] /\ req[r].at = "targetEnvs"
        BY <1>1, <1>4, <2>2 DEF CompareEnvs
      <3>2. SameEnvs(req[r].feature, req[r].project)
        BY <2>2, <3>1 DEF CheckProjectsCompatibility, EnvsOfProject, SameEnvs,
           Links, MoveLinks
      <3>3. Links(r)'
        BY <1>1, <2>1, <3>1, <3>2 DEF Links, CreateLinks, MoveLinks, EnvLinks, SameEnvs
      <3>4. QED
        BY <1>2, <2>1, <3>3
    <2>3. CASE ~CheckProjectsCompatibility(r)
      BY <1>1, <1>2, <1>4, <2>1, <2>3 DEF CompareEnvs, Links, CreateLinks, MoveLinks, EnvLinks
    <2>4. QED
      BY <2>2, <2>3
  <1>5. CASE GetRow(r)
    <2>1. UNCHANGED <<project, projectEnvs, featureEnvs>> /\ req[r].at = "getRow"
      BY <1>5 DEF GetRow, tables
    <2>2. \/ req'[r] = Idle
          \/ req'[r] = [req[r] EXCEPT !.at = "writeRow", !.rows = {},
                                      !.flag = req[r].feature \in archived]
      BY <1>1, <1>5 DEF GetRow
    <2>3. SameEnvs(req[r].feature, req[r].project)
      BY <2>1 DEF Links, MoveLinks
    <2>4. CASE req'[r] = Idle
      BY <1>2, <2>1, <2>4 DEF Links, CreateLinks, MoveLinks, EnvLinks
    <2>5. CASE req'[r] # Idle
      <3>1. /\ req'[r].at = "writeRow"
            /\ req'[r].feature = req[r].feature /\ req'[r].project = req[r].project
        BY <1>1, <2>2, <2>5
      <3>2. Links(r)'
        BY <2>1, <2>3, <3>1 DEF Links, CreateLinks, MoveLinks, EnvLinks, SameEnvs
      <3>3. QED
        BY <1>2, <2>1, <3>2
    <2>6. QED
      BY <2>4, <2>5
  <1>6. CASE MoveStrategies(r)
    BY <1>1, <1>2, <1>6 DEF MoveStrategies, Links, CreateLinks, MoveLinks, EnvLinks
  <1>7. CASE DeleteFeatureRow(r)
    <2>1. req'[r] = Idle /\ projectEnvs' = projectEnvs
      BY <1>1, <1>7 DEF DeleteFeatureRow
    <2>2. Links(r)'
      BY <2>1 DEF Links, CreateLinks, MoveLinks, EnvLinks
    <2>3. CASE req[r].feature \in archived
      BY <1>1, <1>7, <2>1, <2>2, <2>3, ConstantsAssumption DEF DeleteFeatureRow, SameEnvs
    <2>4. CASE req[r].feature \notin archived
      BY <1>2, <1>7, <2>1, <2>2, <2>4 DEF DeleteFeatureRow
    <2>5. QED
      BY <2>3, <2>4
  <1>8. CASE WriteRow(r) /\ req[r].op = "changeProject"
    <2>1. SameEnvs(req[r].feature, req[r].project)
      BY <1>8 DEF WriteRow, Links, MoveLinks
    <2>2. projectEnvs' = projectEnvs /\ featureEnvs' = featureEnvs
      BY <1>8 DEF WriteRow
    <2>3. /\ req'[r] = Idle \/ req'[r].at = "moveStrategies"
          /\ \/ project' = project
             \/ project' = [project EXCEPT ![req[r].feature] = req[r].project]
      BY <1>1, <1>8 DEF WriteRow, AfterWriteRow
    <2>4. Links(r)'
      BY <2>3 DEF Links, CreateLinks, MoveLinks, EnvLinks
    <2>5. ASSUME NEW f \in Features, Exists(f)'
          PROVE  SameEnvs(f, project[f])'
      BY <1>1, <2>1, <2>2, <2>3, <2>5 DEF SameEnvs
    <2>6. QED
      BY <2>4, <2>5
  <1>9. QED
    BY <1>3, <1>4, <1>5, <1>6, <1>7, <1>8

\* What addEnvironment and removeEnvironment do to the links.
LEMMA LinkEnvironment ==
  ASSUME TypeOK, TypeOK', NEW r \in Requests, Links(r),
         ReadFeatures(r) \/ ConnectFeatures(r) \/ DisconnectFeatures(r) \/ DisconnectProject(r),
         \A f \in Features : Exists(f) => SameEnvs(f, project[f]) \/ InHand(r, f)
  PROVE  /\ Links(r)'
         /\ \A f \in Features : Exists(f)' => SameEnvs(f, project[f])' \/ InHand(r, f)'
  <1>1. /\ req \in [Requests -> Request] /\ req[r] \in Fields
        /\ req[r].env \in Envs /\ req[r].project \in Projects
        /\ project \in [Features -> Projects \cup {None}]
    BY RowsType DEF TypeOK, ReadFeatures, ConnectFeatures, DisconnectFeatures,
       DisconnectProject, At, EnvSteps, ProjectSteps, Steps
  <1> USE DEF Fields, At, Goto, Finish, Idle, Exists, FeatureIn, ProjectIn
  <1>2. ASSUME NEW f \in Features, project[f] # req[r].project,
               req[r].at \in {"readFeatures", "connectFeatures", "disconnectFeatures",
                              "disconnectProject"}
        PROVE  ~InHand(r, f)
    BY <1>2 DEF InHand
  <1>3. CASE ReadFeatures(r)
    <2>1. /\ UNCHANGED <<project, projectEnvs, featureEnvs>> /\ req[r].at = "readFeatures"
          /\ req'[r] = [req[r] EXCEPT !.at = "connectFeatures",
                           !.rows = FeaturesOf(req[r].project) \X {req[r].env}]
      BY <1>1, <1>3 DEF ReadFeatures, tables
    <2>2. ProjectIn(req[r].project, req[r].env) /\ AllBut(req[r].project, req[r].env)
      BY <2>1 DEF Links, EnvLinks
    <2>3. Links(r)'
      BY <1>1, <2>1, <2>2 DEF Links, CreateLinks, MoveLinks, EnvLinks, AllBut, FeaturesOf
    <2>4. ASSUME NEW f \in Features, Exists(f)'
          PROVE  SameEnvs(f, project[f])' \/ InHand(r, f)'
      BY <1>1, <2>1, <2>4 DEF SameEnvs, InHand
    <2>5. QED
      BY <2>3, <2>4
  <1>4. CASE ConnectFeatures(r)
    <2>1. /\ req[r].rows = FeaturesOf(req[r].project) \X {req[r].env}
          /\ ProjectIn(req[r].project, req[r].env)
          /\ AllBut(req[r].project, req[r].env)
          /\ req[r].at = "connectFeatures"
      BY <1>4 DEF ConnectFeatures, Links, EnvLinks
    <2>2. ForeignKeysHold(req[r].rows)
      BY <1>1, <2>1, ConstantsAssumption DEF ForeignKeysHold, FeaturesOf
    <2>3. /\ project' = project /\ projectEnvs' = projectEnvs
          /\ featureEnvs' = featureEnvs \cup (FeaturesOf(req[r].project) \X {req[r].env})
          /\ req'[r] = Idle
      BY <1>1, <1>4, <2>1, <2>2 DEF ConnectFeatures
    <2>4. Links(r)'
      BY <2>3 DEF Links, CreateLinks, MoveLinks, EnvLinks
    <2>5. ASSUME NEW f \in Features, Exists(f)'
          PROVE  SameEnvs(f, project[f])'
      <3>1. CASE project[f] = req[r].project
        BY <2>1, <2>3, <3>1 DEF SameEnvs, AllBut, FeaturesOf
      <3>2. CASE project[f] # req[r].project
        <4>1. SameEnvs(f, project[f])
          BY <1>2, <2>1, <2>3, <2>5, <3>2
        <4>2. QED
          BY <2>3, <3>2, <4>1 DEF SameEnvs, FeaturesOf
      <3>3. QED
        BY <3>1, <3>2
    <2>6. QED
      BY <2>4, <2>5
  <1>5. CASE DisconnectFeatures(r)
    <2>1. /\ project' = project /\ projectEnvs' = projectEnvs
          /\ featureEnvs' = featureEnvs \ (FeaturesOf(req[r].project) \X {req[r].env})
          /\ req'[r] = [req[r] EXCEPT !.at = "disconnectProject"]
          /\ req[r].at = "disconnectFeatures"
      BY <1>1, <1>5 DEF DisconnectFeatures
    <2>2. \A f \in Features : Exists(f) => SameEnvs(f, project[f])
      BY <2>1 DEF InHand
    <2>3. AllBut(req[r].project, req[r].env)'
      BY <1>1, <2>1, <2>2, ConstantsAssumption DEF AllBut, SameEnvs, FeaturesOf
    <2>4. Links(r)'
      BY <1>1, <2>1, <2>3 DEF Links, CreateLinks, MoveLinks, EnvLinks, AllBut
    <2>5. ASSUME NEW f \in Features, Exists(f)'
          PROVE  SameEnvs(f, project[f])' \/ InHand(r, f)'
      <3>1. CASE project[f] = req[r].project
        BY <1>1, <2>1, <3>1 DEF InHand
      <3>2. CASE project[f] # req[r].project
        BY <2>1, <2>2, <2>5, <3>2 DEF SameEnvs, FeaturesOf
      <3>3. QED
        BY <3>1, <3>2
    <2>6. QED
      BY <2>4, <2>5
  <1>6. CASE DisconnectProject(r)
    <2>1. /\ project' = project /\ featureEnvs' = featureEnvs
          /\ projectEnvs' = projectEnvs \ {<<req[r].project, req[r].env>>}
          /\ req'[r] = Idle /\ req[r].at = "disconnectProject"
      BY <1>1, <1>6 DEF DisconnectProject
    <2>2. AllBut(req[r].project, req[r].env)
      BY <2>1 DEF Links, EnvLinks
    <2>3. Links(r)'
      BY <2>1 DEF Links, CreateLinks, MoveLinks, EnvLinks
    <2>4. ASSUME NEW f \in Features, Exists(f)'
          PROVE  SameEnvs(f, project[f])'
      <3>1. CASE project[f] = req[r].project
        BY <2>1, <2>2, <3>1 DEF SameEnvs, AllBut
      <3>2. CASE project[f] # req[r].project
        <4>1. SameEnvs(f, project[f])
          BY <1>2, <2>1, <2>4, <3>2
        <4>2. QED
          BY <2>1, <3>2, <4>1 DEF SameEnvs
      <3>3. QED
        BY <3>1, <3>2
    <2>5. QED
      BY <2>3, <2>4
  <1>7. QED
    BY <1>3, <1>4, <1>5, <1>6

LEMMA LinkStep ==
  ASSUME TypeOK, TypeOK', Handlers, Handlers', HomeInv, OneLinker, OneLinker', LinkInv,
         "fail" \notin Ops,
         NEW r \in Requests, Call(r) \/ Continue(r) \/ Fail(r)
  PROVE  LinkInv'
  <1>1. /\ \A q \in Requests : Handler(q) /\ Links(q)
        /\ \A q \in Requests : Handler(q)'
        /\ \A q \in Requests \ {r} : req'[q] = req[q]
    BY OthersKeep DEF Handlers, LinkInv
  <1>2. CASE req[r].op \notin Linkers /\ req'[r].op \notin Linkers
    <2>1. project' = project /\ projectEnvs' = projectEnvs /\ featureEnvs' = featureEnvs
      BY <1>2, LinkTables
    <2>2. Links(r)' /\ \A f \in Features : ~InHand(r, f)
      BY <1>1, <1>2, NotLinking DEF Handler, Linkers, Links, CreateLinks, MoveLinks, EnvLinks
    <2>3. ASSUME NEW q \in Requests \ {r} PROVE Links(q)'
      <3>1. req'[q] = req[q] /\ Links(q)
        BY <1>1
      <3>2. QED
        BY <2>1, <3>1 DEF Links, CreateLinks, MoveLinks, EnvLinks, SameEnvs, AllBut,
           FeatureIn, ProjectIn, FeaturesOf, Exists
    <2>4. ASSUME NEW f \in Features, Exists(f)'
          PROVE  (SameEnvs(f, project[f]) \/ \E q \in Requests : InHand(q, f))'
      <3>1. CASE SameEnvs(f, project[f])
        BY <2>1, <3>1 DEF SameEnvs, FeatureIn, ProjectIn
      <3>2. ASSUME NEW q \in Requests, InHand(q, f)
            PROVE  (\E p \in Requests : InHand(p, f))'
        <4>1. req'[q] = req[q]
          BY <1>1, <2>2, <3>2
        <4>2. InHand(q, f)'
          BY <2>1, <3>2, <4>1 DEF InHand
        <4>3. QED
          BY <4>2
      <3>3. QED
        BY <2>1, <2>4, <3>1, <3>2 DEF LinkInv, Exists
    <2>5. QED
      BY <2>2, <2>3, <2>4 DEF LinkInv
  <1>3. CASE req[r].op \in Linkers \/ req'[r].op \in Linkers
    <2>1. ASSUME NEW q \in Requests \ {r}
          PROVE  Links(q)' /\ \A f \in Features : ~InHand(q, f)
      <3>1. req[q].op \notin Linkers /\ req'[q] = req[q]
        BY <1>1, <1>3 DEF OneLinker
      <3>2. \A f \in Features : ~InHand(q, f)
        BY <1>1, <3>1, NotLinking
      <3>3. Links(q)'
        BY <1>1, <3>1 DEF Handler, Linkers, Links, CreateLinks, MoveLinks, EnvLinks
      <3>4. QED
        BY <3>2, <3>3
    <2>2. \A f \in Features : Exists(f) => SameEnvs(f, project[f]) \/ InHand(r, f)
      BY <2>1 DEF LinkInv
    <2>3. /\ Links(r)'
          /\ \A f \in Features : Exists(f)' => SameEnvs(f, project[f])' \/ InHand(r, f)'
      <3>1. CASE Call(r)
        <4>1. req[r] = Idle
          BY <3>1, CallShape
        <4>2. req'[r].op \in Linkers /\ \A f \in Features : ~InHand(r, f)
          BY <1>3, <4>1 DEF Idle, Linkers, InHand
        <4>3. QED
          BY <2>2, <3>1, <4>2, LinkCall
      <3>2. CASE InsertFeature(r) \/ ReadProjectEnvs(r) \/ ConnectEnv(r)
        BY <1>1, <2>2, <3>2, LinkCreate
      <3>3. CASE \/ ReadFeatureEnvs(r) \/ CompareEnvs(r) \/ GetRow(r) \/ MoveStrategies(r)
                 \/ DeleteFeatureRow(r)
                 \/ WriteRow(r) /\ req[r].op = "changeProject"
        <4>1. \A f \in Features : ~InHand(r, f)
          BY <3>3 DEF InHand, At, ReadFeatureEnvs, CompareEnvs, GetRow, MoveStrategies,
             DeleteFeatureRow, WriteRow
        <4>2. QED
          BY <1>1, <2>2, <3>3, <4>1, LinkMove
      <3>4. CASE \/ ReadFeatures(r) \/ ConnectFeatures(r)
                 \/ DisconnectFeatures(r) \/ DisconnectProject(r)
        BY <1>1, <2>2, <3>4, LinkEnvironment
      <3>5. ~Fail(r)
        BY DEF Fail
      <3>6. CASE /\ Continue(r)
                 /\ ~(InsertFeature(r) \/ ReadProjectEnvs(r) \/ ConnectEnv(r))
                 /\ ~(ReadFeatures(r) \/ ConnectFeatures(r) \/ DisconnectFeatures(r)
                      \/ DisconnectProject(r))
                 /\ ~(ReadFeatureEnvs(r) \/ CompareEnvs(r) \/ GetRow(r) \/ MoveStrategies(r)
                      \/ DeleteFeatureRow(r) \/ (WriteRow(r) /\ req[r].op = "changeProject"))
        <4>1. req[r].op \in Linkers
          <5>1. req'[r] = Idle \/ req'[r].op = req[r].op
            BY <3>6, ContinueShape
          <5>2. QED
            BY <1>3, <5>1 DEF Idle, Linkers
        <4>2. /\ req[r].at \in {"insertFeature", "readProjectEnvs", "connectEnv", "deleteFeature",
                                "featureEnvs", "targetEnvs", "getRow", "moveStrategies",
                                "readFeatures", "connectFeatures", "disconnectFeatures",
                                "disconnectProject", "writeRow"}
              /\ req[r].at = "writeRow" => req[r].op = "changeProject"
          BY <1>1, <4>1 DEF Linkers, Handler
        <4>3. WriteRow(r) => req[r].op = "changeProject"
          BY <4>2 DEF WriteRow, At
        <4>4. ~(\/ InsertStrategy(r) \/ DeleteStrategyRow(r) \/ CountStrategies(r)
                \/ DisableEnvironment(r) \/ IsEnvironmentEnabled(r) \/ FeatureHasEnvironment(r)
                \/ StillHasEnvironment(r) \/ ReadStrategies(r) \/ SetEnvironmentEnabledStatus(r)
                \/ RemoveAllStrategies(r) \/ CheckContext(r))
          BY <4>2 DEF At, InsertStrategy, DeleteStrategyRow, CountStrategies,
             DisableEnvironment, IsEnvironmentEnabled, FeatureHasEnvironment,
             StillHasEnvironment, ReadStrategies, SetEnvironmentEnabledStatus,
             RemoveAllStrategies, CheckContext
        <4>5. QED
          BY <3>6, <4>3, <4>4 DEF Continue
      <3>7. QED
        BY <3>1, <3>2, <3>3, <3>4, <3>5, <3>6
    <2>4. QED
      BY <2>1, <2>3 DEF LinkInv
  <1>4. QED
    BY <1>2, <1>3

LEMMA LinkInit == Init => LinkInv
  <1> SUFFICES ASSUME Init PROVE LinkInv
    OBVIOUS
  <1>1. \A r \in Requests : req[r] = Idle
    BY DEF Init
  <1>2. \A r \in Requests : Links(r)
    BY <1>1 DEF Links, CreateLinks, MoveLinks, EnvLinks, Idle
  <1>3. ASSUME NEW f \in Features, Exists(f) PROVE SameEnvs(f, project[f])
    BY <1>3 DEF Init, Exists, SameEnvs, FeatureIn, ProjectIn
  <1>4. QED
    BY <1>2, <1>3 DEF LinkInv

LEMMA LinkQuiet ==
  ASSUME LinkInv, Quiescent, NEW f \in Features, Exists(f)
  PROVE  EnvsOfFeature(f) = EnvsOfProject(project[f])
  <1>1. \A r \in Requests : ~InHand(r, f)
    BY DEF Quiescent, Idle, InHand
  <1>2. QED
    BY <1>1 DEF LinkInv, SameEnvs, FeatureIn, ProjectIn, EnvsOfFeature, EnvsOfProject

\* A feature lives in exactly the environments of its project whenever no
\* request is in progress, provided no request breaks off, the requests that
\* create, delete or move features or link environments run one at a time, and
\* no other request works on a feature while it is moved or deleted.
THEOREM FeatureLinksCorrect ==
    "fail" \notin Ops => (Spec /\ []OneMove /\ []OneLinker => []FeatureInProjectEnvs)
  <1> SUFFICES ASSUME "fail" \notin Ops
               PROVE  Spec /\ []OneMove /\ []OneLinker => []FeatureInProjectEnvs
    OBVIOUS
  <1>1. TypeOK /\ TypeOK' /\ Handlers /\ Handlers' /\ HomeInv /\ OneLinker /\ OneLinker'
          /\ LinkInv /\ [Next]_vars => LinkInv'
    <2> SUFFICES ASSUME TypeOK, TypeOK', Handlers, Handlers', HomeInv, OneLinker, OneLinker',
                        LinkInv, [Next]_vars
                 PROVE  LinkInv'
      OBVIOUS
    <2>1. CASE UNCHANGED vars
      BY <2>1 DEF vars, LinkInv, Links, CreateLinks, MoveLinks, EnvLinks, InHand, SameEnvs,
         AllBut, FeatureIn, ProjectIn, FeaturesOf, Exists
    <2>2. QED
      BY <2>1, LinkStep DEF Next
  <1>2. LinkInv => FeatureInProjectEnvs
    BY LinkQuiet DEF FeatureInProjectEnvs
  <1>3. QED
    BY <1>1, <1>2, LinkInit, HomeCorrect, TypeCorrect, HandlersCorrect, PTL DEF Spec

=============================================================================
