----------------------------- MODULE StateImport -----------------------------
(***************************************************************************)
(* What an import of a state does to the environments and to the API        *)
(* tokens.  The import is made of statements of their own; the deletions of *)
(* tokens are started and not awaited.  Everything else that an import      *)
(* writes is not of these two tables.                                       *)
(***************************************************************************)
EXTENDS FiniteSets

CONSTANTS
    Envs,      \* names of environments
    Tokens,    \* bound: secrets of tokens of one environment each
    Imports    \* bound: imports in progress at once

Nothing == "none"

VARIABLES
    environments,   \* rows of environments
    tokenEnv,       \* api_tokens: the environment of each token, Nothing where there is no row
    creating,       \* the environment for which each token is being created, or Nothing
    import,         \* the imports in progress
    deleting        \* tokens whose deletion has been started

vars == <<environments, tokenEnv, creating, import, deleting>>

\* overlapped is history: another import was in progress at the same time.
Idle == [at |-> "idle", envs |-> {}, drop |-> FALSE, imported |-> {}, overlapped |-> FALSE]

At(i, step) == import[i].at = step

-----------------------------------------------------------------------------
(* importEnvironments.                                                     *)

\* Without a drop the environments that are there are read, to be left out
\* when they are to be kept.
ToInsert(envs, drop, keep) == IF keep /\ ~drop THEN envs \ environments ELSE envs

ImportEnvironments(i, envs, drop, keep) ==
    LET others == {j \in Imports \ {i} : ~At(j, "idle")} IN
    /\ At(i, "idle")
    /\ import' = [j \in Imports |->
           IF j = i THEN [at |-> IF drop THEN "deleteAll" ELSE "insert",
                          envs |-> ToInsert(envs, drop, keep), drop |-> drop,
                          imported |-> {}, overlapped |-> others # {}]
           ELSE [import[j] EXCEPT !.overlapped = j \in others]]
    /\ UNCHANGED <<environments, tokenEnv, creating, deleting>>

\* No foreign key leads from a token to its environment any more.
DeleteAll(i) ==
    /\ At(i, "deleteAll")
    /\ environments' = {}
    /\ import' = [import EXCEPT ![i].at = "insert"]
    /\ UNCHANGED <<tokenEnv, creating, deleting>>

\* On a conflict an environment is ignored, and is not among the rows that the
\* insert returns.
Insert(i) ==
    LET envs == import[i].envs IN
    /\ At(i, "insert")
    /\ environments' = environments \cup envs
    /\ import' = [import EXCEPT ![i] =
           IF envs = {} THEN Idle ELSE [@ EXCEPT !.at = "getTokens", !.imported = envs \ environments]]
    /\ UNCHANGED <<tokenEnv, creating, deleting>>

\* Mutant: every token is.
DoomedAll(i) == {t \in Tokens : tokenEnv[t] # Nothing}

\* The tokens of environments that this import has not inserted are deleted.
Doomed(i) == {t \in Tokens : tokenEnv[t] # Nothing /\ tokenEnv[t] \notin import[i].imported}

GetAllTokens(i) ==
    /\ At(i, "getTokens")
    /\ deleting' = deleting \cup Doomed(i)
    /\ import' = [import EXCEPT ![i] = Idle]
    /\ UNCHANGED <<environments, tokenEnv, creating>>

DeleteToken(t) ==
    /\ t \in deleting
    /\ tokenEnv' = [tokenEnv EXCEPT ![t] = Nothing]
    /\ deleting' = deleting \ {t}
    /\ UNCHANGED <<environments, creating, import>>

-----------------------------------------------------------------------------
(* createToken asks whether the environment exists before it inserts.       *)

CreateToken(t, e) ==
    /\ tokenEnv[t] = Nothing /\ creating[t] = Nothing
    /\ e \in environments
    /\ creating' = [creating EXCEPT ![t] = e]
    /\ UNCHANGED <<environments, tokenEnv, import, deleting>>

InsertToken(t) ==
    /\ creating[t] # Nothing
    /\ tokenEnv' = [tokenEnv EXCEPT ![t] = creating[t]]
    /\ creating' = [creating EXCEPT ![t] = Nothing]
    /\ UNCHANGED <<environments, import, deleting>>

\* The server stops: what it was about to do is not done.
Stop ==
    /\ import' = [i \in Imports |-> Idle]
    /\ creating' = [t \in Tokens |-> Nothing]
    /\ deleting' = {}
    /\ UNCHANGED <<environments, tokenEnv>>

-----------------------------------------------------------------------------
Init ==
    /\ environments \in SUBSET Envs
    /\ tokenEnv = [t \in Tokens |-> Nothing]
    /\ creating = [t \in Tokens |-> Nothing]
    /\ import = [i \in Imports |-> Idle]
    /\ deleting = {}

Next ==
    \/ \E i \in Imports :
          \/ \E envs \in SUBSET Envs, drop, keep \in BOOLEAN : ImportEnvironments(i, envs, drop, keep)
          \/ DeleteAll(i) \/ Insert(i) \/ GetAllTokens(i)
    \/ \E t \in Tokens : DeleteToken(t) \/ InsertToken(t) \/ \E e \in Envs : CreateToken(t, e)
    \/ Stop

Spec == Init /\ [][Next]_vars
-----------------------------------------------------------------------------
(* Properties.                                                             *)

\* Imports clean up the tokens of environments that are gone.  The token of an
\* environment that exists is condemned in two ways only: by an import that
\* dropped nothing, to which environments that were there are not its own, and
\* by one that another import overlapped, which inserted the environment first.
SparesLivingTokens ==
    [][\A t \in Tokens :
          (t \notin deleting /\ t \in deleting' /\ tokenEnv[t] \in environments) =>
              \E i \in Imports :
                  At(i, "getTokens") /\ (~import[i].drop \/ import[i].overlapped)]_vars
=============================================================================
