------------------------- MODULE EnvironmentOverride -------------------------
(***************************************************************************)
(* ENABLED_ENVIRONMENTS: when a server starts, the environments it names    *)
(* are enabled and all others disabled, and the projects that are linked to *)
(* an environment that is disabled are linked to those that are enabled     *)
(* instead.  Several servers start at once, each may stop at any step, and  *)
(* nothing is in a transaction.                                             *)
(***************************************************************************)
EXTENDS Naturals, FiniteSets

CONSTANTS
    Envs,         \* rows of environments
    Overrides,    \* config.environmentEnableOverrides
    Projects,
    Servers,
    MaxRestarts   \* bound: stops of servers

VARIABLES
    enabled,    \* environments.enabled
    links,      \* project_environments: the environments of each project
    server,     \* how far the start of each server is
    restarts

vars == <<enabled, links, server, restarts>>

Stopped == [at |-> "stopped", toDisable |-> {}, toEnable |-> {}, unlink |-> {}, link |-> {}, raced |-> FALSE]

At(s, step) == server[s].at = step
Starting(s) == server[s].at \notin {"stopped", "started"}

\* Another server, or a request, has written while the server starts.
Raced(who) == [s \in Servers |-> IF s # who /\ Starting(s) THEN [server[s] EXCEPT !.raced = TRUE] ELSE server[s]]

-----------------------------------------------------------------------------
(* overrideEnabledProjects.                                                *)

\* If one of the names does not exist nothing is overridden.
GetAll(s) ==
    /\ At(s, "stopped")
    /\ LET overridden == Overrides # {} /\ Overrides \subseteq Envs
           raced == \E other \in Servers \ {s} : Starting(other)
       IN  server' = [Raced(s) EXCEPT ![s] =
               [Stopped EXCEPT !.at = IF overridden THEN "disable" ELSE "started",
                               !.toDisable = enabled \ Overrides,
                               !.toEnable = Overrides \ enabled,
                               !.raced = raced]]
    /\ UNCHANGED <<enabled, links, restarts>>

Disable(s) ==
    /\ At(s, "disable")
    /\ enabled' = enabled \ server[s].toDisable
    /\ server' = [server EXCEPT ![s].at = "enable"]
    /\ UNCHANGED <<links, restarts>>

Enable(s) ==
    /\ At(s, "enable")
    /\ enabled' = enabled \cup server[s].toEnable
    /\ server' = [server EXCEPT ![s].at = "getLinks"]
    /\ UNCHANGED <<links, restarts>>

-----------------------------------------------------------------------------
(* remapProjectsLinks: all links to what is disabled are removed, and then  *)
(* the projects they were of are linked to what has just been enabled.      *)

\* Mutant: only the projects that would have no environment left are remapped.
LinksToLast(envs) == {l \in Projects \X envs : links[l[1]] = {l[2]}}

LinksTo(envs) == {l \in Projects \X envs : l[2] \in links[l[1]]}

GetProjectLinks(s) ==
    /\ At(s, "getLinks")
    /\ LET found == LinksTo(server[s].toDisable) IN
       server' = [server EXCEPT ![s].at = IF found = {} THEN "started" ELSE "unlink",
                                ![s].unlink = found,
                                ![s].link = {l[1] : l \in found} \X server[s].toEnable]
    /\ UNCHANGED <<enabled, links, restarts>>

\* The unlink tasks run at once; disconnectFeatures has no effect of its own on
\* the links.
Unlink(s) ==
    /\ At(s, "unlink")
    /\ \E l \in server[s].unlink :
          /\ links' = [links EXCEPT ![l[1]] = @ \ {l[2]}]
          /\ server' = [Raced(s) EXCEPT ![s].unlink = @ \ {l},
                            ![s].at = IF server[s].unlink = {l}
                                      THEN IF server[s].link = {} THEN "started" ELSE "link"
                                      ELSE "unlink"]
    /\ UNCHANGED <<enabled, restarts>>

\* connectProject inserts a row.  If the project has the environment already,
\* the primary key rejects it, and the server does not start.
LinkOne(s) ==
    /\ At(s, "link")
    /\ \E l \in server[s].link :
          /\ l[2] \notin links[l[1]]
          /\ links' = [links EXCEPT ![l[1]] = @ \cup {l[2]}]
          /\ server' = [Raced(s) EXCEPT ![s].link = @ \ {l},
                            ![s].at = IF server[s].link = {l} THEN "started" ELSE "link"]
    /\ UNCHANGED <<enabled, restarts>>

FailStart(s) ==
    /\ At(s, "link")
    /\ \E l \in server[s].link : l[2] \in links[l[1]]
    /\ server' = [server EXCEPT ![s] = Stopped]
    /\ UNCHANGED <<enabled, links, restarts>>

\* A server stops at any step; what it has not done is not done later, since a
\* start reads anew what is enabled.
Stop(s) ==
    /\ ~At(s, "stopped")
    /\ restarts < MaxRestarts
    /\ restarts' = restarts + 1
    /\ server' = [server EXCEPT ![s] = Stopped]
    /\ UNCHANGED <<enabled, links>>

-----------------------------------------------------------------------------
(* Requests to a server that has started.                                  *)

Serving == \E s \in Servers : At(s, "started")

ToggleEnvironment(e) ==
    /\ Serving
    /\ enabled' = IF e \in enabled THEN enabled \ {e} ELSE enabled \cup {e}
    /\ server' = Raced("request")
    /\ UNCHANGED <<links, restarts>>

AddEnvironmentToProject(e, p) ==
    /\ Serving
    /\ e \notin links[p]
    /\ links' = [links EXCEPT ![p] = @ \cup {e}]
    /\ server' = Raced("request")
    /\ UNCHANGED <<enabled, restarts>>

RemoveEnvironmentFromProject(e, p) ==
    /\ Serving
    /\ e \in links[p]
    /\ Cardinality(links[p]) > 1
    /\ links' = [links EXCEPT ![p] = @ \ {e}]
    /\ server' = Raced("request")
    /\ UNCHANGED <<enabled, restarts>>

-----------------------------------------------------------------------------
\* createProject links a project to every environment that is enabled.
Init ==
    /\ enabled \in SUBSET Envs \ {{}}
    /\ links \in [Projects -> SUBSET Envs \ {{}}]
    /\ server = [s \in Servers |-> Stopped]
    /\ restarts = 0

Override(s) ==
    \/ GetAll(s) \/ Disable(s) \/ Enable(s)
    \/ GetProjectLinks(s) \/ Unlink(s) \/ LinkOne(s) \/ FailStart(s)

Next ==
    \/ \E s \in Servers : Override(s) \/ Stop(s)
    \/ \E e \in Envs : ToggleEnvironment(e)
    \/ \E e \in Envs, p \in Projects : AddEnvironmentToProject(e, p) \/ RemoveEnvironmentFromProject(e, p)

Spec == Init /\ [][Next]_vars
-----------------------------------------------------------------------------
(* Properties.                                                             *)

\* A start that nothing else writes along with, and that does not stop, leaves
\* no project linked to an environment that it disabled.
StartRemaps ==
    [][\A s \in Servers : Starting(s) /\ ~server[s].raced /\ server'[s].at = "started" =>
           /\ \A l \in Projects \X server[s].toDisable : l[2] \notin links'[l[1]]
           /\ enabled \cap server[s].toDisable = {}]_vars
=============================================================================
