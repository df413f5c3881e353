---------------------------- MODULE ProxyClients ----------------------------
(***************************************************************************)
(* The clients that the embedded proxy keeps, one for each frontend token, *)
(* and the repository of each: the features and segments that the token    *)
(* may see, loaded when the client is made and loaded again on each event  *)
(* that the event store of this server emits.                              *)
(*                                                                         *)
(* The contents of the database are a number, its version.  A change is    *)
(* made, its event is stored, and then it is emitted, on this server only. *)
(***************************************************************************)
EXTENDS Naturals

CONSTANTS
    Tokens,      \* secrets of frontend tokens
    Repos,       \* bound: the repositories made in a behaviour
    MaxVersion,  \* bound: the changes
    Ops,         \* what else happens, of AllOps
    None

(***************************************************************************)
(* "foreignChange": changes are made through other servers too, or here    *)
(* while their events cannot be stored: nothing is emitted for them.       *)
(* "overlap": changes are made while repositories load.                    *)
(* "fail": a reload may fail.                                              *)
(***************************************************************************)
AllOps == {"foreignChange", "overlap", "fail"}

ASSUME ProxyAssumption ==
    /\ MaxVersion \in Nat
    /\ Ops \subseteq AllOps
    /\ None \notin Repos \cup Tokens

VARIABLES
    version,  \* of the database
    unsent,   \* changes of this server whose event is not emitted yet
    emitted,  \* events emitted so far
    repo,     \* the repositories
    loads,    \* the calls of loadDataForToken in progress
    clients   \* ProxyService.clients

vars == <<version, unsent, emitted, repo, loads, clients>>

Versions == 0..MaxVersion

Repository == [token      : Tokens \cup {None},  \* None: not made yet
               features   : Versions,
               segments   : Versions,
               subscribed : BOOLEAN,             \* to the event store
               awaited    : BOOLEAN]             \* clientForProxyToken waits for it

\* A load is named by its repository and the event it answers, 0 for start().
Load == [repo : Repos, event : 0..MaxVersion, value : Versions,
         at : {"readFeatures", "setFeatures", "readSegments", "setSegments"}]

NewLoad(r, event) == [repo |-> r, event |-> event, value |-> 0, at |-> "readFeatures"]

Step(l, step, value) ==
    loads' = (loads \ {l}) \cup {[l EXCEPT !.at = step, !.value = value]}

-----------------------------------------------------------------------------
(* Changes of the database and their events.                               *)

\* Without "overlap" the next change waits for the last one to arrive.
MayChange == "overlap" \in Ops \/ (unsent = 0 /\ loads = {})

Change ==
    /\ version < MaxVersion
    /\ MayChange
    /\ version' = version + 1
    /\ unsent' = unsent + 1
    /\ UNCHANGED <<emitted, repo, loads, clients>>

ForeignChange ==
    /\ "foreignChange" \in Ops
    /\ version < MaxVersion
    /\ MayChange
    /\ version' = version + 1
    /\ UNCHANGED <<unsent, emitted, repo, loads, clients>>

\* onAnyEvent of every repository that has subscribed.
Emit ==
    /\ unsent > 0
    /\ unsent' = unsent - 1
    /\ emitted' = emitted + 1
    /\ loads' = loads \cup {NewLoad(r, emitted + 1) : r \in {q \in Repos : repo[q].subscribed}}
    /\ UNCHANGED <<version, repo, clients>>

-----------------------------------------------------------------------------
(* clientForProxyToken: there is no client, one is made and awaited.  A    *)
(* second request for the token that comes meanwhile makes a second one.   *)

RequestClient(t, r) ==
    /\ clients[t] = None
    /\ repo[r].token = None
    /\ repo' = [repo EXCEPT ![r].token = t, ![r].awaited = TRUE]
    /\ loads' = loads \cup {NewLoad(r, 0)}
    /\ UNCHANGED <<version, unsent, emitted, clients>>

\* Mutant: startUnleash is not awaited.
NotAwaited(r) == TRUE

IsReady(r) == repo[r].subscribed

\* The awaited client is ready and goes into the map.
SetClient(r) ==
    /\ repo[r].awaited
    /\ IsReady(r)
    /\ clients' = [clients EXCEPT ![repo[r].token] = r]
    /\ repo' = [repo EXCEPT ![r].awaited = FALSE]
    /\ UNCHANGED <<version, unsent, emitted, loads>>

\* The token is deleted: its client is dropped but not stopped.
DeleteClient(t) ==
    /\ clients[t] # None
    /\ clients' = [clients EXCEPT ![t] = None]
    /\ UNCHANGED <<version, unsent, emitted, repo, loads>>

-----------------------------------------------------------------------------
(* loadDataForToken: the features are read and set, then the segments.     *)

ReadFeatures(l) ==
    /\ l.at = "readFeatures"
    /\ Step(l, "setFeatures", version)
    /\ UNCHANGED <<version, unsent, emitted, repo, clients>>

\* Mutant: the segments are not loaded again.
OnlyFeatures(l) == IF l.event = 0 THEN Step(l, "readSegments", 0) ELSE loads' = loads \ {l}

ThenSegments(l) == Step(l, "readSegments", 0)

SetFeatures(l) ==
    /\ l.at = "setFeatures"
    /\ repo' = [repo EXCEPT ![l.repo].features = l.value]
    /\ ThenSegments(l)
    /\ UNCHANGED <<version, unsent, emitted, clients>>

ReadSegments(l) ==
    /\ l.at = "readSegments"
    /\ Step(l, "setSegments", version)
    /\ UNCHANGED <<version, unsent, emitted, repo, clients>>

\* start() subscribes when its load is done, and the client is ready.
SetSegments(l) ==
    /\ l.at = "setSegments"
    /\ repo' = [repo EXCEPT ![l.repo].segments = l.value,
                            ![l.repo].subscribed = TRUE]
    /\ loads' = loads \ {l}
    /\ UNCHANGED <<version, unsent, emitted, clients>>

\* onAnyEvent logs the error and keeps what the repository has.
FailLoad(l) ==
    /\ "fail" \in Ops
    /\ l.event # 0
    /\ l.at \in {"readFeatures", "readSegments"}
    /\ loads' = loads \ {l}
    /\ UNCHANGED <<version, unsent, emitted, repo, clients>>

-----------------------------------------------------------------------------
Init ==
    /\ version = 0
    /\ unsent = 0
    /\ emitted = 0
    /\ repo = [r \in Repos |-> [token |-> None, features |-> 0, segments |-> 0,
                                subscribed |-> FALSE, awaited |-> FALSE]]
    /\ loads = {}
    /\ clients = [t \in Tokens |-> None]

LoadStep ==
    \E l \in loads : ReadFeatures(l) \/ SetFeatures(l) \/ ReadSegments(l) \/ SetSegments(l)

Next ==
    \/ Change
    \/ ForeignChange
    \/ Emit
    \/ \E t \in Tokens, r \in Repos : RequestClient(t, r)
    \/ \E r \in Repos : SetClient(r)
    \/ \E t \in Tokens : DeleteClient(t)
    \/ LoadStep
    \/ \E l \in loads : FailLoad(l)

Spec == Init /\ [][Next]_vars

\* Events that are due are emitted, and loads that began go on.
FairSpec == Spec /\ WF_vars(Emit) /\ WF_vars(LoadStep)
-----------------------------------------------------------------------------
(* Properties.                                                             *)

TypeOK ==
    /\ version \in Versions
    /\ unsent \in Nat
    /\ emitted \in Nat
    /\ emitted + unsent \in 0..version
    /\ repo \in [Repos -> Repository]
    /\ loads \in SUBSET Load
    /\ clients \in [Tokens -> Repos \cup {None}]

\* A request is only answered by a client that has loaded its features once and
\* that listens to events: createClientForProxyToken awaits it, whichever
\* requests and deletions of the token come meanwhile.
ClientsAreReady ==
    \A t \in Tokens, r \in Repos :
        clients[t] = r => repo[r].token = t /\ repo[r].subscribed

Fresh(r) == repo[r].features = version /\ repo[r].segments = version

\* "Reload cached token data whenever something relevant has changed": a
\* repository that clients are served from eventually has what the database
\* has.
EventuallyFresh == \A r \in Repos : repo[r].subscribed /\ ~Fresh(r) ~> Fresh(r)

\* The repository has the current features (segments), or it will read them:
\* a load has yet to, or has and will set them, or an event is due.
EventDue(r) == repo[r].subscribed /\ unsent > 0

FeaturesCovered(r) ==
    \/ repo[r].features = version
    \/ EventDue(r)
    \/ \E l \in loads : /\ l.repo = r
                        /\ \/ l.at = "readFeatures"
                           \/ l.at = "setFeatures" /\ l.value = version

SegmentsCovered(r) ==
    \/ repo[r].segments = version
    \/ EventDue(r)
    \/ \E l \in loads : /\ l.repo = r
                        /\ \/ l.at \in {"readFeatures", "setFeatures", "readSegments"}
                           \/ l.at = "setSegments" /\ l.value = version

Covered(r) == FeaturesCovered(r) /\ SegmentsCovered(r)

ChangedElsewhere == version' # version /\ unsent' = unsent

Starting(r) == ~repo[r].subscribed

\* A load that read before the last change sets what it read.
Outdated(r) ==
    \E l \in loads \ loads' :
        l.repo = r /\ l.at \in {"setFeatures", "setSegments"} /\ l.value < version

Failed(r) ==
    /\ "fail" \in Ops
    /\ \E l \in loads : /\ l.repo = r
                       /\ l.at \in {"readFeatures", "readSegments"}
                       /\ loads' = loads \ {l}

\* A repository falls behind in four ways only: a change without an event (made
\* through another server, or not stored), a change while it starts, a load that
\* was overtaken by a change, or a load that fails.
FallsBehindOnlyByRaces ==
    [][\A r \in Repos : Covered(r) /\ ~Covered(r)' =>
           ChangedElsewhere \/ Starting(r) \/ Outdated(r) \/ Failed(r)]_vars
=============================================================================
