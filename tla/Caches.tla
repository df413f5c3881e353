------------------------------- MODULE Caches -------------------------------
(***************************************************************************)
(* What a server keeps in memory of what others write, and what it has yet *)
(* to write itself: the repositories of the proxy, the API tokens, the     *)
(* settings, the list of add-ons and the clients that registered.  They    *)
(* share no state, so each behaviour is one of one of them: focus is the   *)
(* one, and the others stay as they begin.                                 *)
(***************************************************************************)
EXTENDS ProxyClients

CONSTANTS
    Servers,
    MaxFetches, MaxRestarts,             \* of ApiTokens
    Requests, Values,                    \* of SettingsCache
    Addons, Steady, MaxEvents,           \* of AddonDelivery
    Registrars, Apps, Envs,              \* of Applications
    MaxFlushes, MaxEdits, MayDelete,
    MayFail                              \* of both

VARIABLES
    focus,
    initApiTokens, row, active, fetched, inserted, starting, restarts,
    content, cache, settingReq,
    enabled, stored, addonEmitted, memo, list, addonLoads, delivered, dropped,
    seen, flushes, apps, instances, deleting, pending, announced, edits, registered, lost

tokenVars == <<initApiTokens, row, active, fetched, inserted, starting, restarts>>
settingVars == <<content, cache, settingReq>>
addonVars == <<enabled, stored, addonEmitted, memo, list, addonLoads, delivered, dropped>>
appVars == <<seen, flushes, apps, instances, deleting, pending, announced, edits, registered, lost>>
allVars == <<focus, vars, tokenVars, settingVars, addonVars, appVars>>

Ap == INSTANCE ApiTokens
Se == INSTANCE SettingsCache WITH req <- settingReq
Ad == INSTANCE AddonDelivery WITH emitted <- addonEmitted, loads <- addonLoads
Cl == INSTANCE Applications WITH Servers <- Registrars

-----------------------------------------------------------------------------
InFocus(part) == focus = part /\ UNCHANGED focus

OfProxy(step) ==
    InFocus("proxy") /\ step /\ UNCHANGED <<tokenVars, settingVars, addonVars, appVars>>
OfTokens(step) ==
    InFocus("tokens") /\ step /\ UNCHANGED <<vars, settingVars, addonVars, appVars>>
OfSettings(step) ==
    InFocus("settings") /\ step /\ UNCHANGED <<vars, tokenVars, addonVars, appVars>>
OfAddons(step) ==
    InFocus("addons") /\ step /\ UNCHANGED <<vars, tokenVars, settingVars, appVars>>
OfClients(step) ==
    InFocus("clients") /\ step /\ UNCHANGED <<vars, tokenVars, settingVars, addonVars>>

CachesInit ==
    /\ focus \in {"proxy", "tokens", "settings", "addons", "clients"}
    /\ Init
    /\ Ap!Init
    /\ Se!Init
    /\ Ad!Init
    /\ Cl!Init

CachesNext ==
    \/ OfProxy(Next)
    \/ OfTokens(Ap!Next)
    \/ OfSettings(Se!Next)
    \/ OfAddons(Ad!Next)
    \/ OfClients(Cl!Next)

\* What is due is done: events are emitted, loads and fetches go on, timers
\* fire again and again, and statements that have begun end.
CachesFairness ==
    /\ WF_allVars(OfProxy(Emit)) /\ WF_allVars(OfProxy(LoadStep))
    /\ \A s \in Servers :
          /\ WF_allVars(OfTokens(Ap!FetchActiveTokens(s)))
          /\ WF_allVars(OfTokens(Ap!SetActiveTokens(s)))
          /\ \A t \in Tokens : WF_allVars(OfTokens(Ap!PushToken(s, t)))
    /\ WF_allVars(OfAddons(Ad!Emit)) /\ WF_allVars(OfAddons(Ad!LoadStep))
    /\ WF_allVars(OfAddons(Ad!Expire))
    /\ \A s \in Registrars : WF_allVars(OfClients(Cl!BulkAdd(s)))
    /\ \A f \in Cl!Flush : WF_allVars(OfClients(Cl!FlushStep(f)))

CachesSpec == CachesInit /\ [][CachesNext]_allVars /\ CachesFairness
-----------------------------------------------------------------------------
(* The properties of the parts (EventuallyFresh is that of ProxyClients).   *)

EventuallyExact == Ap!EventuallyExact
StaleOnlyByRaces == Se!StaleOnlyByRaces
InOrder == Ad!InOrder
EventuallyDelivered == Ad!EventuallyDelivered
EventuallyStops == Ad!EventuallyStops
AnnouncedOnce == Cl!AnnouncedOnce
EventuallyRegistered == Cl!EventuallyRegistered
=============================================================================
