---------------------------- MODULE AddonDelivery ----------------------------
(***************************************************************************)
(* How an event that one server stores reaches the add-ons: the event is   *)
(* emitted, and handed to the add-ons of a list that the server fetches    *)
(* and keeps for a minute (memoizee).  Events that come while the list is  *)
(* fetched wait for the same fetch.                                        *)
(***************************************************************************)
EXTENDS Naturals, Sequences, SequencesExt

CONSTANTS
    Addons,
    Steady,     \* those of them that nobody disables or removes
    MaxEvents,  \* bound: events are numbered in the order they are emitted
    MayFail     \* whether inserts and fetches may fail

VARIABLES
    enabled,    \* the add-ons that are enabled in the table
    stored,     \* events stored, and not yet emitted
    emitted,    \* number of the last event
    memo,       \* whether the list is absent, being fetched, or there
    list,       \* the list
    loads,      \* fetches: the events that wait, and the answer
    delivered,  \* the events that each add-on was given
    dropped     \* the events whose fetch failed

vars == <<enabled, stored, emitted, memo, list, loads, delivered, dropped>>

Unread == {"unread"}

-----------------------------------------------------------------------------
\* createAddon, updateAddon and removeAddon write the table, not the list.
UpdateAddon(a) ==
    /\ a \notin Steady
    /\ enabled' = IF a \in enabled THEN enabled \ {a} ELSE enabled \cup {a}
    /\ UNCHANGED <<stored, emitted, memo, list, loads, delivered, dropped>>

\* store of the event store: the event is emitted in a later tick, and not at
\* all if its insert fails.
Store ==
    /\ stored + emitted < MaxEvents
    /\ stored' = stored + 1
    /\ UNCHANGED <<enabled, emitted, memo, list, loads, delivered, dropped>>

-----------------------------------------------------------------------------
(* handleEvent, for each event that is emitted.                            *)

Deliver(events, A) ==
    delivered' = [a \in Addons |-> IF a \in A THEN delivered[a] \o events ELSE delivered[a]]

NewLoad(e) == [events |-> <<e>>, answer |-> Unread]

\* Mutant: every event fetches the list.
AlwaysFetches(e) == loads' = loads \cup {NewLoad(e)}

\* Mutant: an event that comes during a fetch is not kept.
IgnoredWhileFetching(e) ==
    IF memo = "fetching" THEN UNCHANGED loads ELSE loads' = loads \cup {NewLoad(e)}

Join(e) ==
    IF memo = "fetching" THEN loads' = {[l EXCEPT !.events = Append(@, e)] : l \in loads}
    ELSE loads' = loads \cup {NewLoad(e)}

HandleEvent(e) ==
    IF memo = "there"
    THEN /\ Deliver(<<e>>, list)
         /\ UNCHANGED <<memo, loads>>
    ELSE /\ Join(e)
         /\ memo' = "fetching"
         /\ UNCHANGED delivered

Emit ==
    /\ stored > 0
    /\ stored' = stored - 1
    /\ emitted' = emitted + 1
    /\ HandleEvent(emitted + 1)
    /\ UNCHANGED <<enabled, list, dropped>>

GetAll(l) ==
    /\ l \in loads
    /\ l.answer = Unread
    /\ loads' = (loads \ {l}) \cup {[l EXCEPT !.answer = enabled]}
    /\ UNCHANGED <<enabled, stored, emitted, memo, list, delivered, dropped>>

\* The promise resolves: those who wait for it go on in the order they came.
Resolve(l) ==
    /\ l \in loads
    /\ l.answer # Unread
    /\ memo' = "there"
    /\ list' = l.answer
    /\ loads' = loads \ {l}
    /\ Deliver(l.events, l.answer)
    /\ UNCHANGED <<enabled, stored, emitted, dropped>>

\* A rejected promise is forgotten.  Nobody catches the rejection for those
\* who wait: their events are gone.
Reject(l) ==
    /\ MayFail
    /\ l \in loads
    /\ l.answer = Unread
    /\ memo' = "absent"
    /\ loads' = loads \ {l}
    /\ dropped' = dropped \cup ToSet(l.events)
    /\ UNCHANGED <<enabled, stored, emitted, list, delivered>>

\* Mutant: the list is kept.
KeptForGood == FALSE

IsOld == memo = "there"

Expire ==
    /\ IsOld
    /\ memo' = "absent"
    /\ list' = {}
    /\ UNCHANGED <<enabled, stored, emitted, loads, delivered, dropped>>

-----------------------------------------------------------------------------
Init ==
    /\ enabled = Addons
    /\ stored = 0
    /\ emitted = 0
    /\ memo = "absent"
    /\ list = {}
    /\ loads = {}
    /\ delivered = [a \in Addons |-> <<>>]
    /\ dropped = {}

LoadStep == \E l \in loads : GetAll(l) \/ Resolve(l)

Next ==
    \/ \E a \in Addons : UpdateAddon(a)
    \/ Store
    \/ Emit
    \/ LoadStep
    \/ \E l \in loads : Reject(l)
    \/ Expire

-----------------------------------------------------------------------------
(* Properties.                                                             *)

\* An add-on is given events in the order in which they were emitted, and none
\* twice, whether they waited for a fetch or not.
InOrder ==
    \A a \in Addons : \A i, j \in DOMAIN delivered[a] :
        i < j => delivered[a][i] < delivered[a][j]

\* An event that is emitted reaches every add-on that stays enabled, unless the
\* fetch of the list failed.
EventuallyDelivered ==
    \A a \in Steady, e \in 1..MaxEvents :
        (emitted >= e) ~> (e \in ToSet(delivered[a]) \cup dropped)

\* An add-on that is disabled for good is eventually given no more events: the
\* list is not kept.
EventuallyStops == \A a \in Addons : <>[](a \notin enabled) => <>[](a \notin list)
=============================================================================
