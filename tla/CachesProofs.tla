----------------------------- MODULE CachesProofs -----------------------------
(***************************************************************************)
(* Proofs about Caches, for any servers, values, add-ons, applications and *)
(* requests: what becomes stale, what is delivered, what is announced; and  *)
(* for any tokens and repositories: when clients are ready, and current.   *)
(* Fairness is not needed for any of them.                                 *)
(***************************************************************************)
EXTENDS Caches, Sequences, TLAPS

\* A step of the whole is a step of each part, or leaves the part as it is.
LEMMA SettingsStep ==
    ASSUME [CachesNext]_allVars
    PROVE  [Se!Next]_(Se!vars)
BY DEF CachesNext, OfProxy, OfTokens, OfSettings, OfAddons, OfClients, allVars, settingVars, Se!vars

LEMMA AddonsStep ==
    ASSUME [CachesNext]_allVars
    PROVE  [Ad!Next]_(Ad!vars)
BY DEF CachesNext, OfProxy, OfTokens, OfSettings, OfAddons, OfClients, allVars, addonVars, Ad!vars

LEMMA ClientsStep ==
    ASSUME [CachesNext]_allVars
    PROVE  [Cl!Next]_(Cl!vars)
BY DEF CachesNext, OfProxy, OfTokens, OfSettings, OfAddons, OfClients, allVars, appVars, Cl!vars

-----------------------------------------------------------------------------
(* Settings: requests and caches are of their types.                       *)

LEMMA IdleType == Se!Idle \in Se!Request
  BY DEF Se!Idle, Se!Request, Se!Contents

LEMMA SettingsInitType == Se!Init => Se!TypeOK
  BY IdleType DEF Se!Init, Se!TypeOK

LEMMA SettingsCallType ==
    ASSUME Se!TypeOK, NEW r \in Requests, NEW s \in Servers, Se!Call(r, s)
    PROVE  Se!TypeOK'
<1>1. CASE Se!Get(r, s)
  BY <1>1 DEF Se!TypeOK, Se!Get, Se!Idle, Se!Request, Se!Contents
<1>2. ASSUME NEW v \in Se!Contents, NEW step \in {"exists", "delete"}, Se!Write(r, s, v, step)
      PROVE  Se!TypeOK'
  <2>1. [at |-> step, server |-> s, value |-> v, refilled |-> FALSE] \in Se!Request
    BY DEF Se!Request
  <2>. QED
    BY <1>2, <2>1 DEF Se!TypeOK, Se!Write, Se!Cleared
<1>3. Se!Undefined \in Se!Contents /\ Values \subseteq Se!Contents
  BY DEF Se!Contents
<1>. QED
  BY <1>1, <1>2, <1>3 DEF Se!Call, Se!Delete, Se!Insert

LEMMA SettingsContinueType ==
    ASSUME Se!TypeOK, NEW r \in Requests, Se!Continue(r)
    PROVE  Se!TypeOK'
<1>0. settingReq[r] \in Se!Request
  BY DEF Se!TypeOK
<1>1. CASE Se!Read(r)
  BY <1>0, <1>1 DEF Se!TypeOK, Se!Read, Se!Request
<1>2. CASE Se!Fill(r)
  <2>1. cache' \in [Servers -> Se!Contents \cup {Se!NotCached}]
    BY <1>0, <1>2 DEF Se!TypeOK, Se!Fill, Se!Request
  <2>2. ASSUME NEW q \in Requests
        PROVE  [settingReq[q] EXCEPT !.refilled = @ \/ settingReq[q].server = settingReq[r].server] \in Se!Request
    BY DEF Se!TypeOK, Se!Request
  <2>. QED
    BY <1>2, <2>1, <2>2, IdleType DEF Se!TypeOK, Se!Fill
<1>3. CASE Se!Exists(r) \/ Se!StoreExists(r)
  BY <1>0, <1>3 DEF Se!TypeOK, Se!Exists, Se!StoreExists, Se!Goto, Se!Request
<1>4. ASSUME NEW v \in Se!Contents, Se!Set(r, v)
      PROVE  Se!TypeOK'
  BY <1>4, IdleType DEF Se!TypeOK, Se!Set
<1>5. CASE Se!UpdateRow(r) \/ Se!InsertNewRow(r) \/ Se!DeleteRow(r)
  <2>1. /\ Se!Undefined \in Se!Contents
        /\ (IF content = Se!Undefined THEN Se!Undefined ELSE settingReq[r].value) \in Se!Contents
        /\ (IF content = Se!Undefined THEN settingReq[r].value ELSE content) \in Se!Contents
    BY <1>0 DEF Se!TypeOK, Se!Request, Se!Contents
  <2>. QED
    BY <1>4, <1>5, <2>1 DEF Se!UpdateRow, Se!InsertNewRow, Se!DeleteRow
<1>. QED
  BY <1>1, <1>2, <1>3, <1>5 DEF Se!Continue

LEMMA SettingsNextType == Se!TypeOK /\ [Se!Next]_(Se!vars) => Se!TypeOK'
<1>. SUFFICES ASSUME Se!TypeOK, [Se!Next]_(Se!vars)
              PROVE  Se!TypeOK'
  OBVIOUS
<1>1. CASE UNCHANGED Se!vars
  BY <1>1 DEF Se!TypeOK, Se!vars
<1>. QED
  BY <1>1, SettingsCallType, SettingsContinueType DEF Se!Next

-----------------------------------------------------------------------------
(* The cache that a write has cleared stays empty until a get fills it,    *)
(* which the write's refilled records.                                     *)

Writing == {"exists", "storeExists", "updateRow", "insertNewRow", "delete"}

ClearedStaysEmpty ==
    \A r \in Requests :
       settingReq[r].at \in Writing =>
          /\ settingReq[r].server \in Servers
          /\ ~settingReq[r].refilled => cache[settingReq[r].server] = Se!NotCached

LEMMA CallKeepsEmpty ==
    ASSUME Se!TypeOK, ClearedStaysEmpty, NEW r \in Requests, NEW s \in Servers, Se!Call(r, s)
    PROVE  ClearedStaysEmpty'
<1>. SUFFICES ASSUME NEW q \in Requests
              PROVE  ClearedStaysEmpty!(q)'
  BY DEF ClearedStaysEmpty
<1>0. ClearedStaysEmpty!(q)
  BY DEF ClearedStaysEmpty
<1>1. CASE Se!Get(r, s)
  <2>1. CASE q = r
    BY <1>1, <2>1 DEF Se!TypeOK, Se!Get, Se!Idle, Writing
  <2>2. CASE q # r
    BY <1>0, <1>1, <2>2 DEF Se!TypeOK, Se!Get
  <2>. QED
    BY <2>1, <2>2
<1>2. ASSUME NEW v, NEW step, Se!Write(r, s, v, step)
      PROVE  ClearedStaysEmpty!(q)'
  <2>1. cache' = [cache EXCEPT ![s] = Se!NotCached]
    BY <1>2 DEF Se!Write, Se!Cleared
  <2>2. CASE q = r
    BY <1>2, <2>1, <2>2 DEF Se!TypeOK, Se!Write
  <2>3. CASE q # r
    BY <1>0, <1>2, <2>1, <2>3 DEF Se!TypeOK, Se!Write
  <2>. QED
    BY <2>2, <2>3
<1>. QED
  BY <1>1, <1>2 DEF Se!Call, Se!Delete, Se!Insert

LEMMA ContinueKeepsEmpty ==
    ASSUME Se!TypeOK, ClearedStaysEmpty, NEW r \in Requests, Se!Continue(r)
    PROVE  ClearedStaysEmpty'
<1>. SUFFICES ASSUME NEW q \in Requests
              PROVE  ClearedStaysEmpty!(q)'
  BY DEF ClearedStaysEmpty
<1>0. ClearedStaysEmpty!(q) /\ settingReq[q] \in Se!Request /\ settingReq[r] \in Se!Request
  BY DEF ClearedStaysEmpty, Se!TypeOK
<1>1. CASE Se!Read(r)
  BY <1>0, <1>1 DEF Se!TypeOK, Se!Read, Se!Request, Writing
<1>2. CASE Se!Fill(r)
  <2>1. CASE q = r
    BY <1>2, <2>1 DEF Se!TypeOK, Se!Fill, Se!Idle, Writing
  <2>2. CASE q # r
    <3>1. settingReq'[q] = [settingReq[q] EXCEPT !.refilled = @ \/ settingReq[q].server = settingReq[r].server]
      BY <1>2, <2>2 DEF Se!Fill
    <3>2. /\ settingReq'[q].at = settingReq[q].at
          /\ settingReq'[q].server = settingReq[q].server
          /\ ~settingReq'[q].refilled => ~settingReq[q].refilled /\ settingReq[q].server # settingReq[r].server
      BY <1>0, <3>1 DEF Se!Request
    <3>3. cache' = [cache EXCEPT ![settingReq[r].server] = settingReq[r].value]
      BY <1>2 DEF Se!Fill
    <3>. QED
      BY <1>0, <3>2, <3>3 DEF Se!TypeOK
  <2>. QED
    BY <2>1, <2>2
<1>3. CASE Se!Exists(r) \/ Se!StoreExists(r)
  BY <1>0, <1>3 DEF Se!TypeOK, Se!Exists, Se!StoreExists, Se!At, Se!Goto, Se!Request, Writing
<1>4. ASSUME NEW v, Se!Set(r, v)
      PROVE  ClearedStaysEmpty!(q)'
  BY <1>0, <1>4 DEF Se!TypeOK, Se!Set, Se!Idle, Writing
<1>. QED
  BY <1>1, <1>2, <1>3, <1>4 DEF Se!Continue, Se!UpdateRow, Se!InsertNewRow, Se!DeleteRow

LEMMA NextKeepsEmpty == Se!TypeOK /\ ClearedStaysEmpty /\ [Se!Next]_(Se!vars) => ClearedStaysEmpty'
<1>. SUFFICES ASSUME Se!TypeOK, ClearedStaysEmpty, [Se!Next]_(Se!vars)
              PROVE  ClearedStaysEmpty'
  OBVIOUS
<1>1. CASE UNCHANGED Se!vars
  BY <1>1 DEF ClearedStaysEmpty, Se!vars
<1>. QED
  BY <1>1, CallKeepsEmpty, ContinueKeepsEmpty DEF Se!Next

\* Only a write that leaves the row different, and a get that fills what the
\* row no longer holds, make a cache stale.
LEMMA BecomesStale ==
    ASSUME Se!TypeOK, ClearedStaysEmpty, [Se!Next]_(Se!vars), NEW s \in Servers, Se!Current(s), ~Se!Current(s)'
    PROVE  Se!WrittenElsewhere(s) \/ Se!Refilled(s) \/ Se!Outdated(s)
<1>1. ASSUME NEW r \in Requests, NEW t \in Servers, Se!Call(r, t)
      PROVE  FALSE
  <2>1. content' = content /\ (cache'[s] = cache[s] \/ cache'[s] = Se!NotCached)
    BY <1>1 DEF Se!Call, Se!Get, Se!Delete, Se!Insert, Se!Write, Se!Cleared, Se!TypeOK
  <2>. QED
    BY <2>1 DEF Se!Current
<1>2. ASSUME NEW r \in Requests, Se!Fill(r)
      PROVE  Se!Outdated(s)
  <2>1. content' = content /\ cache' = [cache EXCEPT ![settingReq[r].server] = settingReq[r].value]
    BY <1>2 DEF Se!Fill
  <2>2. settingReq[r].server = s
    BY <2>1 DEF Se!Current, Se!TypeOK
  <2>. QED
    BY <1>2, <2>1, <2>2 DEF Se!Fill, Se!Outdated, Se!TypeOK
<1>3. ASSUME NEW r \in Requests, Se!Read(r) \/ Se!Exists(r) \/ Se!StoreExists(r)
      PROVE  FALSE
  BY <1>3 DEF Se!Read, Se!Exists, Se!StoreExists, Se!Current
<1>4. ASSUME NEW r \in Requests, NEW v, settingReq[r].at \in Writing, Se!Set(r, v)
      PROVE  Se!WrittenElsewhere(s) \/ Se!Refilled(s)
  <2>1. cache' = cache /\ content' # content /\ cache[s] # Se!NotCached
    BY <1>4 DEF Se!Set, Se!Current
  <2>2. settingReq'[r] # settingReq[r]
    BY <1>4 DEF Se!Set, Se!TypeOK, Se!Idle, Writing
  <2>3. CASE settingReq[r].server = s
    BY <1>4, <2>1, <2>2, <2>3 DEF ClearedStaysEmpty, Se!Refilled
  <2>4. CASE settingReq[r].server # s
    BY <2>1, <2>2, <2>4 DEF Se!WrittenElsewhere
  <2>. QED
    BY <2>3, <2>4
<1>5. ASSUME NEW r \in Requests, Se!UpdateRow(r) \/ Se!InsertNewRow(r) \/ Se!DeleteRow(r)
      PROVE  Se!WrittenElsewhere(s) \/ Se!Refilled(s)
  BY <1>4, <1>5 DEF Se!UpdateRow, Se!InsertNewRow, Se!DeleteRow, Se!At, Writing
<1>6. CASE UNCHANGED Se!vars
  BY <1>6 DEF Se!vars, Se!Current
<1>. QED
  BY <1>1, <1>2, <1>3, <1>5, <1>6 DEF Se!Next, Se!Continue

\* A cache that is current, or empty, becomes stale only by a write of another
\* server, by a get between the clearing and the write, or by a get that read
\* before a write, whatever requests come to whatever servers (setting-service).
THEOREM CachesStaleOnlyByRaces == CachesSpec => StaleOnlyByRaces
<1>1. CachesInit => Se!TypeOK /\ ClearedStaysEmpty
  BY SettingsInitType DEF CachesInit, Se!Init, ClearedStaysEmpty, Se!Idle, Writing
<1>2. Se!TypeOK /\ ClearedStaysEmpty /\ [CachesNext]_allVars
         => Se!TypeOK' /\ ClearedStaysEmpty'
  BY SettingsStep, SettingsNextType, NextKeepsEmpty
<1>3. Se!TypeOK /\ ClearedStaysEmpty /\ [CachesNext]_allVars
         => [\A s \in Servers : Se!Current(s) /\ ~Se!Current(s)' =>
                Se!WrittenElsewhere(s) \/ Se!Refilled(s) \/ Se!Outdated(s)]_(Se!vars)
  BY SettingsStep, BecomesStale
<1>. QED
  BY <1>1, <1>2, <1>3, PTL DEF CachesSpec, StaleOnlyByRaces, Se!StaleOnlyByRaces

-----------------------------------------------------------------------------
(* Add-ons: one fetch at a time, whose events come after all that has been *)
(* delivered, in the order in which they were emitted.                     *)

Ascending(s) == \A i, j \in DOMAIN s : i < j => s[i] < s[j]
Precedes(s, t) == \A i \in DOMAIN s, j \in DOMAIN t : s[i] < t[j]
UpTo(s, n) == \A i \in DOMAIN s : s[i] <= n

LEMMA Concatenation ==
    ASSUME NEW s \in Seq(Nat), NEW t \in Seq(Nat), NEW n \in Nat,
           Ascending(s), Ascending(t), Precedes(s, t), UpTo(s, n), UpTo(t, n)
    PROVE  /\ s \o t \in Seq(Nat) /\ Ascending(s \o t) /\ UpTo(s \o t, n)
           /\ \A u \in Seq(Nat) : Precedes(s, u) /\ Precedes(t, u) => Precedes(s \o t, u)
<1>1. /\ s \o t \in Seq(Nat) /\ Len(s \o t) = Len(s) + Len(t)
      /\ DOMAIN s = 1..Len(s) /\ DOMAIN t = 1..Len(t) /\ DOMAIN (s \o t) = 1..Len(s \o t)
      /\ Len(s) \in Nat /\ Len(t) \in Nat
  OBVIOUS
<1>2. ASSUME NEW i \in DOMAIN (s \o t)
      PROVE  \/ i \in DOMAIN s /\ (s \o t)[i] = s[i]
             \/ i - Len(s) \in DOMAIN t /\ (s \o t)[i] = t[i - Len(s)] /\ i > Len(s)
  BY <1>1
<1>3. Ascending(s \o t)
  BY <1>1, <1>2 DEF Ascending, Precedes
<1>4. UpTo(s \o t, n)
  BY <1>2 DEF UpTo
<1>5. ASSUME NEW u \in Seq(Nat), Precedes(s, u), Precedes(t, u)
      PROVE  Precedes(s \o t, u)
  BY <1>2, <1>5 DEF Precedes
<1>. QED
  BY <1>1, <1>3, <1>4, <1>5

LEMMA OneEvent ==
    ASSUME NEW n \in Nat
    PROVE  /\ <<n>> \in Seq(Nat) /\ Ascending(<<n>>) /\ UpTo(<<n>>, n)
           /\ \A s \in Seq(Nat), m \in Nat : UpTo(s, m) /\ m < n => Precedes(s, <<n>>) /\ UpTo(s, n)
<1>1. <<n>> \in Seq(Nat) /\ DOMAIN <<n>> = {1} /\ <<n>>[1] = n
  OBVIOUS
<1>2. ASSUME NEW s \in Seq(Nat), NEW m \in Nat, UpTo(s, m), m < n
      PROVE  Precedes(s, <<n>>) /\ UpTo(s, n)
  <2>1. \A i \in DOMAIN s : s[i] \in Nat /\ s[i] <= m
    BY <1>2 DEF UpTo
  <2>. QED
    BY <1>1, <1>2, <2>1 DEF Precedes, UpTo
<1>. QED
  BY <1>1, <1>2 DEF Ascending, UpTo

AddonLoad == [events : Seq(Nat), answer : SUBSET (Addons \cup {"unread"})]

Waits(l) ==
    /\ Ascending(l.events) /\ UpTo(l.events, addonEmitted)
    /\ \A a \in Addons : Precedes(delivered[a], l.events)

AddonsInv ==
    /\ enabled \in SUBSET Addons /\ addonEmitted \in Nat /\ stored \in Nat
    /\ addonLoads \in SUBSET AddonLoad
    /\ \A l, other \in addonLoads : l = other
    /\ memo # "fetching" => addonLoads = {}
    /\ delivered \in [Addons -> Seq(Nat)]
    /\ \A a \in Addons : Ascending(delivered[a]) /\ UpTo(delivered[a], addonEmitted)
    /\ \A l \in addonLoads : Waits(l)

\* What is delivered at once, or after a fetch, comes after what was delivered.
LEMMA DeliverKeeps ==
    ASSUME AddonsInv, NEW events \in Seq(Nat), NEW A, Ad!Deliver(events, A),
           addonEmitted' \in Nat, addonEmitted <= addonEmitted',
           Ascending(events), UpTo(events, addonEmitted'),
           \A a \in Addons : Precedes(delivered[a], events)
    PROVE  /\ delivered' \in [Addons -> Seq(Nat)]
           /\ \A a \in Addons : Ascending(delivered'[a]) /\ UpTo(delivered'[a], addonEmitted')
<1>1. ASSUME NEW a \in Addons
      PROVE  /\ delivered[a] \in Seq(Nat) /\ Ascending(delivered[a])
             /\ UpTo(delivered[a], addonEmitted')
  <2>1. \A i \in DOMAIN delivered[a] : delivered[a][i] \in Nat
    BY DEF AddonsInv
  <2>. QED
    BY <2>1 DEF AddonsInv, UpTo
<1>2. ASSUME NEW a \in Addons
      PROVE  delivered'[a] = delivered[a] \o events \/ delivered'[a] = delivered[a]
  BY DEF Ad!Deliver
<1>3. ASSUME NEW a \in Addons
      PROVE  /\ delivered'[a] \in Seq(Nat) /\ Ascending(delivered'[a])
             /\ UpTo(delivered'[a], addonEmitted')
  BY <1>1, <1>2, Concatenation
<1>. QED
  BY <1>3 DEF Ad!Deliver

LEMMA EmitKeeps ==
    ASSUME AddonsInv, Ad!Emit
    PROVE  AddonsInv'
<1>. DEFINE e == addonEmitted + 1
<1>1. /\ stored' \in Nat /\ addonEmitted' = e /\ enabled' = enabled
      /\ addonEmitted \in Nat /\ e \in Nat /\ addonEmitted < e
      /\ Ad!HandleEvent(e)
  BY DEF Ad!Emit, AddonsInv
<1>. HIDE DEF e
<1>2. /\ <<e>> \in Seq(Nat) /\ Ascending(<<e>>) /\ UpTo(<<e>>, e)
      /\ \A a \in Addons : Precedes(delivered[a], <<e>>) /\ UpTo(delivered[a], e)
  BY <1>1, OneEvent DEF AddonsInv
<1>3. CASE memo = "there"
  <2>1. /\ addonLoads = {} /\ addonLoads' = {}
        /\ Ad!Deliver(<<e>>, list)
    BY <1>1, <1>3 DEF Ad!HandleEvent, AddonsInv
  <2>2. addonEmitted <= addonEmitted'
    BY <1>1 DEF e, AddonsInv
  <2>. QED
    BY <1>1, <1>2, <2>1, <2>2, DeliverKeeps DEF AddonsInv
<1>4. CASE memo = "fetching"
  <2>1. /\ addonLoads' = {[l EXCEPT !.events = Append(@, e)] : l \in addonLoads}
        /\ memo' = "fetching" /\ delivered' = delivered
    BY <1>1, <1>4 DEF Ad!HandleEvent, Ad!Join
  <2>2. ASSUME NEW l \in addonLoads
        PROVE  \E m \in AddonLoad : m = [l EXCEPT !.events = Append(@, e)] /\ Waits(m)'
    <3>1. /\ l \in AddonLoad /\ l.events \in Seq(Nat) /\ Waits(l)
          /\ Append(l.events, e) = l.events \o <<e>>
      BY DEF AddonsInv, AddonLoad
    <3>2. PICK m \in AddonLoad : /\ m = [l EXCEPT !.events = Append(@, e)]
                                 /\ m.events = l.events \o <<e>>
      <4>1. ASSUME NEW s \in Seq(Nat)
            PROVE  /\ [l EXCEPT !.events = s] \in AddonLoad
                   /\ [l EXCEPT !.events = s].events = s
        BY <3>1 DEF AddonLoad
      <4>2. Append(l.events, e) \in Seq(Nat)
        BY <1>1, <3>1
      <4>. QED
        BY <3>1, <4>1, <4>2
    <3>3. UpTo(l.events, e) /\ Precedes(l.events, <<e>>)
      BY <1>1, <3>1, OneEvent DEF Waits
    <3>4. Ascending(l.events \o <<e>>) /\ UpTo(l.events \o <<e>>, e)
      BY <1>1, <1>2, <3>1, <3>3, Concatenation DEF Waits
    <3>5. ASSUME NEW a \in Addons
          PROVE  Precedes(delivered[a], l.events \o <<e>>)
      <4>1. /\ Precedes(delivered[a], l.events) /\ Precedes(delivered[a], <<e>>)
        BY <1>2, <3>1 DEF Waits
      <4>2. \A j \in DOMAIN (l.events \o <<e>>) :
               \/ j \in DOMAIN l.events /\ (l.events \o <<e>>)[j] = l.events[j]
               \/ (l.events \o <<e>>)[j] = <<e>>[1] /\ 1 \in DOMAIN <<e>>
        BY <1>1, <3>1
      <4>. QED
        BY <4>1, <4>2 DEF Precedes
    <3>6. Waits(m)'
      BY <1>1, <2>1, <3>2, <3>4, <3>5 DEF Waits
    <3>. QED
      BY <3>2, <3>6
  <2>3. \A m \in addonLoads' : m \in AddonLoad /\ Waits(m)'
    BY <2>1, <2>2
  <2>4. \A m, other \in addonLoads' : m = other
    BY <2>1 DEF AddonsInv
  <2>5. \A a \in Addons : Ascending(delivered'[a]) /\ UpTo(delivered'[a], addonEmitted')
    BY <1>1, <1>2, <2>1 DEF AddonsInv
  <2>. QED
    BY <1>1, <2>1, <2>3, <2>4, <2>5 DEF AddonsInv
<1>5. CASE memo \notin {"there", "fetching"}
  <2>1. /\ addonLoads = {} /\ addonLoads' = addonLoads \cup {Ad!NewLoad(e)}
        /\ memo' = "fetching" /\ delivered' = delivered
    BY <1>1, <1>5 DEF Ad!HandleEvent, Ad!Join, AddonsInv
  <2>2. PICK m \in AddonLoad : m = Ad!NewLoad(e) /\ m.events = <<e>>
    <3>1. [events |-> <<e>>, answer |-> {"unread"}] \in AddonLoad
      BY <1>2 DEF AddonLoad
    <3>. QED
      BY <3>1 DEF Ad!NewLoad, Ad!Unread
  <2>3. Waits(m)'
    BY <1>1, <1>2, <2>1, <2>2 DEF Waits
  <2>4. addonLoads' = {m}
    BY <2>1, <2>2
  <2>5. \A a \in Addons : Ascending(delivered'[a]) /\ UpTo(delivered'[a], addonEmitted')
    BY <1>1, <1>2, <2>1 DEF AddonsInv
  <2>. QED
    BY <1>1, <2>1, <2>3, <2>4, <2>5 DEF AddonsInv
<1>. QED
  BY <1>3, <1>4, <1>5

LEMMA AddonsKeeps ==
    ASSUME AddonsInv, [Ad!Next]_(Ad!vars)
    PROVE  AddonsInv'
<1>1. ASSUME NEW a \in Addons, Ad!UpdateAddon(a)
      PROVE  AddonsInv'
  BY <1>1 DEF Ad!UpdateAddon, AddonsInv, Waits
<1>2. CASE Ad!Store
  BY <1>2 DEF Ad!Store, AddonsInv, Waits
<1>3. CASE Ad!Emit
  BY <1>3, EmitKeeps
<1>4. ASSUME NEW l \in addonLoads, Ad!GetAll(l)
      PROVE  AddonsInv'
  <2>1. PICK m \in AddonLoad : m = [l EXCEPT !.answer = enabled] /\ m.events = l.events
    <3>1. l \in AddonLoad /\ enabled \in SUBSET (Addons \cup {"unread"})
      BY DEF AddonsInv
    <3>2. ASSUME NEW A \in SUBSET (Addons \cup {"unread"})
          PROVE  [l EXCEPT !.answer = A] \in AddonLoad /\ [l EXCEPT !.answer = A].events = l.events
      BY <3>1 DEF AddonLoad
    <3>. QED
      BY <3>1, <3>2
  <2>2. addonLoads' = {m} /\ memo = "fetching"
    BY <1>4, <2>1 DEF Ad!GetAll, AddonsInv
  <2>3. UNCHANGED <<enabled, stored, addonEmitted, memo, delivered>>
    BY <1>4 DEF Ad!GetAll
  <2>4. Waits(m)'
    BY <2>1, <2>3 DEF AddonsInv, Waits
  <2>. QED
    BY <2>2, <2>3, <2>4 DEF AddonsInv
<1>5. ASSUME NEW l \in addonLoads, Ad!Resolve(l)
      PROVE  AddonsInv'
  <2>1. /\ addonLoads' = {} /\ Ad!Deliver(l.events, l.answer)
        /\ UNCHANGED <<enabled, stored, addonEmitted>>
    BY <1>5 DEF Ad!Resolve, AddonsInv
  <2>2. l.events \in Seq(Nat) /\ Waits(l)
    BY DEF AddonsInv, AddonLoad
  <2>3. addonEmitted' \in Nat /\ addonEmitted <= addonEmitted'
    BY <2>1 DEF AddonsInv
  <2>4. /\ delivered' \in [Addons -> Seq(Nat)]
        /\ \A a \in Addons : Ascending(delivered'[a]) /\ UpTo(delivered'[a], addonEmitted')
    BY <2>1, <2>2, <2>3, DeliverKeeps DEF Waits
  <2>. QED
    BY <2>1, <2>4 DEF AddonsInv
<1>6. ASSUME NEW l \in addonLoads, Ad!Reject(l)
      PROVE  AddonsInv'
  <2>1. addonLoads' = {} /\ UNCHANGED <<enabled, stored, addonEmitted, delivered>>
    BY <1>6 DEF Ad!Reject, AddonsInv
  <2>. QED
    BY <2>1 DEF AddonsInv
<1>7. CASE Ad!Expire
  BY <1>7 DEF Ad!Expire, Ad!IsOld, AddonsInv, Waits
<1>8. CASE UNCHANGED Ad!vars
  BY <1>8 DEF Ad!vars, AddonsInv, Waits
<1>. QED
  BY <1>1, <1>2, <1>3, <1>4, <1>5, <1>6, <1>7, <1>8 DEF Ad!Next, Ad!LoadStep

\* For any number of add-ons and events: an add-on is given events in the order
\* in which they were emitted, and none twice (addon-service).
THEOREM CachesInOrder == CachesSpec => []InOrder
<1>1. CachesInit => AddonsInv
  BY DEF CachesInit, Ad!Init, AddonsInv, Ascending, UpTo
<1>2. AddonsInv /\ [CachesNext]_allVars => AddonsInv'
  BY AddonsStep, AddonsKeeps
<1>3. AddonsInv => InOrder
  BY DEF AddonsInv, Ascending, InOrder, Ad!InOrder
<1>. QED
  BY <1>1, <1>2, <1>3, PTL DEF CachesSpec

-----------------------------------------------------------------------------
(* Applications: what is announced stays marked until it is edited or      *)
(* deleted, whatever clients register.                                     *)

AppsInv ==
    /\ apps \in [Apps -> {"absent", "unannounced", "announced"}]
    /\ announced \in [Apps -> Nat]
    /\ edits \in [Apps -> Nat]
    /\ \A a \in Apps : announced[a] <= edits[a] + IF apps[a] = "announced" THEN 1 ELSE 0

LEMMA AppsKeeps ==
    ASSUME AppsInv, [Cl!Next]_(Cl!vars)
    PROVE  AppsInv'
<1>1. ASSUME NEW s, NEW a, NEW e, Cl!RegisterClient(s, a, e)
      PROVE  AppsInv'
  BY <1>1 DEF Cl!RegisterClient, AppsInv
<1>2. ASSUME NEW s, Cl!BulkAdd(s)
      PROVE  AppsInv'
  BY <1>2 DEF Cl!BulkAdd, AppsInv
<1>3. ASSUME NEW f, Cl!UpsertApps(f)
      PROVE  AppsInv'
  <2>1. PICK A : apps' = [a \in Apps |-> IF a \in A THEN Cl!Upserted(a) ELSE apps[a]]
    BY <1>3 DEF Cl!UpsertApps
  <2>2. announced' = announced /\ edits' = edits
    BY <1>3 DEF Cl!UpsertApps
  <2>3. ASSUME NEW a \in Apps
        PROVE  /\ apps'[a] \in {"absent", "unannounced", "announced"}
               /\ apps'[a] = "announced" <=> apps[a] = "announced"
    BY <2>1 DEF Cl!Upserted, AppsInv
  <2>4. \A a \in Apps : announced'[a] <= edits'[a] + IF apps'[a] = "announced" THEN 1 ELSE 0
    BY <2>2, <2>3 DEF AppsInv
  <2>5. apps' \in [Apps -> {"absent", "unannounced", "announced"}]
    BY <2>1, <2>3
  <2>. QED
    BY <2>2, <2>4, <2>5 DEF AppsInv
<1>4. ASSUME NEW f, Cl!UpsertInstances(f) \/ Cl!FailFlush(f)
      PROVE  AppsInv'
  BY <1>4 DEF Cl!UpsertInstances, Cl!FailFlush, AppsInv
<1>5. CASE Cl!SetUnannouncedToAnnounced
  BY <1>5 DEF Cl!SetUnannouncedToAnnounced, Cl!Unannounced, AppsInv
<1>6. CASE Cl!BatchStore
  BY <1>6 DEF Cl!BatchStore, AppsInv
<1>7. ASSUME NEW a \in Apps, Cl!CreateApplication(a)
      PROVE  AppsInv'
  BY <1>7 DEF Cl!CreateApplication, AppsInv
<1>8. ASSUME NEW a \in Apps, Cl!DeleteInstances(a)
      PROVE  AppsInv'
  BY <1>8 DEF Cl!DeleteInstances, AppsInv
<1>9. ASSUME NEW a \in Apps, Cl!DeleteApp(a)
      PROVE  AppsInv'
  BY <1>9 DEF Cl!DeleteApp, AppsInv
<1>10. CASE UNCHANGED Cl!vars
  BY <1>10 DEF Cl!vars, AppsInv
<1>. QED
  BY <1>1, <1>2, <1>3, <1>4, <1>5, <1>6, <1>7, <1>8, <1>9, <1>10 DEF Cl!Next, Cl!FlushStep

\* For any servers and applications: while it exists, an application is marked
\* as announced once, and once more for each edit at most (client-metrics'
\* instance-service).
THEOREM CachesAnnouncedOnce == CachesSpec => []AnnouncedOnce
<1>1. CachesInit => AppsInv
  BY DEF CachesInit, Cl!Init, AppsInv
<1>2. AppsInv /\ [CachesNext]_allVars => AppsInv'
  BY ClientsStep, AppsKeeps
<1>3. AppsInv => AnnouncedOnce
  BY DEF AppsInv, AnnouncedOnce, Cl!AnnouncedOnce
<1>. QED
  BY <1>1, <1>2, <1>3, PTL DEF CachesSpec

-----------------------------------------------------------------------------
(* The proxy, by itself: clients are ready when they serve, and fall behind *)
(* in the four named ways only.                                            *)

Stepped(l, step, v) == [l EXCEPT !.at = step, !.value = v]

\* A load that goes on stays a load of the same repository.
LEMMA StepType ==
    ASSUME NEW l \in Load, NEW v \in Versions,
           NEW step \in {"readFeatures", "setFeatures", "readSegments", "setSegments"}
    PROVE  /\ Stepped(l, step, v) \in Load
           /\ Stepped(l, step, v).repo = l.repo
           /\ Stepped(l, step, v).at = step
           /\ Stepped(l, step, v).value = v
BY DEF Load, Stepped

\* Step replaces a load by the one that goes on.
LEMMA StepMeans ==
    ASSUME NEW l, NEW step, NEW v, Step(l, step, v)
    PROVE  loads' = (loads \ {l}) \cup {Stepped(l, step, v)}
BY DEF Step, Stepped

\* A new load is a load that has read nothing.
LEMMA NewLoadType ==
    ASSUME NEW r \in Repos, NEW n \in 0..MaxVersion
    PROVE  /\ NewLoad(r, n) \in Load
           /\ NewLoad(r, n).repo = r
           /\ NewLoad(r, n).at = "readFeatures"
BY ProxyAssumption DEF NewLoad, Load, Versions

\* The initial state has its types.
LEMMA TypeInit == Init => TypeOK
BY ProxyAssumption DEF Init, TypeOK, Versions, Repository

\* Every step keeps the types.
LEMMA TypeStep == TypeOK /\ [Next]_vars => TypeOK'
<1> SUFFICES ASSUME TypeOK, [Next]_vars PROVE TypeOK'
  OBVIOUS
<1> USE ProxyAssumption DEF TypeOK, Versions
<1>1. CASE Change
  BY <1>1 DEF Change
<1>2. CASE ForeignChange
  BY <1>2 DEF ForeignChange
<1>3. CASE Emit
  <2>1. emitted + 1 \in 0..MaxVersion /\ unsent - 1 \in Nat
    BY <1>3 DEF Emit
  <2>2. loads' \in SUBSET Load
    BY <1>3, <2>1, NewLoadType DEF Emit
  <2> QED BY <1>3, <2>2 DEF Emit
<1>4. ASSUME NEW t \in Tokens, NEW r \in Repos, RequestClient(t, r) PROVE TypeOK'
  <2>1. loads' \in SUBSET Load
    BY <1>4, NewLoadType DEF RequestClient
  <2> QED BY <1>4, <2>1 DEF RequestClient, Repository
<1>5. ASSUME NEW r \in Repos, SetClient(r) PROVE TypeOK'
  BY <1>5 DEF SetClient, Repository
<1>6. ASSUME NEW t \in Tokens, DeleteClient(t) PROVE TypeOK'
  BY <1>6 DEF DeleteClient
<1>7. ASSUME NEW l \in loads, ReadFeatures(l) \/ ReadSegments(l) PROVE TypeOK'
  <2>1. PICK step \in {"setFeatures", "setSegments"} : Step(l, step, version)
    BY <1>7 DEF ReadFeatures, ReadSegments
  <2>2. loads' \in SUBSET Load
    BY <2>1, StepMeans, StepType
  <2> QED BY <1>7, <2>2 DEF ReadFeatures, ReadSegments
<1>8. ASSUME NEW l \in loads, SetFeatures(l) PROVE TypeOK'
  <2>1. loads' \in SUBSET Load
    <3>1. Step(l, "readSegments", 0)
      BY <1>8 DEF SetFeatures, ThenSegments
    <3> QED BY <3>1, StepMeans, StepType
  <2> QED BY <1>8, <2>1 DEF SetFeatures, Repository, Load
<1>9. ASSUME NEW l \in loads, SetSegments(l) PROVE TypeOK'
  BY <1>9 DEF SetSegments, Repository, Load
<1>10. ASSUME NEW l \in loads, FailLoad(l) PROVE TypeOK'
  BY <1>10 DEF FailLoad
<1>11. CASE UNCHANGED vars
  BY <1>11 DEF vars
<1> QED BY <1>1, <1>2, <1>3, <1>4, <1>5, <1>6, <1>7, <1>8, <1>9, <1>10, <1>11 DEF Next, LoadStep

\* The state of the proxy has its types, and no event is emitted that does
\* not report a change.
THEOREM ProxyTypeCorrect == Spec => []TypeOK
BY TypeInit, TypeStep, PTL DEF Spec

-----------------------------------------------------------------------------
\* What is awaited was requested for a token, and stays for this token.
HasToken == \A r \in Repos : repo[r].awaited => repo[r].token \in Tokens

\* A repository that serves a token is no longer free to be made anew.
LEMMA ReadyStep ==
    TypeOK /\ HasToken /\ ClientsAreReady /\ [Next]_vars => (HasToken /\ ClientsAreReady)'
<1> SUFFICES ASSUME TypeOK, HasToken, ClientsAreReady, [Next]_vars
             PROVE  (HasToken /\ ClientsAreReady)'
  OBVIOUS
<1> USE ProxyAssumption DEF TypeOK, HasToken, ClientsAreReady
<1>1. CASE UNCHANGED <<repo, clients>>
  BY <1>1
<1>2. ASSUME NEW t \in Tokens, NEW r \in Repos, RequestClient(t, r)
      PROVE  (HasToken /\ ClientsAreReady)'
  BY <1>2 DEF RequestClient, Repository
<1>3. ASSUME NEW r \in Repos, SetClient(r) PROVE (HasToken /\ ClientsAreReady)'
  BY <1>3 DEF SetClient, IsReady, Repository
<1>4. ASSUME NEW t \in Tokens, DeleteClient(t) PROVE (HasToken /\ ClientsAreReady)'
  BY <1>4 DEF DeleteClient
<1>5. ASSUME NEW l \in loads, SetFeatures(l) PROVE (HasToken /\ ClientsAreReady)'
  BY <1>5 DEF SetFeatures, Repository, Load
<1>6. ASSUME NEW l \in loads, SetSegments(l) PROVE (HasToken /\ ClientsAreReady)'
  BY <1>6 DEF SetSegments, Repository, Load
<1> QED BY <1>1, <1>2, <1>3, <1>4, <1>5, <1>6
        DEF Next, Change, ForeignChange, Emit, LoadStep, ReadFeatures, ReadSegments,
            FailLoad, vars

\* Every client that serves has loaded and listens.
THEOREM ReadyCorrect == Spec => []ClientsAreReady
<1>1. Init => HasToken /\ ClientsAreReady
  BY ProxyAssumption DEF Init, HasToken, ClientsAreReady
<1> QED BY <1>1, ProxyTypeCorrect, ReadyStep, PTL DEF Spec

-----------------------------------------------------------------------------
FallsBehind(r) == Covered(r) /\ ~Covered(r)'

Raced(r) == ChangedElsewhere \/ Starting(r) \/ Outdated(r) \/ Failed(r)

\* Loads of other repositories, and steps that neither end a load nor change
\* what the repository has, do not matter.
LEMMA StaysCovered ==
    ASSUME TypeOK, NEW r \in Repos, Covered(r),
           version' = version, unsent' = unsent,
           repo'[r].features = repo[r].features, repo'[r].segments = repo[r].segments,
           repo[r].subscribed => repo'[r].subscribed,
           \A l \in loads : l.repo = r => l \in loads'
    PROVE  Covered(r)'
BY DEF Covered, FeaturesCovered, SegmentsCovered, EventDue

\* What a load reads is current.
LEMMA ReadCovers ==
    ASSUME TypeOK, NEW r \in Repos, Covered(r), NEW l \in loads,
           ReadFeatures(l) \/ ReadSegments(l)
    PROVE  Covered(r)'
<1>1. PICK step \in {"setFeatures", "setSegments"} :
          /\ Step(l, step, version)
          /\ l.at = "readFeatures" => step = "setFeatures"
          /\ l.at = "readSegments" => step = "setSegments"
  BY DEF ReadFeatures, ReadSegments
<1> DEFINE m == Stepped(l, step, version)
<1>2. /\ loads' = (loads \ {l}) \cup {m}
      /\ m.repo = l.repo /\ m.value = version /\ m.at = step
  <2>1. l \in Load /\ version \in Versions
    BY DEF TypeOK
  <2> QED BY <1>1, <2>1, StepMeans, StepType
<1> HIDE DEF m
<1> QED BY <1>1, <1>2 DEF ReadFeatures, ReadSegments, Covered, FeaturesCovered,
                          SegmentsCovered, EventDue

\* A load is never ahead of the database.
NotAhead == \A l \in loads : l.value <= version

\* Versions only grow, and loads take the current one.
LEMMA NotAheadStep == TypeOK /\ NotAhead /\ [Next]_vars => NotAhead'
<1> SUFFICES ASSUME TypeOK, NotAhead, [Next]_vars PROVE NotAhead'
  OBVIOUS
<1> USE ProxyAssumption DEF TypeOK, NotAhead, Versions
<1>1. \A r, n : NewLoad(r, n).value = 0
  BY DEF NewLoad
<1>2. CASE version' \in {version, version + 1} /\ \A l \in loads' \ loads : l.value = 0
  <2>1. \A l \in loads : l.value \in Nat
    BY DEF Load
  <2> QED BY <1>2, <2>1
<1>3. ASSUME NEW l \in loads, NEW step, NEW v \in {0, version},
             step \in {"setFeatures", "readSegments", "setSegments"},
             Step(l, step, v), UNCHANGED version
      PROVE  NotAhead'
  <2>1. loads' = (loads \ {l}) \cup {Stepped(l, step, v)}
    BY <1>3, StepMeans
  <2>2. Stepped(l, step, v).value = v
    <3>1. l \in Load /\ v \in Versions
      OBVIOUS
    <3> QED BY <1>3, <3>1, StepType
  <2> QED BY <1>3, <2>1, <2>2
<1>4. ASSUME NEW l \in loads, ReadFeatures(l) \/ ReadSegments(l) \/ SetFeatures(l)
      PROVE  NotAhead'
  BY <1>3, <1>4 DEF ReadFeatures, ReadSegments, SetFeatures, ThenSegments
<1>5. CASE Change \/ ForeignChange \/ UNCHANGED vars
  BY <1>2, <1>5 DEF Change, ForeignChange, vars
<1>6. CASE Emit
  BY <1>1, <1>2, <1>6 DEF Emit
<1>7. ASSUME NEW t \in Tokens, NEW r \in Repos, RequestClient(t, r)
      PROVE  NotAhead'
  BY <1>1, <1>2, <1>7 DEF RequestClient
<1>8. CASE (\E t \in Tokens : DeleteClient(t)) \/ (\E r \in Repos : SetClient(r))
  BY <1>2, <1>8 DEF DeleteClient, SetClient
<1>9. ASSUME NEW l \in loads, SetSegments(l) \/ FailLoad(l) PROVE NotAhead'
  BY <1>2, <1>9 DEF SetSegments, FailLoad
<1> QED BY <1>4, <1>5, <1>6, <1>7, <1>8, <1>9 DEF Next, LoadStep

\* Features that are set are current, unless the load is outdated.
LEMMA SetFeaturesCovers ==
    ASSUME TypeOK, NotAhead, NEW r \in Repos, FallsBehind(r), NEW l \in loads, SetFeatures(l)
    PROVE  Outdated(r)
<1> DEFINE m == Stepped(l, "readSegments", 0)
<1>1. /\ loads' = (loads \ {l}) \cup {m}
      /\ m.repo = l.repo /\ m.at = "readSegments"
  <2>1. l \in Load /\ 0 \in Versions
    BY ProxyAssumption DEF TypeOK, Versions
  <2>2. Step(l, "readSegments", 0)
    BY DEF SetFeatures, ThenSegments
  <2> QED BY <2>1, <2>2, StepMeans, StepType
<1> HIDE DEF m
<1>2. /\ repo'[l.repo].features = l.value
      /\ \A q \in Repos : /\ repo'[q].segments = repo[q].segments
                          /\ repo'[q].subscribed = repo[q].subscribed
                          /\ q # l.repo => repo'[q].features = repo[q].features
      /\ version' = version /\ unsent' = unsent /\ l.at = "setFeatures"
      /\ l \in Load
  BY DEF SetFeatures, TypeOK, Repository, Load
<1>3. l.repo = r
  BY <1>1, <1>2 DEF FallsBehind, Covered, FeaturesCovered, SegmentsCovered, EventDue
<1>4. SegmentsCovered(r)'
  BY <1>1, <1>3 DEF SegmentsCovered
<1>5. l.value # version
  BY <1>2, <1>3, <1>4 DEF FallsBehind, Covered, FeaturesCovered
<1>6. l.value < version
  BY <1>5 DEF NotAhead, TypeOK, Load, Versions
<1>7. l \notin loads'
  BY <1>1, <1>2
<1> QED BY <1>2, <1>3, <1>6, <1>7 DEF Outdated

\* Segments that are set are current, unless the load is outdated.
LEMMA SetSegmentsCovers ==
    ASSUME TypeOK, NotAhead, NEW r \in Repos, FallsBehind(r), NEW l \in loads, SetSegments(l)
    PROVE  Outdated(r)
<1>1. /\ loads' = loads \ {l}
      /\ repo'[l.repo].segments = l.value
      /\ \A q \in Repos : /\ repo'[q].features = repo[q].features
                          /\ repo[q].subscribed => repo'[q].subscribed
                          /\ q # l.repo => repo'[q].segments = repo[q].segments
      /\ version' = version /\ unsent' = unsent /\ l.at = "setSegments"
      /\ l \in Load
  BY DEF SetSegments, TypeOK, Repository, Load
<1>2. FeaturesCovered(r) => FeaturesCovered(r)'
  BY <1>1 DEF FeaturesCovered, EventDue
<1>3. l.repo = r
  BY <1>1, <1>2 DEF FallsBehind, Covered, SegmentsCovered, EventDue
<1>4. l.value # version
  BY <1>1, <1>2, <1>3 DEF FallsBehind, Covered, SegmentsCovered
<1>5. l.value < version
  BY <1>4 DEF NotAhead, TypeOK, Load, Versions
<1> QED BY <1>1, <1>3, <1>5 DEF Outdated

\* An emitted event starts a load of every repository that listens.
LEMMA EmitCovers ==
    ASSUME TypeOK, NEW r \in Repos, Emit, Covered(r)
    PROVE  Covered(r)'
<1>1. CASE repo[r].subscribed
  <2> DEFINE m == NewLoad(r, emitted + 1)
  <2>1. m \in loads' /\ m.repo = r /\ m.at = "readFeatures"
    BY <1>1 DEF Emit, NewLoad
  <2> HIDE DEF m
  <2> QED BY <2>1 DEF Covered, FeaturesCovered, SegmentsCovered
<1>2. CASE ~repo[r].subscribed
  BY <1>2 DEF Emit, Covered, FeaturesCovered, SegmentsCovered, EventDue
<1> QED BY <1>1, <1>2

\* The steps of the proxy, one by one.
LEMMA FallsBehindStep ==
    ASSUME TypeOK, NotAhead, NEW r \in Repos, FallsBehind(r), Next
    PROVE  Raced(r)
<1>1. CASE Change
  BY <1>1 DEF Change, TypeOK, Raced, Starting, FallsBehind, Covered, FeaturesCovered,
              SegmentsCovered, EventDue
<1>2. CASE ForeignChange
  BY <1>2 DEF ForeignChange, TypeOK, Versions, Raced, ChangedElsewhere
<1>3. CASE Emit
  BY <1>3, EmitCovers DEF FallsBehind
<1>4. ASSUME NEW t \in Tokens, NEW q \in Repos, RequestClient(t, q) PROVE FALSE
  BY <1>4, StaysCovered DEF RequestClient, FallsBehind, TypeOK, Repository
<1>5. ASSUME NEW q \in Repos, SetClient(q) PROVE FALSE
  BY <1>5, StaysCovered DEF SetClient, FallsBehind, TypeOK, Repository
<1>6. ASSUME NEW t \in Tokens, DeleteClient(t) PROVE FALSE
  BY <1>6, StaysCovered DEF DeleteClient, FallsBehind
<1>7. ASSUME NEW l \in loads, ReadFeatures(l) \/ ReadSegments(l) PROVE FALSE
  BY <1>7, ReadCovers DEF FallsBehind
<1>8. ASSUME NEW l \in loads, SetFeatures(l) \/ SetSegments(l) PROVE Raced(r)
  BY <1>8, SetFeaturesCovers, SetSegmentsCovers DEF Raced
<1>9. ASSUME NEW l \in loads, FailLoad(l) PROVE Raced(r)
  <2>1. l.repo = r
    BY <1>9, StaysCovered DEF FailLoad, FallsBehind
  <2> QED BY <1>9, <2>1 DEF FailLoad, Raced, Failed
<1> QED BY <1>1, <1>2, <1>3, <1>4, <1>5, <1>6, <1>7, <1>8, <1>9 DEF Next, LoadStep

\* A repository falls behind the database only by a change elsewhere, while
\* it starts, by a load that a change overtook, or by one that failed.
THEOREM FallsBehindCorrect == Spec => FallsBehindOnlyByRaces
<1> DEFINE Only == \A r \in Repos : FallsBehind(r) => Raced(r)
<1>1. Init => NotAhead
  BY DEF Init, NotAhead
<1>2. TypeOK /\ NotAhead /\ [Next]_vars => [Only]_vars
  BY FallsBehindStep
<1>3. Spec => []NotAhead
  BY <1>1, NotAheadStep, ProxyTypeCorrect, PTL DEF Spec
<1>4. Only => (\A r \in Repos : Covered(r) /\ ~Covered(r)' =>
                  ChangedElsewhere \/ Starting(r) \/ Outdated(r) \/ Failed(r))
  BY DEF FallsBehind, Raced
<1>5. TypeOK /\ NotAhead /\ [Next]_vars =>
        [\A r \in Repos : Covered(r) /\ ~Covered(r)' =>
            ChangedElsewhere \/ Starting(r) \/ Outdated(r) \/ Failed(r)]_vars
  BY <1>2, <1>4
<1> QED BY <1>3, <1>5, ProxyTypeCorrect, PTL DEF Spec, FallsBehindOnlyByRaces
=============================================================================
