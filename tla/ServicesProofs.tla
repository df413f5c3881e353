--------------------------- MODULE ServicesProofs ---------------------------
(***************************************************************************)
(* Proofs about Services, for any number of requests and any values of the  *)
(* other constants.  Since the services share no state, a step of Services  *)
(* is a step of each of them or leaves it alone; what is proved of a service *)
(* holds of Services.                                                       *)
(***************************************************************************)
EXTENDS Services, TLAPS

LEMMA AccountsStep ==
    ASSUME [ServicesNext]_allVars
    PROVE  [Ac!Next]_(Ac!vars)
BY DEF ServicesNext, InFocus, allVars, accountVars, Ac!vars

LEMMA FeaturesStep ==
    ASSUME [ServicesNext]_allVars
    PROVE  [Fe!Next]_(Fe!vars)
BY DEF ServicesNext, InFocus, allVars, featureVars, Fe!vars

LEMMA SegmentsStep ==
    ASSUME [ServicesNext]_allVars
    PROVE  [Sg!Next]_(Sg!vars)
BY DEF ServicesNext, InFocus, allVars, segmentVars, Sg!vars

LEMMA VariantsStep ==
    ASSUME [ServicesNext]_allVars
    PROVE  [Va!Next]_(Va!vars)
BY DEF ServicesNext, InFocus, allVars, Va!vars

LEMMA GroupsStep ==
    ASSUME [ServicesNext]_allVars
    PROVE  [Gr!Next]_(Gr!vars)
BY DEF ServicesNext, InFocus, allVars, groupVars, Gr!vars

LEMMA OverrideStep ==
    ASSUME [ServicesNext]_allVars
    PROVE  [Ov!Next]_(Ov!vars)
BY DEF ServicesNext, InFocus, allVars, overrideVars, Ov!vars

LEMMA ImportStep ==
    ASSUME [ServicesNext]_allVars
    PROVE  [Im!Next]_(Im!vars)
BY DEF ServicesNext, InFocus, allVars, importVars, Im!vars

-----------------------------------------------------------------------------
(* Accounts.                                                               *)

AccountSteps == {"idle", "insertUser", "removeRoles", "addRole", "unlinkRoles", "deleteSessions",
                 "deleteRow", "saveSession", "expireTokens", "insertToken", "isValid", "useToken",
                 "setPassword"}

AccountRequest == [kind : Ac!Kinds \cup {Ac!Nothing}, at : AccountSteps,
                   role : RootRoles \cup {Ac!Nothing}, token : ResetTokens \cup {Ac!Nothing},
                   read : Nat]

\* The statements that a request of each kind comes to, and what it holds.
AccountHolds(q) ==
    /\ q.at \in {"insertUser", "removeRoles", "addRole"} => q.kind = "role" /\ q.role \in RootRoles
    /\ q.at \in {"expireTokens", "insertToken"} => q.kind = "link"
    /\ q.at = "saveSession" => q.kind = "login"
    /\ q.at \in {"isValid", "useToken"} => q.kind = "reset" /\ q.token \in ResetTokens
    /\ q.at = "setPassword" => q.kind \in {"reset", "password"}
    /\ q.at = "deleteSessions" => q.kind \in {"reset", "delete"}
    /\ q.at \in {"unlinkRoles", "deleteRow"} => q.kind = "delete"

\* Two requests that overlap have been seen to.
AccountOverlaps ==
    \A r, q \in Requests :
        /\ r # q
        /\ accountReq[r].kind # Ac!Nothing
        /\ Ac!Overlaps(accountReq[r].kind, accountReq[q].kind)
        => {accountReq[r].kind, accountReq[q].kind} \subseteq overlapped

AccountRequestsOK ==
    /\ accountReq \in [Requests -> AccountRequest]
    /\ \A r \in Requests : AccountHolds(accountReq[r])
    /\ AccountOverlaps

LEMMA AccountBegin ==
    ASSUME AccountRequestsOK, NEW r \in Requests, NEW rec \in AccountRequest, AccountHolds(rec),
           rec.kind # Ac!Nothing, Ac!Begin(r, rec)
    PROVE  AccountRequestsOK' /\ overlapped \subseteq overlapped'
<1>1. accountReq' = [accountReq EXCEPT ![r] = rec]
  BY DEF Ac!Begin
<1>2. overlapped' = overlapped \cup
          UNION {{rec.kind, accountReq[q].kind} :
                    q \in {p \in Requests : Ac!Overlaps(rec.kind, accountReq[p].kind)}}
  BY DEF Ac!Begin
<1>3. accountReq' \in [Requests -> AccountRequest]
  BY <1>1 DEF AccountRequestsOK
<1>4. \A q \in Requests : AccountHolds(accountReq'[q])
  BY <1>1 DEF AccountRequestsOK
<1>5. ASSUME NEW q \in Requests, Ac!Overlaps(rec.kind, accountReq[q].kind)
      PROVE  {rec.kind, accountReq[q].kind} \subseteq overlapped'
  BY <1>2, <1>5
<1>6. \A k, l : Ac!Overlaps(k, l) => Ac!Overlaps(l, k)
  BY DEF Ac!Overlaps
<1>7. AccountOverlaps'
  BY <1>1, <1>2, <1>5, <1>6 DEF AccountOverlaps, AccountRequestsOK
<1>. QED
  BY <1>2, <1>3, <1>4, <1>7 DEF AccountRequestsOK

LEMMA AccountGoesOn ==
    ASSUME AccountRequestsOK, NEW r \in Requests, NEW rec \in AccountRequest, AccountHolds(rec),
           rec.kind \in {accountReq[r].kind, Ac!Nothing}, overlapped' = overlapped,
           accountReq' = [accountReq EXCEPT ![r] = rec]
    PROVE  AccountRequestsOK'
<1>1. accountReq' \in [Requests -> AccountRequest]
  BY DEF AccountRequestsOK
<1>2. \A q \in Requests : AccountHolds(accountReq'[q])
  BY DEF AccountRequestsOK
<1>3. ASSUME NEW k, k # Ac!Nothing
      PROVE  ~Ac!Overlaps(k, Ac!Nothing)
  BY <1>3 DEF Ac!Overlaps, Ac!Nothing
<1>4. AccountOverlaps'
  BY <1>3 DEF AccountOverlaps, AccountRequestsOK
<1>. QED
  BY <1>1, <1>2, <1>4 DEF AccountRequestsOK

\* What else the proofs need to know of the state.
AccountTypeOK ==
    /\ user \in {"absent", "present", "deleted"}
    /\ token \in [ResetTokens -> {"new", "active", "used", "expired"}]
    /\ uses \in [ResetTokens -> Nat]
    /\ password \in Nat
    /\ AccountRequestsOK

\* How a request begins.
AccountBegins(rec) ==
    /\ rec.kind # Ac!Nothing
    /\ rec.at \in {"insertUser", "removeRoles", "unlinkRoles", "saveSession", "expireTokens",
                   "isValid", "setPassword"}
    /\ rec.at = "insertUser" => user = "absent"
    /\ rec.kind = "delete" => user = "present"
    /\ rec.at = "saveSession" => user = "present" /\ rec.read = password
    /\ rec.at = "isValid" => token[rec.token] = "active"

LEMMA AccountCall ==
    ASSUME AccountTypeOK, NEW r \in Requests, Ac!Call(r)
    PROVE  /\ UNCHANGED <<user, password, rootRoles, sessions, token, uses, validFrom>>
           /\ \E rec \in AccountRequest :
                 AccountHolds(rec) /\ AccountBegins(rec) /\ Ac!Begin(r, rec)
<1>. DEFINE Starts(rec) ==
        /\ UNCHANGED <<user, password, rootRoles, sessions, token, uses, validFrom>>
        /\ rec \in AccountRequest
        /\ AccountHolds(rec) /\ AccountBegins(rec) /\ Ac!Begin(r, rec)
<1>. USE DEF AccountRequest, AccountSteps, Ac!Kinds, Ac!Nothing, Ac!Idle
<1>1. CASE \E role \in RootRoles : Ac!CreateUser(r, role)
  <2>. PICK role \in RootRoles : Ac!CreateUser(r, role)
    BY <1>1
  <2>. DEFINE rec == [Ac!Idle EXCEPT !.kind = "role", !.at = "insertUser", !.role = role]
  <2>1. Starts(rec)
    BY DEF Ac!CreateUser, AccountHolds, AccountBegins
  <2>. QED
    BY <2>1
<1>2. CASE \E role \in RootRoles : Ac!UpdateUser(r, role)
  <2>. PICK role \in RootRoles : Ac!UpdateUser(r, role)
    BY <1>2
  <2>. DEFINE rec == [Ac!Idle EXCEPT !.kind = "role", !.at = "removeRoles", !.role = role]
  <2>1. Starts(rec)
    BY DEF Ac!UpdateUser, AccountHolds, AccountBegins
  <2>. QED
    BY <2>1
<1>3. CASE \E t \in ResetTokens : Ac!ResetPassword(r, t)
  <2>. PICK t \in ResetTokens : Ac!ResetPassword(r, t)
    BY <1>3
  <2>. DEFINE rec == [Ac!Idle EXCEPT !.kind = "reset", !.at = "isValid", !.token = t]
  <2>1. Starts(rec)
    BY DEF Ac!ResetPassword, Ac!IsValid, AccountHolds, AccountBegins
  <2>. QED
    BY <2>1
<1>4. CASE Ac!DeleteUser(r)
  <2>. DEFINE rec == [Ac!Idle EXCEPT !.kind = "delete", !.at = "unlinkRoles"]
  <2>1. Starts(rec)
    BY <1>4 DEF Ac!DeleteUser, AccountHolds, AccountBegins
  <2>. QED
    BY <2>1
<1>5. CASE Ac!LoginUser(r)
  <2>. DEFINE rec == [Ac!Idle EXCEPT !.kind = "login", !.at = "saveSession", !.read = password]
  <2>1. Starts(rec)
    BY <1>5 DEF Ac!LoginUser, AccountHolds, AccountBegins, AccountTypeOK
  <2>. QED
    BY <2>1
<1>6. CASE Ac!CreateToken(r)
  <2>. DEFINE rec == [Ac!Idle EXCEPT !.kind = "link", !.at = "expireTokens"]
  <2>1. Starts(rec)
    BY <1>6 DEF Ac!CreateToken, AccountHolds, AccountBegins
  <2>. QED
    BY <2>1
<1>7. CASE Ac!ChangePassword(r)
  <2>. DEFINE rec == [Ac!Idle EXCEPT !.kind = "password", !.at = "setPassword"]
  <2>1. Starts(rec)
    BY <1>7 DEF Ac!ChangePassword, AccountHolds, AccountBegins
  <2>. QED
    BY <2>1
<1>. QED
  BY <1>1, <1>2, <1>3, <1>4, <1>5, <1>6, <1>7 DEF Ac!Call

\* The statement after which a request comes to each statement; when it is
\* done it is idle again.
AccountPredecessor(step) ==
    CASE step = "removeRoles" -> {"insertUser"}
      [] step = "addRole" -> {"removeRoles"}
      [] step = "deleteSessions" -> {"unlinkRoles", "setPassword"}
      [] step = "deleteRow" -> {"deleteSessions"}
      [] step = "insertToken" -> {"expireTokens"}
      [] step = "useToken" -> {"isValid"}
      [] step = "setPassword" -> {"useToken"}
      [] OTHER -> {}

LEMMA AccountContinue ==
    ASSUME AccountTypeOK, NEW r \in Requests, Ac!Continue(r)
    PROVE  /\ overlapped' = overlapped
           /\ \E rec \in AccountRequest :
                 /\ AccountHolds(rec)
                 /\ accountReq' = [accountReq EXCEPT ![r] = rec]
                 /\ \/ rec = Ac!Idle
                    \/ /\ rec.kind = accountReq[r].kind
                       /\ rec.token = accountReq[r].token
                       /\ rec.role = accountReq[r].role
                       /\ accountReq[r].at \in AccountPredecessor(rec.at)
<1>. DEFINE q == accountReq[r]
            Moved(step) == [q EXCEPT !.at = step]
            Steps == {"removeRoles", "addRole", "deleteSessions", "deleteRow", "insertToken",
                      "useToken", "setPassword"}
<1>0. q \in AccountRequest /\ AccountHolds(q) /\ accountReq \in [Requests -> AccountRequest]
  BY DEF AccountTypeOK, AccountRequestsOK
<1>1. Ac!Idle \in AccountRequest /\ AccountHolds(Ac!Idle)
  BY DEF Ac!Idle, Ac!Nothing, AccountRequest, AccountSteps, AccountHolds
<1>2. ASSUME Ac!Finish(r)
      PROVE  accountReq' = [accountReq EXCEPT ![r] = Ac!Idle]
  BY <1>2 DEF Ac!Finish
<1>3. ASSUME NEW step \in Steps, Ac!Goto(r, step), q.at \in AccountPredecessor(step),
             step = "deleteRow" => q.kind # "reset",
             step = "deleteSessions" => q.kind # "password"
      PROVE  /\ Moved(step) \in AccountRequest /\ AccountHolds(Moved(step))
             /\ accountReq' = [accountReq EXCEPT ![r] = Moved(step)]
             /\ Moved(step).kind = q.kind /\ Moved(step).token = q.token
             /\ Moved(step).role = q.role /\ Moved(step).at = step
  <2>1. /\ Moved(step) \in AccountRequest
        /\ Moved(step).kind = q.kind /\ Moved(step).token = q.token
        /\ Moved(step).role = q.role /\ Moved(step).at = step
    BY <1>0 DEF AccountRequest, AccountSteps
  <2>2. AccountHolds(Moved(step))
    BY <1>0, <1>3, <2>1 DEF AccountHolds, AccountPredecessor
  <2>3. accountReq' = [accountReq EXCEPT ![r] = Moved(step)]
    BY <1>0, <1>3 DEF Ac!Goto
  <2>. QED
    BY <2>1, <2>2, <2>3
<1>4. /\ overlapped' = overlapped
      /\ \/ Ac!Finish(r)
         \/ \E step \in Steps :
               /\ Ac!Goto(r, step) /\ q.at \in AccountPredecessor(step)
               /\ step = "deleteRow" => q.kind # "reset"
               /\ step = "deleteSessions" => q.kind # "password"
  BY <1>0 DEF Ac!Continue, Ac!InsertUser, Ac!RemoveRoles, Ac!AddRole, Ac!UnlinkRoles, Ac!DeleteRow,
              Ac!SaveSession, Ac!ExpireTokens, Ac!InsertToken, Ac!IsStillValid, Ac!UseToken,
              Ac!SetPasswordHash, Ac!DeleteSessions, Ac!At, AccountPredecessor, AccountHolds
<1>. QED
  BY <1>1, <1>2, <1>3, <1>4

LEMMA AccountRequestsStep ==
    ASSUME AccountTypeOK, [Ac!Next]_(Ac!vars)
    PROVE  AccountRequestsOK' /\ overlapped \subseteq overlapped'
<1>0. AccountRequestsOK
  BY DEF AccountTypeOK
<1>1. ASSUME NEW r \in Requests, Ac!Call(r)
      PROVE  AccountRequestsOK' /\ overlapped \subseteq overlapped'
  BY <1>0, <1>1, AccountCall, AccountBegin DEF AccountBegins
<1>2. ASSUME NEW r \in Requests, Ac!Continue(r)
      PROVE  AccountRequestsOK' /\ overlapped \subseteq overlapped'
  <2>1. overlapped' = overlapped
    BY <1>2, AccountContinue
  <2>2. PICK rec \in AccountRequest :
               /\ AccountHolds(rec)
               /\ accountReq' = [accountReq EXCEPT ![r] = rec]
               /\ rec = Ac!Idle \/ rec.kind = accountReq[r].kind
    BY <1>2, AccountContinue
  <2>3. rec.kind \in {accountReq[r].kind, Ac!Nothing}
    BY <2>2 DEF Ac!Idle
  <2>. QED
    BY <1>0, <2>1, <2>2, <2>3, AccountGoesOn
<1>3. CASE UNCHANGED <<accountReq, overlapped>>
  BY <1>0, <1>3 DEF AccountRequestsOK, AccountOverlaps
<1>. QED
  BY <1>1, <1>2, <1>3 DEF Ac!Next, Ac!Expire, Ac!vars

LEMMA AccountTypeStep ==
    ASSUME AccountTypeOK, [Ac!Next]_(Ac!vars)
    PROVE  AccountTypeOK'
<1>1. /\ user' \in {"absent", "present", "deleted"}
      /\ token' \in [ResetTokens -> {"new", "active", "used", "expired"}]
      /\ uses' \in [ResetTokens -> Nat]
      /\ password' \in Nat
  <2>1. ASSUME NEW r \in Requests, Ac!Call(r)
        PROVE  UNCHANGED <<user, password, token, uses>>
    BY <2>1, AccountCall
  <2>2. ASSUME NEW r \in Requests, Ac!Continue(r)
        PROVE  <1>1
    <3>1. ASSUME NEW t \in ResetTokens
          PROVE  Ac!Expired(t) \in {"new", "expired"}
      BY DEF Ac!Expired
    <3>2. CASE Ac!DeleteRow(r) \/ Ac!ExpireTokens(r)
      BY <3>1, <3>2 DEF AccountTypeOK, Ac!DeleteRow, Ac!ExpireTokens
    <3>3. CASE Ac!UseToken(r)
      <4>1. accountReq[r].token \in ResetTokens
        BY <3>3 DEF AccountTypeOK, AccountRequestsOK, AccountHolds, Ac!UseToken, Ac!At
      <4>2. token[accountReq[r].token] \in {"new", "active", "used", "expired"}
        BY <4>1 DEF AccountTypeOK
      <4>3. uses[accountReq[r].token] + 1 \in Nat
        BY <4>1 DEF AccountTypeOK
      <4>. QED
        BY <3>3, <4>1, <4>2, <4>3 DEF AccountTypeOK, Ac!UseToken
    <3>4. CASE Ac!InsertToken(r)
      BY <3>4 DEF AccountTypeOK, Ac!InsertToken
    <3>5. CASE Ac!InsertUser(r) \/ Ac!RemoveRoles(r) \/ Ac!AddRole(r) \/ Ac!UnlinkRoles(r)
                 \/ Ac!SaveSession(r) \/ Ac!IsStillValid(r) \/ Ac!SetPasswordHash(r)
                 \/ Ac!DeleteSessions(r)
      BY <3>5 DEF AccountTypeOK, Ac!InsertUser, Ac!RemoveRoles, Ac!AddRole, Ac!UnlinkRoles,
                  Ac!SaveSession, Ac!IsStillValid, Ac!SetPasswordHash, Ac!DeleteSessions
    <3>. QED
      BY <2>2, <3>2, <3>3, <3>4, <3>5 DEF Ac!Continue
  <2>3. ASSUME NEW t \in ResetTokens, Ac!Expire(t)
        PROVE  <1>1
    BY <2>3 DEF AccountTypeOK, Ac!Expire
  <2>. QED
    BY <2>1, <2>2, <2>3 DEF AccountTypeOK, Ac!Next, Ac!vars
<1>. QED
  BY <1>1, AccountRequestsStep DEF AccountTypeOK

\* Two requests of one kind overlap.
LEMMA SameKindOverlaps ==
    ASSUME AccountTypeOK, NEW r \in Requests, NEW q \in Requests, r # q,
           accountReq[r].kind # Ac!Nothing, accountReq[q].kind = accountReq[r].kind
    PROVE  accountReq[r].kind \in overlapped
BY DEF AccountTypeOK, AccountRequestsOK, AccountOverlaps, Ac!Overlaps

-----------------------------------------------------------------------------
(* One root role: while a role is being written there is none from the      *)
(* removal to the insert, and a user that is being deleted has any.         *)

RolesInv ==
    /\ \A r \in Requests : accountReq[r].kind = "delete" => user # "absent"
    /\ "role" \notin overlapped =>
          /\ \A r \in Requests : accountReq[r].at = "insertUser" => user = "absent"
          /\ user = "present" /\ (\A r \in Requests : accountReq[r].kind # "delete") =>
                /\ \A r \in Requests : accountReq[r].at = "addRole" => rootRoles = {}
                /\ (\A r \in Requests : accountReq[r].kind # "role") =>
                      \E role \in RootRoles : rootRoles = {role}

LEMMA DeletedWasPresent ==
    ASSUME AccountTypeOK, RolesInv, [Ac!Next]_(Ac!vars), NEW q \in Requests,
           accountReq'[q].kind = "delete"
    PROVE  user' # "absent"
<1>1. user # "absent" => user' # "absent"
  BY AccountCall DEF Ac!Next, Ac!vars, Ac!Continue, Ac!InsertUser, Ac!RemoveRoles, Ac!AddRole,
              Ac!UnlinkRoles, Ac!DeleteRow, Ac!SaveSession, Ac!ExpireTokens, Ac!InsertToken,
              Ac!IsStillValid, Ac!UseToken, Ac!SetPasswordHash, Ac!DeleteSessions, Ac!Expire
<1>2. CASE accountReq[q].kind = "delete"
  BY <1>1, <1>2 DEF RolesInv
<1>3. ASSUME NEW r \in Requests, Ac!Call(r), accountReq[q].kind # "delete"
      PROVE  user' # "absent"
  <2>1. PICK rec \in AccountRequest : AccountBegins(rec) /\ Ac!Begin(r, rec)
    BY <1>3, AccountCall
  <2>2. accountReq' = [accountReq EXCEPT ![r] = rec]
    BY <2>1 DEF Ac!Begin
  <2>3. user = "present"
    BY <1>3, <2>1, <2>2 DEF AccountBegins, AccountTypeOK, AccountRequestsOK
  <2>. QED
    BY <1>1, <2>3
<1>4. ASSUME NEW r \in Requests, Ac!Continue(r), accountReq[q].kind # "delete"
      PROVE  FALSE
  <2>1. PICK rec \in AccountRequest :
               /\ accountReq' = [accountReq EXCEPT ![r] = rec]
               /\ rec = Ac!Idle \/ rec.kind = accountReq[r].kind
    BY <1>4, AccountContinue
  <2>. QED
    BY <1>4, <2>1 DEF AccountTypeOK, AccountRequestsOK, Ac!Idle, Ac!Nothing
<1>5. CASE UNCHANGED accountReq
  BY <1>2, <1>5
<1>. QED
  BY <1>2, <1>3, <1>4, <1>5 DEF Ac!Next, Ac!vars, Ac!Expire

LEMMA RolesStep ==
    ASSUME AccountTypeOK, RolesInv, [Ac!Next]_(Ac!vars)
    PROVE  RolesInv'
<1>. DEFINE Roles ==
        /\ \A r \in Requests : accountReq[r].at = "insertUser" => user = "absent"
        /\ user = "present" /\ (\A r \in Requests : accountReq[r].kind # "delete") =>
              /\ \A r \in Requests : accountReq[r].at = "addRole" => rootRoles = {}
              /\ (\A r \in Requests : accountReq[r].kind # "role") =>
                    \E role \in RootRoles : rootRoles = {role}
<1>. SUFFICES ASSUME "role" \notin overlapped'
              PROVE  Roles'
  BY DeletedWasPresent DEF RolesInv
<1>0. "role" \notin overlapped
  BY AccountRequestsStep
<1>1. /\ accountReq \in [Requests -> AccountRequest]
      /\ \A r \in Requests : AccountHolds(accountReq[r])
  BY DEF AccountTypeOK, AccountRequestsOK
<1>2. \A r, q \in Requests : r # q /\ accountReq[r].kind = "role" => accountReq[q].kind # "role"
  BY <1>0, SameKindOverlaps DEF Ac!Nothing
<1>3. ASSUME NEW r \in Requests, Ac!Call(r)
      PROVE  Roles'
  <2>1. PICK rec \in AccountRequest : AccountHolds(rec) /\ AccountBegins(rec) /\ Ac!Begin(r, rec)
    BY <1>3, AccountCall
  <2>2. accountReq' = [accountReq EXCEPT ![r] = rec] /\ accountReq[r].kind = "none"
    BY <2>1 DEF Ac!Begin, Ac!Idle, Ac!Nothing
  <2>3. user' = user /\ rootRoles' = rootRoles
    BY <1>3, AccountCall
  <2>. QED
    BY <1>0, <1>1, <2>1, <2>2, <2>3 DEF RolesInv, AccountBegins
<1>4. ASSUME NEW r \in Requests, Ac!InsertUser(r)
      PROVE  Roles'
  <2>1. accountReq[r].kind = "role" /\ accountReq[r].at = "insertUser" /\ user = "absent"
    BY <1>0, <1>1, <1>4 DEF Ac!InsertUser, Ac!At, AccountHolds, RolesInv
  <2>2. /\ user' = "present" /\ accountReq' = [accountReq EXCEPT ![r].at = "removeRoles"]
    BY <1>4, <2>1 DEF Ac!InsertUser, Ac!Goto
  <2>3. \A q \in Requests : accountReq'[q].at \notin {"insertUser", "addRole"}
    BY <1>1, <1>2, <2>1, <2>2 DEF AccountHolds
  <2>4. accountReq'[r].kind = "role"
    BY <1>1, <2>1, <2>2
  <2>. QED
    BY <2>3, <2>4 DEF RolesInv
<1>5. ASSUME NEW r \in Requests, Ac!RemoveRoles(r)
      PROVE  Roles'
  <2>1. /\ accountReq[r].kind = "role" /\ rootRoles' = {} /\ user' = user
        /\ accountReq' = [accountReq EXCEPT ![r].at = "addRole"]
    BY <1>1, <1>5 DEF Ac!RemoveRoles, Ac!RolesRemoved, Ac!Goto, Ac!At, AccountHolds
  <2>2. accountReq'[r].kind = "role" /\ accountReq'[r].at = "addRole"
    BY <1>1, <2>1
  <2>. QED
    BY <1>0, <1>1, <2>1, <2>2 DEF RolesInv
<1>6. ASSUME NEW r \in Requests, Ac!AddRole(r)
      PROVE  Roles'
  <2>1. /\ accountReq[r].kind = "role" /\ accountReq[r].at = "addRole"
        /\ accountReq[r].role \in RootRoles
        /\ user' = user /\ accountReq' = [accountReq EXCEPT ![r] = Ac!Idle]
        /\ user = "present" => rootRoles' = rootRoles \cup {accountReq[r].role}
    BY <1>1, <1>6 DEF Ac!AddRole, Ac!Finish, Ac!At, AccountHolds
  <2>2. \A q \in Requests : accountReq'[q].at # "addRole"
    BY <1>1, <1>2, <2>1 DEF AccountHolds, Ac!Idle
  <2>3. \A q \in Requests : q # r => accountReq'[q] = accountReq[q]
    BY <2>1
  <2>4. \A q \in Requests : accountReq'[q].at # "insertUser"
    BY <1>1, <1>2, <2>1, <2>3 DEF AccountHolds, Ac!Idle
  <2>5. ASSUME user = "present", \A q \in Requests : accountReq'[q].kind # "delete"
        PROVE  rootRoles' = {accountReq[r].role}
    BY <1>0, <2>1, <2>3, <2>5 DEF RolesInv
  <2>. QED
    BY <2>1, <2>2, <2>4, <2>5 DEF RolesInv
<1>7. ASSUME NEW r \in Requests, Ac!UnlinkRoles(r)
      PROVE  Roles'
  <2>1. /\ accountReq[r].kind = "delete" /\ user' = user
        /\ accountReq' = [accountReq EXCEPT ![r].at = "deleteSessions"]
    BY <1>1, <1>7 DEF Ac!UnlinkRoles, Ac!Goto, Ac!At, AccountHolds
  <2>2. accountReq'[r].kind = "delete" /\ accountReq'[r].at = "deleteSessions"
    BY <1>1, <2>1
  <2>. QED
    BY <1>0, <1>1, <2>1, <2>2 DEF RolesInv
<1>8. ASSUME NEW r \in Requests, Ac!DeleteRow(r)
      PROVE  Roles'
  <2>1. /\ accountReq[r].kind = "delete" /\ user' = "deleted"
        /\ accountReq' = [accountReq EXCEPT ![r] = Ac!Idle]
    BY <1>1, <1>8 DEF Ac!DeleteRow, Ac!Finish, Ac!At, AccountHolds
  <2>2. \A q \in Requests : accountReq'[q].at # "insertUser"
    BY <1>0, <1>1, <2>1 DEF RolesInv, Ac!Idle
  <2>. QED
    BY <2>1, <2>2
<1>9. ASSUME NEW r \in Requests, NEW rec \in AccountRequest, UNCHANGED <<user, rootRoles>>,
             accountReq' = [accountReq EXCEPT ![r] = rec],
             rec.kind = accountReq[r].kind \/ accountReq[r].kind \notin {"role", "delete"},
             rec.at \notin {"insertUser", "addRole"}
      PROVE  Roles'
  BY <1>0, <1>1, <1>9 DEF RolesInv
<1>10. ASSUME NEW r \in Requests,
              \/ Ac!SaveSession(r) \/ Ac!ExpireTokens(r) \/ Ac!InsertToken(r)
              \/ Ac!IsStillValid(r) \/ Ac!UseToken(r) \/ Ac!SetPasswordHash(r)
              \/ Ac!DeleteSessions(r)
       PROVE  Roles'
  <2>1. UNCHANGED <<user, rootRoles>>
    BY <1>10 DEF Ac!SaveSession, Ac!ExpireTokens, Ac!InsertToken, Ac!IsStillValid, Ac!UseToken,
                 Ac!SetPasswordHash, Ac!DeleteSessions
  <2>2. PICK rec \in AccountRequest :
               /\ accountReq' = [accountReq EXCEPT ![r] = rec]
               /\ \/ rec = Ac!Idle
                  \/ /\ rec.kind = accountReq[r].kind
                     /\ accountReq[r].at \in AccountPredecessor(rec.at)
    BY <1>10, AccountContinue DEF Ac!Continue
  <2>3. accountReq[r].at \in {"saveSession", "expireTokens", "insertToken", "isValid", "useToken",
                              "setPassword", "deleteSessions"}
    BY <1>10 DEF Ac!SaveSession, Ac!ExpireTokens, Ac!InsertToken, Ac!IsStillValid, Ac!UseToken,
                 Ac!SetPasswordHash, Ac!DeleteSessions, Ac!At
  <2>4. rec.at \notin {"insertUser", "addRole"}
    BY <2>2, <2>3 DEF AccountPredecessor, Ac!Idle
  <2>5. CASE rec = Ac!Idle /\ accountReq[r].at = "deleteSessions"
    <3>1. Ac!DeleteSessions(r)
      BY <1>10, <2>5 DEF Ac!SaveSession, Ac!ExpireTokens, Ac!InsertToken, Ac!IsStillValid,
                         Ac!UseToken, Ac!SetPasswordHash, Ac!At
    <3>2. accountReq[r].kind = "reset"
      BY <1>1, <2>2, <2>5, <3>1 DEF Ac!DeleteSessions, Ac!Goto, Ac!Idle
    <3>. QED
      BY <1>9, <2>1, <2>2, <2>4, <3>2
  <2>6. CASE rec = Ac!Idle /\ accountReq[r].at # "deleteSessions"
    BY <1>1, <1>9, <2>1, <2>2, <2>3, <2>4, <2>6 DEF AccountHolds
  <2>7. CASE rec.kind = accountReq[r].kind
    BY <1>9, <2>1, <2>2, <2>4, <2>7
  <2>. QED
    BY <2>2, <2>5, <2>6, <2>7
<1>11. CASE UNCHANGED <<user, rootRoles, accountReq>>
  BY <1>0, <1>11 DEF RolesInv
<1>. QED
  BY <1>3, <1>4, <1>5, <1>6, <1>7, <1>8, <1>10, <1>11
     DEF Ac!Next, Ac!vars, Ac!Expire, Ac!Continue

\* A user has exactly one root role, whenever no request writes it and no two
\* requests have written it at once.
THEOREM ServicesOneRootRole == ServicesSpec => []OneRootRole
<1>1. ServicesInit => AccountTypeOK /\ RolesInv
  BY DEF ServicesInit, Ac!Init, AccountTypeOK, AccountRequestsOK, AccountOverlaps, AccountHolds,
         AccountRequest, AccountSteps, Ac!Idle, Ac!Nothing, RolesInv
<1>2. AccountTypeOK /\ RolesInv /\ [ServicesNext]_allVars => AccountTypeOK' /\ RolesInv'
  BY AccountsStep, AccountTypeStep, RolesStep
<1>3. RolesInv => OneRootRole
  BY DEF RolesInv, OneRootRole, Ac!OneRootRole, Ac!InProgress
<1>. QED
  BY <1>1, <1>2, <1>3, PTL DEF ServicesSpec

-----------------------------------------------------------------------------
(* One active link: between the two statements of createToken none is active.*)

LinksInv ==
    "link" \notin overlapped =>
        /\ \A r \in Requests :
              accountReq[r].at = "insertToken" => \A t \in ResetTokens : token[t] # "active"
        /\ \A t, other \in ResetTokens :
              token[t] = "active" /\ token[other] = "active" => t = other

LEMMA LinksStep ==
    ASSUME AccountTypeOK, LinksInv, [Ac!Next]_(Ac!vars)
    PROVE  LinksInv'
<1>. SUFFICES ASSUME "link" \notin overlapped'
              PROVE  LinksInv'
  BY DEF LinksInv
<1>0. "link" \notin overlapped
  BY AccountRequestsStep
<1>1. /\ accountReq \in [Requests -> AccountRequest]
      /\ \A r \in Requests : AccountHolds(accountReq[r])
      /\ token \in [ResetTokens -> {"new", "active", "used", "expired"}]
  BY DEF AccountTypeOK, AccountRequestsOK
<1>2. \A r, q \in Requests : r # q /\ accountReq[r].kind = "link" => accountReq[q].kind # "link"
  BY <1>0, SameKindOverlaps DEF Ac!Nothing
<1>3. ASSUME NEW r \in Requests, NEW rec \in AccountRequest,
             accountReq' = [accountReq EXCEPT ![r] = rec], rec.at # "insertToken",
             \A t \in ResetTokens : token'[t] = "active" => token[t] = "active"
      PROVE  LinksInv'
  BY <1>0, <1>1, <1>3 DEF LinksInv
<1>4. ASSUME NEW r \in Requests, Ac!Call(r)
      PROVE  LinksInv'
  <2>1. PICK rec \in AccountRequest : AccountBegins(rec) /\ Ac!Begin(r, rec)
    BY <1>4, AccountCall
  <2>2. accountReq' = [accountReq EXCEPT ![r] = rec] /\ rec.at # "insertToken"
    BY <2>1 DEF Ac!Begin, AccountBegins
  <2>3. token' = token
    BY <1>4, AccountCall
  <2>. QED
    BY <1>3, <2>2, <2>3
<1>5. ASSUME NEW r \in Requests, Ac!ExpireTokens(r)
      PROVE  LinksInv'
  <2>1. \A t \in ResetTokens : token'[t] # "active"
    BY <1>5 DEF Ac!ExpireTokens, Ac!Expired
  <2>. QED
    BY <2>1 DEF LinksInv
<1>6. ASSUME NEW r \in Requests, Ac!InsertToken(r)
      PROVE  LinksInv'
  <2>1. /\ accountReq[r].at = "insertToken" /\ accountReq[r].kind = "link"
        /\ accountReq' = [accountReq EXCEPT ![r] = Ac!Idle]
    BY <1>1, <1>6 DEF Ac!InsertToken, Ac!Finish, Ac!At, AccountHolds
  <2>2. \A q \in Requests : accountReq'[q].at # "insertToken"
    BY <1>1, <1>2, <2>1 DEF AccountHolds, Ac!Idle
  <2>3. \A t \in ResetTokens : token[t] # "active"
    BY <1>0, <2>1 DEF LinksInv
  <2>4. PICK t \in ResetTokens : \A u \in ResetTokens : u # t => token'[u] = token[u]
    BY <1>1, <1>6 DEF Ac!InsertToken
  <2>. QED
    BY <2>2, <2>3, <2>4 DEF LinksInv
<1>7. ASSUME NEW r \in Requests,
             \/ Ac!InsertUser(r) \/ Ac!RemoveRoles(r) \/ Ac!AddRole(r) \/ Ac!UnlinkRoles(r)
             \/ Ac!DeleteRow(r) \/ Ac!SaveSession(r) \/ Ac!IsStillValid(r) \/ Ac!UseToken(r)
             \/ Ac!SetPasswordHash(r) \/ Ac!DeleteSessions(r)
      PROVE  LinksInv'
  <2>1. PICK rec \in AccountRequest :
               /\ accountReq' = [accountReq EXCEPT ![r] = rec]
               /\ rec = Ac!Idle \/ accountReq[r].at \in AccountPredecessor(rec.at)
    BY <1>7, AccountContinue DEF Ac!Continue
  <2>2. accountReq[r].at # "expireTokens"
    BY <1>7 DEF Ac!InsertUser, Ac!RemoveRoles, Ac!AddRole, Ac!UnlinkRoles, Ac!DeleteRow,
                Ac!SaveSession, Ac!IsStillValid, Ac!UseToken, Ac!SetPasswordHash,
                Ac!DeleteSessions, Ac!At
  <2>3. rec.at # "insertToken"
    BY <2>1, <2>2 DEF AccountPredecessor, Ac!Idle
  <2>4. \A t \in ResetTokens : token'[t] = "active" => token[t] = "active"
    BY <1>1, <1>7 DEF Ac!InsertUser, Ac!RemoveRoles, Ac!AddRole, Ac!UnlinkRoles, Ac!DeleteRow,
                Ac!SaveSession, Ac!IsStillValid, Ac!UseToken, Ac!SetPasswordHash,
                Ac!DeleteSessions
  <2>. QED
    BY <1>3, <2>1, <2>3, <2>4
<1>8. ASSUME NEW t \in ResetTokens, Ac!Expire(t)
      PROVE  LinksInv'
  BY <1>0, <1>1, <1>8 DEF LinksInv, Ac!Expire
<1>9. CASE UNCHANGED <<accountReq, token>>
  BY <1>0, <1>9 DEF LinksInv
<1>. QED
  BY <1>4, <1>5, <1>6, <1>7, <1>8, <1>9 DEF Ac!Next, Ac!vars, Ac!Continue

\* At most one link resets the password, unless two requests made one at once.
THEOREM ServicesOneActiveLink == ServicesSpec => []OneActiveLink
<1>1. ServicesInit => AccountTypeOK /\ LinksInv
  BY DEF ServicesInit, Ac!Init, AccountTypeOK, AccountRequestsOK, AccountOverlaps, AccountHolds,
         AccountRequest, AccountSteps, Ac!Idle, Ac!Nothing, LinksInv
<1>2. AccountTypeOK /\ LinksInv /\ [ServicesNext]_allVars => AccountTypeOK' /\ LinksInv'
  BY AccountsStep, AccountTypeStep, LinksStep
<1>3. LinksInv => OneActiveLink
  BY DEF LinksInv, OneActiveLink, Ac!OneActiveLink
<1>. QED
  BY <1>1, <1>2, <1>3, PTL DEF ServicesSpec

-----------------------------------------------------------------------------
(* A link is used once: what is valid has not been used, also while a       *)
(* request is between its last check and its use.                          *)

UsesInv ==
    /\ \A r \in Requests : accountReq[r].at = "useToken" => token[accountReq[r].token] # "new"
    /\ "reset" \notin overlapped =>
          /\ \A t \in ResetTokens :
                uses[t] <= 1 /\ (token[t] \in {"new", "active"} => uses[t] = 0)
          /\ \A r \in Requests : accountReq[r].at = "useToken" => uses[accountReq[r].token] = 0

LEMMA UsesStep ==
    ASSUME AccountTypeOK, UsesInv, [Ac!Next]_(Ac!vars)
    PROVE  UsesInv'
<1>0. overlapped \subseteq overlapped'
  BY AccountRequestsStep
<1>1. /\ accountReq \in [Requests -> AccountRequest]
      /\ \A r \in Requests : AccountHolds(accountReq[r])
      /\ token \in [ResetTokens -> {"new", "active", "used", "expired"}]
      /\ uses \in [ResetTokens -> Nat]
  BY DEF AccountTypeOK, AccountRequestsOK
<1>2. \A r, q \in Requests :
         "reset" \notin overlapped /\ r # q /\ accountReq[r].kind = "reset"
            => accountReq[q].kind # "reset"
  BY SameKindOverlaps DEF Ac!Nothing
<1>3. ASSUME NEW r \in Requests, NEW rec \in AccountRequest,
             accountReq' = [accountReq EXCEPT ![r] = rec], rec.at # "useToken", uses' = uses,
             \A t \in ResetTokens :
                /\ token'[t] = "new" => token[t] = "new"
                /\ token'[t] = "active" => token[t] \in {"new", "active"}
      PROVE  UsesInv'
  <2>1. \A q \in Requests :
           accountReq'[q].at = "useToken" =>
              /\ accountReq'[q] = accountReq[q] /\ accountReq[q].token \in ResetTokens
    BY <1>1, <1>3 DEF AccountHolds
  <2>. QED
    BY <1>0, <1>1, <1>3, <2>1 DEF UsesInv
<1>4. ASSUME NEW r \in Requests, Ac!Call(r)
      PROVE  UsesInv'
  <2>1. PICK rec \in AccountRequest : AccountBegins(rec) /\ Ac!Begin(r, rec)
    BY <1>4, AccountCall
  <2>2. accountReq' = [accountReq EXCEPT ![r] = rec] /\ rec.at # "useToken"
    BY <2>1 DEF Ac!Begin, AccountBegins
  <2>3. token' = token /\ uses' = uses
    BY <1>4, AccountCall
  <2>. QED
    BY <1>3, <2>2, <2>3
<1>5. ASSUME NEW r \in Requests, Ac!IsStillValid(r)
      PROVE  UsesInv'
  <2>1. /\ accountReq[r].at = "isValid" /\ accountReq[r].token \in ResetTokens
        /\ UNCHANGED <<token, uses, overlapped>>
    BY <1>1, <1>5 DEF Ac!IsStillValid, Ac!At, AccountHolds
  <2>2. CASE Ac!Finish(r)
    <3>1. /\ accountReq' = [accountReq EXCEPT ![r] = Ac!Idle] /\ Ac!Idle.at # "useToken"
          /\ Ac!Idle \in AccountRequest
      BY <2>2 DEF Ac!Finish, Ac!Idle, AccountRequest, AccountSteps, Ac!Nothing
    <3>. QED
      BY <1>3, <2>1, <3>1
  <2>3. CASE token[accountReq[r].token] = "active" /\ Ac!Goto(r, "useToken")
    <3>1. accountReq' = [accountReq EXCEPT ![r].at = "useToken"]
      BY <2>3 DEF Ac!Goto
    <3>2. accountReq'[r].token = accountReq[r].token
      BY <1>1, <3>1
    <3>. QED
      BY <1>1, <2>1, <2>3, <3>1, <3>2 DEF UsesInv
  <2>. QED
    BY <1>5, <2>2, <2>3 DEF Ac!IsStillValid, Ac!IsValid
<1>6. ASSUME NEW r \in Requests, Ac!UseToken(r)
      PROVE  UsesInv'
  <2>. DEFINE t == accountReq[r].token
  <2>1. /\ accountReq[r].at = "useToken" /\ accountReq[r].kind = "reset" /\ t \in ResetTokens
        /\ accountReq' = [accountReq EXCEPT ![r].at = "setPassword"]
        /\ token' = [token EXCEPT ![t] = IF @ = "active" THEN "used" ELSE @]
        /\ uses' = [uses EXCEPT ![t] = @ + 1]
        /\ overlapped' = overlapped
    BY <1>1, <1>6 DEF Ac!UseToken, Ac!Goto, Ac!At, AccountHolds
  <2>2. \A q \in Requests :
           accountReq'[q].at = "useToken" =>
              q # r /\ accountReq'[q] = accountReq[q] /\ accountReq[q].token \in ResetTokens
    BY <1>1, <2>1 DEF AccountHolds
  <2>3. ASSUME NEW q \in Requests, accountReq'[q].at = "useToken"
        PROVE  token'[accountReq'[q].token] # "new"
    BY <1>1, <2>1, <2>2, <2>3 DEF UsesInv
  <2>4. ASSUME "reset" \notin overlapped
        PROVE  /\ uses[t] = 0 /\ uses'[t] = 1 /\ token'[t] \notin {"new", "active"}
               /\ \A q \in Requests : accountReq'[q].at # "useToken"
    <3>1. uses[t] = 0 /\ token[t] # "new"
      BY <2>1, <2>4 DEF UsesInv
    <3>2. uses'[t] = 1 /\ token'[t] \notin {"new", "active"}
      BY <1>1, <2>1, <3>1
    <3>3. \A q \in Requests : accountReq'[q].at # "useToken"
      BY <1>1, <1>2, <2>1, <2>2, <2>4 DEF AccountHolds
    <3>. QED
      BY <3>1, <3>2, <3>3
  <2>5. \A u \in ResetTokens : u # t => uses'[u] = uses[u] /\ token'[u] = token[u]
    BY <1>1, <2>1
  <2>6. ASSUME "reset" \notin overlapped', NEW u \in ResetTokens
        PROVE  uses'[u] <= 1 /\ (token'[u] \in {"new", "active"} => uses'[u] = 0)
    <3>1. CASE u = t
      BY <2>1, <2>4, <2>6, <3>1
    <3>2. CASE u # t
      BY <2>1, <2>5, <2>6, <3>2 DEF UsesInv
    <3>. QED
      BY <3>1, <3>2
  <2>. QED
    BY <2>1, <2>3, <2>4, <2>6 DEF UsesInv
<1>7. ASSUME NEW r \in Requests,
             \/ Ac!InsertUser(r) \/ Ac!RemoveRoles(r) \/ Ac!AddRole(r) \/ Ac!UnlinkRoles(r)
             \/ Ac!DeleteRow(r) \/ Ac!SaveSession(r) \/ Ac!ExpireTokens(r) \/ Ac!InsertToken(r)
             \/ Ac!SetPasswordHash(r) \/ Ac!DeleteSessions(r)
      PROVE  UsesInv'
  <2>1. PICK rec \in AccountRequest :
               /\ accountReq' = [accountReq EXCEPT ![r] = rec]
               /\ rec = Ac!Idle \/ accountReq[r].at \in AccountPredecessor(rec.at)
    BY <1>7, AccountContinue DEF Ac!Continue
  <2>2. accountReq[r].at # "isValid"
    BY <1>7 DEF Ac!InsertUser, Ac!RemoveRoles, Ac!AddRole, Ac!UnlinkRoles, Ac!DeleteRow,
                Ac!SaveSession, Ac!ExpireTokens, Ac!InsertToken, Ac!SetPasswordHash,
                Ac!DeleteSessions, Ac!At
  <2>3. rec.at # "useToken"
    BY <2>1, <2>2 DEF AccountPredecessor, Ac!Idle
  <2>4. /\ uses' = uses
        /\ \A t \in ResetTokens :
              /\ token'[t] = "new" => token[t] = "new"
              /\ token'[t] = "active" => token[t] \in {"new", "active"}
    BY <1>1, <1>7 DEF Ac!InsertUser, Ac!RemoveRoles, Ac!AddRole, Ac!UnlinkRoles, Ac!DeleteRow,
                Ac!SaveSession, Ac!ExpireTokens, Ac!Expired, Ac!InsertToken,
                Ac!SetPasswordHash, Ac!DeleteSessions
  <2>. QED
    BY <1>3, <2>1, <2>3, <2>4
<1>8. ASSUME NEW t \in ResetTokens, Ac!Expire(t)
      PROVE  UsesInv'
  <2>1. /\ UNCHANGED <<accountReq, overlapped, uses>>
        /\ \A u \in ResetTokens :
              /\ token'[u] = "new" => token[u] = "new"
              /\ token'[u] = "active" => token[u] \in {"new", "active"}
    BY <1>1, <1>8 DEF Ac!Expire
  <2>2. \A q \in Requests :
           accountReq[q].at = "useToken" => accountReq[q].token \in ResetTokens
    BY <1>1 DEF AccountHolds
  <2>. QED
    BY <1>1, <2>1, <2>2 DEF UsesInv
<1>9. CASE UNCHANGED <<accountReq, token, uses, overlapped>>
  BY <1>9 DEF UsesInv
<1>. QED
  BY <1>4, <1>5, <1>6, <1>7, <1>8, <1>9 DEF Ac!Next, Ac!vars, Ac!Continue

\* A link resets the password once, unless two requests use it at once: new
\* links, other changes of the password and the deletion of the user may come
\* between the checks of the link and its use.
THEOREM ServicesUsedOnce == ServicesSpec => []UsedOnce
<1>1. ServicesInit => AccountTypeOK /\ UsesInv
  BY DEF ServicesInit, Ac!Init, AccountTypeOK, AccountRequestsOK, AccountOverlaps, AccountHolds,
         AccountRequest, AccountSteps, Ac!Idle, Ac!Nothing, UsesInv
<1>2. AccountTypeOK /\ UsesInv /\ [ServicesNext]_allVars => AccountTypeOK' /\ UsesInv'
  BY AccountsStep, AccountTypeStep, UsesStep
<1>3. UsesInv => UsedOnce
  BY DEF UsesInv, UsedOnce, Ac!UsedOnce
<1>. QED
  BY <1>1, <1>2, <1>3, PTL DEF ServicesSpec

-----------------------------------------------------------------------------
(* Sessions end: a session is as old as the password that its login read,   *)
(* and no login is in progress while sessions are being ended.              *)

SessionsInv ==
    /\ validFrom \in Nat /\ validFrom <= password
    /\ "login" \notin overlapped =>
          /\ \A r \in Requests :
                accountReq[r].at = "saveSession" =>
                    accountReq[r].read = password /\ user = "present"
          /\ \A r \in Requests : accountReq[r].at = "deleteRow" => sessions = {}
          /\ (\A r \in Requests : accountReq[r].at # "deleteSessions") =>
                \A p \in sessions : p >= validFrom
          /\ user = "deleted" => sessions = {}

\* A login overlaps with what ends sessions.
LEMMA LoginOverlaps ==
    ASSUME AccountTypeOK, "login" \notin overlapped, NEW r \in Requests, NEW q \in Requests,
           accountReq[r].kind = "login"
    PROVE  accountReq[q].kind \notin {"reset", "password", "delete"}
<1>1. Ac!Overlaps(accountReq[r].kind, accountReq[q].kind)
          \/ accountReq[q].kind \notin {"reset", "password", "delete"}
  BY DEF Ac!Overlaps
<1>. QED
  BY <1>1 DEF AccountTypeOK, AccountRequestsOK, AccountOverlaps, Ac!Nothing

LEMMA SessionsStep ==
    ASSUME AccountTypeOK, SessionsInv, [Ac!Next]_(Ac!vars)
    PROVE  SessionsInv'
<1>0. overlapped \subseteq overlapped'
  BY AccountRequestsStep
<1>1. /\ accountReq \in [Requests -> AccountRequest]
      /\ \A r \in Requests : AccountHolds(accountReq[r])
      /\ user \in {"absent", "present", "deleted"}
      /\ password \in Nat /\ validFrom \in Nat /\ validFrom <= password
  BY DEF AccountTypeOK, AccountRequestsOK, SessionsInv
<1>2. \A r, q \in Requests :
         "login" \notin overlapped /\ accountReq[r].kind = "login"
            => accountReq[q].kind \notin {"reset", "password", "delete"}
  BY LoginOverlaps
<1>3. ASSUME NEW r \in Requests, NEW rec \in AccountRequest,
             accountReq' = [accountReq EXCEPT ![r] = rec],
             rec.at \notin {"saveSession", "deleteRow"}, accountReq[r].at # "deleteSessions",
             UNCHANGED <<password, sessions, validFrom>>,
             user' = user \/ (user = "absent" /\ user' = "present")
      PROVE  SessionsInv'
  BY <1>0, <1>1, <1>3 DEF SessionsInv
<1>4. ASSUME NEW r \in Requests, Ac!Call(r)
      PROVE  SessionsInv'
  <2>1. PICK rec \in AccountRequest : AccountBegins(rec) /\ Ac!Begin(r, rec)
    BY <1>4, AccountCall
  <2>2. /\ accountReq' = [accountReq EXCEPT ![r] = rec]
        /\ rec.at # "deleteRow" /\ accountReq[r].at = "idle"
        /\ rec.at = "saveSession" => user = "present" /\ rec.read = password
    BY <2>1 DEF Ac!Begin, AccountBegins, Ac!Idle
  <2>3. UNCHANGED <<user, password, sessions, validFrom>>
    BY <1>4, AccountCall
  <2>. QED
    BY <1>0, <1>1, <2>2, <2>3 DEF SessionsInv
<1>5. ASSUME NEW r \in Requests, Ac!SaveSession(r)
      PROVE  SessionsInv'
  <2>1. /\ accountReq[r].at = "saveSession" /\ accountReq[r].kind = "login"
        /\ accountReq' = [accountReq EXCEPT ![r] = Ac!Idle]
        /\ sessions' = sessions \cup {accountReq[r].read}
        /\ UNCHANGED <<user, password, validFrom, overlapped>>
    BY <1>1, <1>5 DEF Ac!SaveSession, Ac!Finish, Ac!At, AccountHolds
  <2>2. ASSUME "login" \notin overlapped
        PROVE  /\ accountReq[r].read = password /\ user = "present"
               /\ \A q \in Requests : accountReq[q].at \notin {"deleteRow", "deleteSessions"}
    BY <1>1, <1>2, <2>1, <2>2 DEF SessionsInv, AccountHolds
  <2>. QED
    BY <1>1, <2>1, <2>2 DEF SessionsInv, Ac!Idle
<1>6. ASSUME NEW r \in Requests, Ac!DeleteRow(r)
      PROVE  SessionsInv'
  <2>1. /\ accountReq[r].at = "deleteRow" /\ accountReq[r].kind = "delete"
        /\ accountReq' = [accountReq EXCEPT ![r] = Ac!Idle] /\ user' = "deleted"
        /\ UNCHANGED <<sessions, password, validFrom, overlapped>>
    BY <1>1, <1>6 DEF Ac!DeleteRow, Ac!Finish, Ac!At, AccountHolds
  <2>2. ASSUME "login" \notin overlapped
        PROVE  sessions = {} /\ \A q \in Requests : accountReq[q].at # "saveSession"
    BY <1>1, <1>2, <2>1, <2>2 DEF SessionsInv, AccountHolds
  <2>. QED
    BY <1>1, <2>1, <2>2 DEF SessionsInv, Ac!Idle
<1>7. ASSUME NEW r \in Requests, Ac!DeleteSessions(r)
      PROVE  SessionsInv'
  <2>1. /\ accountReq[r].at = "deleteSessions" /\ accountReq[r].kind \in {"reset", "delete"}
        /\ sessions' = {}
        /\ UNCHANGED <<user, password, validFrom, overlapped>>
    BY <1>1, <1>7 DEF Ac!DeleteSessions, Ac!SessionsDeleted, Ac!At, AccountHolds
  <2>2. \A q \in Requests :
           accountReq'[q].at = "saveSession" => accountReq'[q] = accountReq[q]
    <3>1. \/ accountReq' = [accountReq EXCEPT ![r] = Ac!Idle]
          \/ accountReq' = [accountReq EXCEPT ![r].at = "deleteRow"]
      BY <1>7 DEF Ac!DeleteSessions, Ac!Finish, Ac!Goto
    <3>2. accountReq'[r].at # "saveSession"
      <4>1. CASE accountReq' = [accountReq EXCEPT ![r] = Ac!Idle]
        BY <1>1, <4>1 DEF Ac!Idle
      <4>2. CASE accountReq' = [accountReq EXCEPT ![r].at = "deleteRow"]
        <5>1. accountReq'[r] = [accountReq[r] EXCEPT !.at = "deleteRow"]
          BY <1>1, <4>2
        <5>. QED
          BY <1>1, <5>1 DEF AccountRequest
      <4>. QED
        BY <3>1, <4>1, <4>2
    <3>. QED
      BY <1>1, <3>1, <3>2
  <2>. QED
    BY <1>1, <2>1, <2>2 DEF SessionsInv
<1>8. ASSUME NEW r \in Requests, Ac!SetPasswordHash(r)
      PROVE  SessionsInv'
  <2>1. /\ accountReq[r].at = "setPassword" /\ accountReq[r].kind \in {"reset", "password"}
        /\ password' \in {password, password + 1}
        /\ UNCHANGED <<user, sessions, overlapped>>
    BY <1>1, <1>8 DEF Ac!SetPasswordHash, Ac!At, AccountHolds
  <2>2. ASSUME "login" \notin overlapped
        PROVE  \A q \in Requests : accountReq[q].at # "saveSession"
    BY <1>1, <1>2, <2>1, <2>2 DEF AccountHolds
  <2>3. \/ /\ validFrom' = password'
           /\ accountReq' = [accountReq EXCEPT ![r].at = "deleteSessions"]
        \/ /\ validFrom' = validFrom
           /\ accountReq' = [accountReq EXCEPT ![r] = Ac!Idle]
    BY <1>8 DEF Ac!SetPasswordHash, Ac!Goto, Ac!Finish
  <2>4. validFrom' \in Nat /\ validFrom' <= password'
    BY <1>1, <2>1, <2>3
  <2>5. CASE accountReq' = [accountReq EXCEPT ![r].at = "deleteSessions"]
    <3>1. accountReq'[r].at = "deleteSessions"
      BY <1>1, <2>5
    <3>. QED
      BY <1>1, <2>1, <2>2, <2>4, <2>5, <3>1 DEF SessionsInv
  <2>6. CASE validFrom' = validFrom /\ accountReq' = [accountReq EXCEPT ![r] = Ac!Idle]
    BY <1>1, <2>1, <2>2, <2>4, <2>6 DEF SessionsInv, Ac!Idle
  <2>. QED
    BY <2>3, <2>5, <2>6
<1>9. ASSUME NEW r \in Requests,
             \/ Ac!InsertUser(r) \/ Ac!RemoveRoles(r) \/ Ac!AddRole(r) \/ Ac!UnlinkRoles(r)
             \/ Ac!ExpireTokens(r) \/ Ac!InsertToken(r) \/ Ac!IsStillValid(r) \/ Ac!UseToken(r)
      PROVE  SessionsInv'
  <2>1. PICK rec \in AccountRequest :
               /\ accountReq' = [accountReq EXCEPT ![r] = rec]
               /\ rec = Ac!Idle \/ accountReq[r].at \in AccountPredecessor(rec.at)
    BY <1>9, AccountContinue DEF Ac!Continue
  <2>2. accountReq[r].at # "deleteSessions"
    BY <1>9 DEF Ac!InsertUser, Ac!RemoveRoles, Ac!AddRole, Ac!UnlinkRoles, Ac!ExpireTokens,
                Ac!InsertToken, Ac!IsStillValid, Ac!UseToken, Ac!At
  <2>3. rec.at \notin {"saveSession", "deleteRow"}
    BY <2>1, <2>2 DEF AccountPredecessor, Ac!Idle
  <2>4. /\ UNCHANGED <<password, sessions, validFrom>>
        /\ user' = user \/ (user = "absent" /\ user' = "present")
    BY <1>9 DEF Ac!InsertUser, Ac!RemoveRoles, Ac!AddRole, Ac!UnlinkRoles, Ac!ExpireTokens,
                Ac!InsertToken, Ac!IsStillValid, Ac!UseToken
  <2>. QED
    BY <1>3, <2>1, <2>2, <2>3, <2>4
<1>10. CASE UNCHANGED <<user, password, sessions, validFrom, accountReq, overlapped>>
  BY <1>10 DEF SessionsInv
<1>. QED
  BY <1>4, <1>5, <1>6, <1>7, <1>8, <1>9, <1>10 DEF Ac!Next, Ac!vars, Ac!Continue, Ac!Expire

\* "Will update password and delete all sessions for the user": no session that
\* is older than the password that a link has set is left, and none of a user
\* that is deleted, unless a login overlapped.
THEOREM ServicesSessionsEnd == ServicesSpec => []SessionsEnd
<1>1. ServicesInit => AccountTypeOK /\ SessionsInv
  BY DEF ServicesInit, Ac!Init, AccountTypeOK, AccountRequestsOK, AccountOverlaps, AccountHolds,
         AccountRequest, AccountSteps, Ac!Idle, Ac!Nothing, SessionsInv
<1>2. AccountTypeOK /\ SessionsInv /\ [ServicesNext]_allVars => AccountTypeOK' /\ SessionsInv'
  BY AccountsStep, AccountTypeStep, SessionsStep
<1>3. AccountTypeOK /\ SessionsInv => SessionsEnd
  <2>. SUFFICES ASSUME AccountTypeOK, SessionsInv,
                       \A r \in Requests : accountReq[r].kind \notin {"reset", "delete"},
                       "login" \notin overlapped
                PROVE  /\ user = "deleted" => sessions = {}
                       /\ \A p \in sessions : p >= validFrom
    BY DEF SessionsEnd, Ac!SessionsEnd, Ac!InProgress
  <2>1. \A r \in Requests : accountReq[r].at # "deleteSessions"
    BY DEF AccountTypeOK, AccountRequestsOK, AccountHolds
  <2>. QED
    BY <2>1 DEF SessionsInv
<1>. QED
  BY <1>1, <1>2, <1>3, PTL DEF ServicesSpec

-----------------------------------------------------------------------------
(* The rows of features and the segments: the theorems of FeatureRowProofs  *)
(* and SegmentsProofs hold of Services.                                     *)

FeP == INSTANCE FeatureRowProofs WITH
           req <- featureReq, asked <- featureAsked, raced <- featureRaced
SgP == INSTANCE SegmentsProofs WITH
           Names <- SegmentNames, req <- segmentReq, raced <- segmentRaced

LEMMA SameFeatures ==
    /\ Fe!Init = FeP!Init
    /\ Fe!Next = FeP!Next
    /\ Fe!vars = FeP!vars
<1>1. Fe!Init = FeP!Init /\ Fe!vars = FeP!vars
  BY DEF Fe!Init, FeP!Init, Fe!vars, FeP!vars, Fe!NoRow, FeP!NoRow, Fe!NewRow, FeP!NewRow,
         Fe!Nothing, FeP!Nothing, Fe!Idle, FeP!Idle
<1>2. Fe!Next = FeP!Next
  BY DEF Fe!Next, FeP!Next, Fe!Call, FeP!Call, Fe!Continue, FeP!Continue, Fe!CreateRow,
         FeP!CreateRow, Fe!ChangeProject, FeP!ChangeProject, Fe!SaveVariants,
         FeP!SaveVariants, Fe!PatchFeature, FeP!PatchFeature, Fe!UpdateFeature,
         FeP!UpdateFeature, Fe!UpdateStale, FeP!UpdateStale, Fe!ArchiveToggle,
         FeP!ArchiveToggle, Fe!ReviveToggle, FeP!ReviveToggle, Fe!DeleteFeature,
         FeP!DeleteFeature, Fe!ValidateContext, FeP!ValidateContext, Fe!UpdateRow,
         FeP!UpdateRow, Fe!ValidatePut, FeP!ValidatePut, Fe!Put, FeP!Put, Fe!Archive,
         FeP!Archive, Fe!Revive, FeP!Revive, Fe!SaveVariantsRow, FeP!SaveVariantsRow,
         Fe!Delete, FeP!Delete, Fe!Reads, FeP!Reads, Fe!Begin, FeP!Begin, Fe!Finish,
         FeP!Finish, Fe!Goto, FeP!Goto, Fe!At, FeP!At, Fe!Update, FeP!Update, Fe!Asked,
         FeP!Asked, Fe!Written, FeP!Written, Fe!DtoToRow, FeP!DtoToRow, Fe!NoRow,
         FeP!NoRow, Fe!NewRow, FeP!NewRow, Fe!Nothing, FeP!Nothing, Fe!Idle, FeP!Idle,
         Fe!Fields, FeP!Fields, Fe!BothWrite, FeP!BothWrite, Fe!Writers, FeP!Writers,
         Fe!CarriersOf, FeP!CarriersOf, Fe!IsArchived, FeP!IsArchived
<1>. QED
  BY <1>1, <1>2

LEMMA ServicesFeatures == ServicesSpec => FeP!Spec
<1>1. ServicesInit => FeP!Init
  BY SameFeatures DEF ServicesInit
<1>2. [ServicesNext]_allVars => [FeP!Next]_(FeP!vars)
  BY FeaturesStep, SameFeatures DEF Fe!vars, FeP!vars
<1>. QED
  BY <1>1, <1>2, PTL DEF ServicesSpec, FeP!Spec

\* What was asked for last is lost by races only.
THEOREM ServicesLostOnlyByRaces ==
    ASSUME Fe!Nothing \notin Projects
    PROVE  ServicesSpec => []LostOnlyByRaces
<1>1. FeP!Spec => []FeP!LostOnlyByRaces
  <2>1. FeP!Nothing \notin Projects => (FeP!Spec => []FeP!LostOnlyByRaces)
    BY FeP!RowLossCorrect
  <2>. QED
    BY <2>1 DEF Fe!Nothing, FeP!Nothing
<1>2. FeP!LostOnlyByRaces => LostOnlyByRaces
  BY DEF LostOnlyByRaces, Fe!LostOnlyByRaces, FeP!LostOnlyByRaces, Fe!NoRow, FeP!NoRow,
         Fe!NewRow, FeP!NewRow, Fe!Nothing, FeP!Nothing, Fe!Fields, FeP!Fields
<1>. QED
  BY <1>1, <1>2, ServicesFeatures, PTL

\* A feature is deleted only when it was archived last, unless a race undid that.
THEOREM ServicesDeletedWhenArchived ==
    ASSUME Fe!Nothing \notin Projects
    PROVE  ServicesSpec => DeletedWhenArchived
<1>1. FeP!Spec => FeP!DeletedWhenArchived
  <2>1. FeP!Nothing \notin Projects => (FeP!Spec => FeP!DeletedWhenArchived)
    BY FeP!DeletionCorrect
  <2>. QED
    BY <2>1 DEF Fe!Nothing, FeP!Nothing
<1>2. [feature # FeP!NoRow /\ feature' = FeP!NoRow
          => featureAsked.archived \/ "archived" \in featureRaced]_(FeP!vars)
      => [feature # Fe!NoRow /\ feature' = Fe!NoRow
          => featureAsked.archived \/ "archived" \in featureRaced]_(Fe!vars)
  BY DEF Fe!vars, FeP!vars, Fe!NoRow, FeP!NoRow, Fe!NewRow, FeP!NewRow, Fe!Nothing, FeP!Nothing
<1>. QED
  BY <1>1, <1>2, ServicesFeatures, PTL
     DEF DeletedWhenArchived, Fe!DeletedWhenArchived, FeP!DeletedWhenArchived

LEMMA SameSegments ==
    /\ \A S : Sg!Cardinality(S) = SgP!Cardinality(S)
    /\ Sg!Init = SgP!Init
    /\ Sg!Next = SgP!Next
    /\ Sg!vars = SgP!vars
<1>1. \A S : Sg!Cardinality(S) = SgP!Cardinality(S)
  BY Zenon DEF Sg!Cardinality, SgP!Cardinality
<1>2. Sg!Init = SgP!Init /\ Sg!vars = SgP!vars
  BY DEF Sg!Init, SgP!Init, Sg!vars, SgP!vars, Sg!Idle, SgP!Idle, Sg!Nothing, SgP!Nothing
<1>3. Sg!Next = SgP!Next
  BY DEF Sg!Next, SgP!Next, Sg!Call, SgP!Call, Sg!Continue, SgP!Continue, Sg!Create, SgP!Create,
         Sg!Update, SgP!Update, Sg!AddToStrategy, SgP!AddToStrategy,
         Sg!CloneStrategySegments, SgP!CloneStrategySegments, Sg!ValidateName,
         SgP!ValidateName, Sg!Write, SgP!Write, Sg!ValidateLimit, SgP!ValidateLimit,
         Sg!Add, SgP!Add, Sg!Delete, SgP!Delete, Sg!RemoveFromStrategy,
         SgP!RemoveFromStrategy, Sg!AddRest, SgP!AddRest, Sg!LimitReached,
         SgP!LimitReached, Sg!ExistsByName, SgP!ExistsByName, Sg!Existing,
         SgP!Existing, Sg!Begin, SgP!Begin, Sg!At, SgP!At, Sg!Goto, SgP!Goto,
         Sg!Finish, SgP!Finish, Sg!Idle, SgP!Idle, Sg!Nothing, SgP!Nothing,
         Sg!Cardinality, SgP!Cardinality
<1>. QED
  BY <1>1, <1>2, <1>3

LEMMA ServicesSegments == ServicesSpec => SgP!Spec
<1>1. ServicesInit => SgP!Init
  BY SameSegments DEF ServicesInit
<1>2. [ServicesNext]_allVars => [SgP!Next]_(SgP!vars)
  BY SegmentsStep, SameSegments DEF Sg!vars, SgP!vars
<1>. QED
  BY <1>1, <1>2, PTL DEF ServicesSpec, SgP!Spec

\* Two segments have one name only if two requests have checked names at once.
THEOREM ServicesSegmentNames ==
    ASSUME SgP!SegmentIds
    PROVE  ServicesSpec => []SegmentNamesUnique
<1>1. SgP!Spec => []SgP!SegmentNamesUnique
  <2>1. SgP!SegmentIds => (SgP!Spec => []SgP!SegmentNamesUnique)
    BY SgP!NamesCorrect
  <2>. QED
    BY <2>1
<1>2. SgP!SegmentNamesUnique => SegmentNamesUnique
  BY DEF SegmentNamesUnique, Sg!SegmentNamesUnique, SgP!SegmentNamesUnique, Sg!Existing,
         SgP!Existing, Sg!Nothing, SgP!Nothing
<1>. QED
  BY <1>1, <1>2, ServicesSegments, PTL

\* A strategy has too many segments only if two requests have checked the limit
\* at once.
THEOREM ServicesSegmentLimit ==
    ASSUME SgP!SegmentIds
    PROVE  ServicesSpec => []SegmentLimitKept
<1>1. SgP!Spec => []SgP!SegmentLimitKept
  <2>1. SgP!SegmentIds => (SgP!Spec => []SgP!SegmentLimitKept)
    BY SgP!LimitCorrect
  <2>. QED
    BY <2>1
<1>2. SgP!SegmentLimitKept => SegmentLimitKept
  BY SameSegments DEF SegmentLimitKept, Sg!SegmentLimitKept, SgP!SegmentLimitKept
<1>. QED
  BY <1>1, <1>2, ServicesSegments, PTL

-----------------------------------------------------------------------------
(* Groups.                                                                 *)

GroupSteps == {"idle", "validateGroup", "writeGroup", "addNewUsers", "getAllUsers",
               "updateGroupUsers", "delete", "deleteOldUsers", "getCorrectGroups", "join"}

GroupKinds == {"create", "update", "delete", "login"}

GroupRequest == [kind : GroupKinds \cup {Gr!Nothing}, at : GroupSteps,
                 group : GroupIds \cup {Gr!Nothing}, name : GroupNames \cup {Gr!Nothing},
                 users : SUBSET Members, user : Members \cup {Gr!Nothing},
                 names : SUBSET GroupNames, read : SUBSET (GroupIds \cup Members)]

\* The statements that a request of each kind comes to, and what it holds.
GroupHolds(q) ==
    /\ q.at = "idle" <=> q.kind = Gr!Nothing
    /\ q.at \in {"validateGroup", "writeGroup"} => q.kind \in {"create", "update"}
    /\ q.at = "addNewUsers" => q.kind = "create" /\ q.group \in GroupIds
    /\ q.at \in {"getAllUsers", "updateGroupUsers"} => q.kind = "update"
    /\ q.at = "delete" => q.kind = "delete"
    /\ q.at \in {"deleteOldUsers", "getCorrectGroups", "join"} => q.kind = "login"
    /\ q.kind \in {"update", "delete"} => q.group \in GroupIds
    /\ q.kind \in {"create", "update"} => q.name \in GroupNames
    /\ q.kind = "login" => q.user \in Members /\ q.read \subseteq GroupIds

GroupOverlaps ==
    \A r, q \in Requests :
        r # q => Gr!Writes(groupReq[r].kind) \cap Gr!Writes(groupReq[q].kind) \subseteq groupRaced

GroupTypeOK ==
    /\ groups \in [GroupIds -> GroupNames \cup {Gr!Nothing}]
    /\ members \in [GroupIds -> SUBSET Members]
    /\ groupAsked \in [GroupIds -> SUBSET Members]
    /\ groupReq \in [Requests -> GroupRequest]
    /\ \A r \in Requests : GroupHolds(groupReq[r])
    /\ GroupOverlaps

\* How a request begins.
GroupBegins(rec) ==
    /\ rec.at \in {"validateGroup", "writeGroup", "delete", "deleteOldUsers"}
    /\ rec.at = "writeGroup" => rec.kind = "update" /\ groups[rec.group] = rec.name
    /\ rec.at = "deleteOldUsers" => rec.read = {g \in GroupIds : rec.user \in members[g]}

LEMMA GroupCall ==
    ASSUME GroupTypeOK, NEW r \in Requests, Gr!Call(r)
    PROVE  \E rec \in GroupRequest : GroupHolds(rec) /\ GroupBegins(rec) /\ Gr!Begin(r, rec)
<1>. DEFINE Starts(rec) ==
        rec \in GroupRequest /\ GroupHolds(rec) /\ GroupBegins(rec) /\ Gr!Begin(r, rec)
<1>. USE DEF GroupRequest, GroupSteps, GroupKinds, Gr!Nothing, Gr!Idle
<1>1. ASSUME NEW n \in GroupNames, NEW us \in SUBSET Members, Gr!CreateGroup(r, n, us)
      PROVE  \E rec \in GroupRequest : Starts(rec)
  <2>. DEFINE rec == [Gr!Idle EXCEPT !.kind = "create", !.at = "validateGroup", !.name = n,
                                     !.users = us]
  <2>1. Starts(rec)
    BY <1>1 DEF Gr!CreateGroup, GroupHolds, GroupBegins
  <2>. QED
    BY <2>1
<1>2. ASSUME NEW n \in GroupNames, NEW us \in SUBSET Members, NEW g \in GroupIds,
             Gr!UpdateGroup(r, g, n, us)
      PROVE  \E rec \in GroupRequest : Starts(rec)
  <2>. DEFINE rec(step) == [Gr!Idle EXCEPT !.kind = "update", !.group = g, !.name = n,
                                           !.users = us, !.at = step]
  <2>1. CASE groups[g] = n
    <3>1. Starts(rec("writeGroup"))
      BY <1>2, <2>1 DEF Gr!UpdateGroup, GroupHolds, GroupBegins
    <3>. QED
      BY <3>1
  <2>2. CASE groups[g] # n
    <3>1. Starts(rec("validateGroup"))
      BY <1>2, <2>2 DEF Gr!UpdateGroup, GroupHolds, GroupBegins
    <3>. QED
      BY <3>1
  <2>. QED
    BY <2>1, <2>2
<1>3. ASSUME NEW g \in GroupIds, Gr!DeleteGroup(r, g)
      PROVE  \E rec \in GroupRequest : Starts(rec)
  <2>. DEFINE rec == [Gr!Idle EXCEPT !.kind = "delete", !.at = "delete", !.group = g]
  <2>1. Starts(rec)
    BY <1>3 DEF Gr!DeleteGroup, GroupHolds, GroupBegins
  <2>. QED
    BY <2>1
<1>4. ASSUME NEW u \in Members, NEW ns \in SUBSET GroupNames, Gr!LoginUserSSO(r, u, ns)
      PROVE  \E rec \in GroupRequest : Starts(rec)
  <2>. DEFINE old == {g \in GroupIds : u \in members[g]}
              rec == [Gr!Idle EXCEPT !.kind = "login", !.at = "deleteOldUsers", !.user = u,
                                     !.names = ns, !.read = old]
  <2>1. Starts(rec)
    BY <1>4 DEF Gr!LoginUserSSO, GroupHolds, GroupBegins
  <2>. QED
    BY <2>1
<1>. QED
  BY <1>1, <1>2, <1>3, <1>4 DEF Gr!Call

LEMMA GroupBegin ==
    ASSUME GroupTypeOK, NEW r \in Requests, NEW rec \in GroupRequest, GroupHolds(rec),
           Gr!Begin(r, rec)
    PROVE  GroupTypeOK' /\ groupRaced \subseteq groupRaced'
<1>1. /\ groupReq' = [groupReq EXCEPT ![r] = rec]
      /\ UNCHANGED <<groups, members, groupAsked>>
  BY DEF Gr!Begin
<1>2. groupRaced' = groupRaced \cup
          UNION {Gr!Writes(rec.kind) \cap Gr!Writes(groupReq[q].kind) : q \in Requests}
  BY DEF Gr!Begin
<1>3. groupReq' \in [Requests -> GroupRequest] /\ \A q \in Requests : GroupHolds(groupReq'[q])
  BY <1>1 DEF GroupTypeOK
<1>4. \A q \in Requests :
          Gr!Writes(rec.kind) \cap Gr!Writes(groupReq[q].kind) \subseteq groupRaced'
  BY <1>2
<1>5. GroupOverlaps'
  BY <1>1, <1>2, <1>4 DEF GroupOverlaps, GroupTypeOK
<1>. QED
  BY <1>1, <1>2, <1>3, <1>5 DEF GroupTypeOK

LEMMA GroupGoesOn ==
    ASSUME GroupTypeOK, NEW r \in Requests, NEW rec \in GroupRequest, GroupHolds(rec),
           rec.kind \in {groupReq[r].kind, Gr!Nothing}, groupRaced' = groupRaced,
           groupReq' = [groupReq EXCEPT ![r] = rec]
    PROVE  /\ groupReq' \in [Requests -> GroupRequest]
           /\ \A q \in Requests : GroupHolds(groupReq'[q])
           /\ GroupOverlaps'
<1>1. groupReq' \in [Requests -> GroupRequest] /\ \A q \in Requests : GroupHolds(groupReq'[q])
  BY DEF GroupTypeOK
<1>2. Gr!Writes(Gr!Nothing) = {}
  BY DEF Gr!Writes, Gr!Nothing
<1>3. GroupOverlaps'
  BY <1>2 DEF GroupOverlaps, GroupTypeOK
<1>. QED
  BY <1>1, <1>3

GroupPredecessor(step) ==
    CASE step = "writeGroup" -> {"validateGroup"}
      [] step \in {"addNewUsers", "getAllUsers"} -> {"writeGroup"}
      [] step = "updateGroupUsers" -> {"getAllUsers"}
      [] step = "getCorrectGroups" -> {"deleteOldUsers"}
      [] step = "join" -> {"getCorrectGroups", "join"}
      [] OTHER -> {}

LEMMA GroupContinue ==
    ASSUME GroupTypeOK, NEW r \in Requests, Gr!Continue(r)
    PROVE  /\ groupRaced' = groupRaced
           /\ \E rec \in GroupRequest :
                 /\ GroupHolds(rec)
                 /\ groupReq' = [groupReq EXCEPT ![r] = rec]
                 /\ \/ rec = Gr!Idle
                    \/ /\ rec.kind = groupReq[r].kind
                       /\ groupReq[r].at \in GroupPredecessor(rec.at)
<1>. DEFINE q == groupReq[r]
            Follows(rec) ==
               /\ rec \in GroupRequest /\ GroupHolds(rec)
               /\ groupReq' = [groupReq EXCEPT ![r] = rec]
               /\ \/ rec = Gr!Idle
                  \/ rec.kind = q.kind /\ q.at \in GroupPredecessor(rec.at)
<1>0. q \in GroupRequest /\ GroupHolds(q) /\ groupReq \in [Requests -> GroupRequest]
  BY DEF GroupTypeOK
<1>1. Gr!Finish(r) => Follows(Gr!Idle)
  BY DEF Gr!Finish, Gr!Idle, Gr!Nothing, GroupRequest, GroupSteps, GroupHolds
<1>2. ASSUME NEW step \in {"writeGroup", "getAllUsers", "getCorrectGroups"},
             Gr!Goto(r, step), q.at \in GroupPredecessor(step),
             step = "getAllUsers" => q.kind = "update"
      PROVE  Follows([q EXCEPT !.at = step])
  <2>1. [q EXCEPT !.at = step] \in GroupRequest
    BY <1>0 DEF GroupRequest, GroupSteps
  <2>2. GroupHolds([q EXCEPT !.at = step])
    BY <1>0, <1>2 DEF GroupRequest, GroupHolds, GroupPredecessor, Gr!Nothing
  <2>3. groupReq' = [groupReq EXCEPT ![r] = [q EXCEPT !.at = step]]
    BY <1>0, <1>2 DEF Gr!Goto
  <2>. QED
    BY <1>0, <1>2, <2>1, <2>2, <2>3 DEF GroupRequest
<1>3. CASE Gr!WriteNewGroup(r)
  <2>1. PICK g \in GroupIds : groupReq' = [groupReq EXCEPT ![r].at = "addNewUsers", ![r].group = g]
    BY <1>3 DEF Gr!WriteNewGroup
  <2>. DEFINE rec == [q EXCEPT !.at = "addNewUsers", !.group = g]
  <2>2. rec \in GroupRequest
    BY <1>0 DEF GroupRequest, GroupSteps
  <2>3. q.at = "writeGroup" /\ q.kind = "create"
    BY <1>3 DEF Gr!WriteNewGroup, Gr!At
  <2>4. GroupHolds(rec)
    BY <1>0, <2>3 DEF GroupRequest, GroupHolds, Gr!Nothing
  <2>5. groupReq' = [groupReq EXCEPT ![r] = rec]
    BY <1>0, <2>1
  <2>6. rec.kind = q.kind /\ q.at \in GroupPredecessor(rec.at)
    BY <1>0, <2>3 DEF GroupRequest, GroupPredecessor
  <2>. QED
    BY <1>3, <2>2, <2>4, <2>5, <2>6 DEF Gr!WriteNewGroup
<1>4. CASE Gr!GetAllUsersByGroups(r)
  <2>. DEFINE rec == [q EXCEPT !.at = "updateGroupUsers", !.read = members[q.group]]
  <2>1. q.at = "getAllUsers" /\ q.kind = "update" /\ q.group \in GroupIds
    BY <1>0, <1>4 DEF Gr!GetAllUsersByGroups, Gr!At, GroupHolds
  <2>2. members[q.group] \subseteq Members
    BY <2>1 DEF GroupTypeOK
  <2>3. rec \in GroupRequest
    BY <1>0, <2>2 DEF GroupRequest, GroupSteps
  <2>4. GroupHolds(rec)
    BY <1>0, <2>1 DEF GroupRequest, GroupHolds, Gr!Nothing
  <2>5. groupReq' = [groupReq EXCEPT ![r] = rec]
    BY <1>0, <1>4 DEF Gr!GetAllUsersByGroups
  <2>6. rec.kind = q.kind /\ q.at \in GroupPredecessor(rec.at)
    BY <1>0, <2>1 DEF GroupRequest, GroupPredecessor
  <2>. QED
    BY <1>4, <2>3, <2>4, <2>5, <2>6 DEF Gr!GetAllUsersByGroups
<1>5. ASSUME NEW read \in SUBSET GroupIds, q.at \in {"getCorrectGroups", "join"},
             groupReq' = [groupReq EXCEPT ![r] = [q EXCEPT !.at = "join", !.read = read]]
      PROVE  Follows([q EXCEPT !.at = "join", !.read = read])
  <2>. DEFINE rec == [q EXCEPT !.at = "join", !.read = read]
  <2>1. q.kind = "login"
    BY <1>0, <1>5 DEF GroupHolds
  <2>2. rec \in GroupRequest
    BY <1>0 DEF GroupRequest, GroupSteps
  <2>3. GroupHolds(rec)
    BY <1>0, <2>1 DEF GroupRequest, GroupHolds, Gr!Nothing
  <2>4. rec.kind = q.kind /\ q.at \in GroupPredecessor(rec.at)
    BY <1>0, <1>5 DEF GroupRequest, GroupPredecessor
  <2>. QED
    BY <1>5, <2>2, <2>3, <2>4
<1>6. CASE Gr!GetCorrectGroups(r)
  <2>. DEFINE correct == {g \in Gr!Existing : groups[g] \in q.names}
  <2>1. correct \in SUBSET GroupIds
    BY DEF Gr!Existing
  <2>2. q.at = "getCorrectGroups" /\ groupRaced' = groupRaced
    BY <1>6 DEF Gr!GetCorrectGroups, Gr!At
  <2>3. \/ Gr!Finish(r)
        \/ groupReq' = [groupReq EXCEPT ![r].at = "join", ![r].read = correct]
    BY <1>6 DEF Gr!GetCorrectGroups
  <2>4. CASE groupReq' = [groupReq EXCEPT ![r].at = "join", ![r].read = correct]
    <3>. HIDE DEF correct
    <3>1. groupReq' = [groupReq EXCEPT ![r] = [q EXCEPT !.at = "join", !.read = correct]]
      BY <1>0, <2>4
    <3>. QED
      BY <1>5, <2>1, <2>2, <3>1
  <2>. QED
    BY <1>1, <2>2, <2>3, <2>4
<1>7. CASE Gr!Join(r)
  <2>1. q.at = "join" /\ groupRaced' = groupRaced
    BY <1>7 DEF Gr!Join, Gr!At
  <2>2. PICK g \in q.read :
           Gr!Finish(r) \/ groupReq' = [groupReq EXCEPT ![r].read = @ \ {g}]
    BY <1>7 DEF Gr!Join
  <2>3. CASE groupReq' = [groupReq EXCEPT ![r].read = @ \ {g}]
    <3>1. q.read \ {g} \in SUBSET GroupIds
      BY <1>0, <2>1 DEF GroupHolds
    <3>2. groupReq' = [groupReq EXCEPT ![r] = [q EXCEPT !.at = "join", !.read = q.read \ {g}]]
      BY <1>0, <2>1, <2>3 DEF GroupRequest
    <3>. QED
      BY <1>5, <2>1, <3>1, <3>2
  <2>. QED
    BY <1>1, <2>1, <2>2, <2>3
<1>8. CASE \/ Gr!ValidateGroup(r) \/ Gr!AddNewUsers(r) \/ Gr!WriteGroup(r)
           \/ Gr!UpdateGroupUsers(r) \/ Gr!Delete(r) \/ Gr!DeleteOldUsers(r)
  <2>1. /\ groupRaced' = groupRaced
        /\ \/ Gr!Finish(r)
           \/ \E step \in {"writeGroup", "getAllUsers", "getCorrectGroups"} :
                 /\ Gr!Goto(r, step) /\ q.at \in GroupPredecessor(step)
                 /\ step = "getAllUsers" => q.kind = "update"
    BY <1>8 DEF Gr!ValidateGroup, Gr!AddNewUsers, Gr!WriteGroup, Gr!UpdateGroupUsers, Gr!Delete,
                Gr!DeleteOldUsers, Gr!At, GroupPredecessor
  <2>. QED
    BY <1>1, <1>2, <2>1
<1>. QED
  BY <1>3, <1>4, <1>6, <1>7, <1>8 DEF Gr!Continue

LEMMA GroupTypeStep ==
    ASSUME GroupTypeOK, [Gr!Next]_(Gr!vars)
    PROVE  GroupTypeOK' /\ groupRaced \subseteq groupRaced'
<1>. USE DEF GroupTypeOK
<1>1. ASSUME NEW r \in Requests, Gr!Call(r)
      PROVE  GroupTypeOK' /\ groupRaced \subseteq groupRaced'
  BY <1>1, GroupCall, GroupBegin
<1>2. ASSUME NEW r \in Requests, Gr!Continue(r)
      PROVE  GroupTypeOK' /\ groupRaced \subseteq groupRaced'
  <2>0. GroupHolds(groupReq[r]) /\ groupReq[r] \in GroupRequest
    OBVIOUS
  <2>1. /\ groupRaced' = groupRaced
        /\ groupReq' \in [Requests -> GroupRequest]
        /\ \A q \in Requests : GroupHolds(groupReq'[q])
        /\ GroupOverlaps'
    <3>1. groupRaced' = groupRaced
      BY <1>2, GroupContinue
    <3>2. PICK rec \in GroupRequest :
                 /\ GroupHolds(rec)
                 /\ groupReq' = [groupReq EXCEPT ![r] = rec]
                 /\ rec = Gr!Idle \/ rec.kind = groupReq[r].kind
      BY <1>2, GroupContinue
    <3>3. rec.kind \in {groupReq[r].kind, Gr!Nothing}
      BY <3>2 DEF Gr!Idle
    <3>. QED
      BY <3>1, <3>2, <3>3, GroupGoesOn
  <2>2. groups' \in [GroupIds -> GroupNames \cup {Gr!Nothing}]
    BY <1>2 DEF Gr!Continue, Gr!ValidateGroup, Gr!WriteNewGroup, Gr!AddNewUsers, Gr!WriteGroup,
                Gr!GetAllUsersByGroups, Gr!UpdateGroupUsers, Gr!Delete, Gr!DeleteOldUsers,
                Gr!GetCorrectGroups, Gr!Join, GroupRequest
  <2>3. members' \in [GroupIds -> SUBSET Members]
    <3>1. CASE Gr!AddNewUsers(r) \/ Gr!Delete(r) \/ Gr!UpdateGroupUsers(r)
      BY <2>0, <3>1 DEF Gr!AddNewUsers, Gr!Delete, Gr!UpdateGroupUsers, Gr!DeletableUsers,
                        GroupRequest
    <3>2. CASE Gr!DeleteOldUsers(r)
      BY <3>2 DEF Gr!DeleteOldUsers
    <3>3. CASE Gr!Join(r)
      <4>1. groupReq[r].user \in Members
        BY <2>0, <3>3 DEF Gr!Join, Gr!At, GroupHolds
      <4>2. PICK g \in groupReq[r].read :
               \/ members' = members
               \/ members' = [members EXCEPT ![g] = @ \cup {groupReq[r].user}]
        BY <3>3 DEF Gr!Join
      <4>. QED
        BY <4>1, <4>2
    <3>4. CASE \/ Gr!ValidateGroup(r) \/ Gr!WriteNewGroup(r) \/ Gr!WriteGroup(r)
               \/ Gr!GetAllUsersByGroups(r) \/ Gr!GetCorrectGroups(r)
      BY <3>4 DEF Gr!ValidateGroup, Gr!WriteNewGroup, Gr!WriteGroup, Gr!GetAllUsersByGroups,
                  Gr!GetCorrectGroups
    <3>. QED
      BY <1>2, <3>1, <3>2, <3>3, <3>4 DEF Gr!Continue
  <2>4. groupAsked' \in [GroupIds -> SUBSET Members]
    <3>1. CASE Gr!AddNewUsers(r) \/ Gr!Delete(r) \/ Gr!UpdateGroupUsers(r)
      BY <2>0, <2>3, <3>1 DEF Gr!AddNewUsers, Gr!Delete, Gr!UpdateGroupUsers, Gr!Asked,
                              GroupRequest
    <3>2. CASE Gr!DeleteOldUsers(r)
      BY <2>3, <3>2 DEF Gr!DeleteOldUsers, Gr!Asked
    <3>3. CASE Gr!Join(r)
      <4>1. groupReq[r].user \in Members
        BY <2>0, <3>3 DEF Gr!Join, Gr!At, GroupHolds
      <4>. QED
        BY <2>3, <3>3, <4>1 DEF Gr!Join, Gr!Asked
    <3>4. CASE \/ Gr!ValidateGroup(r) \/ Gr!WriteNewGroup(r) \/ Gr!WriteGroup(r)
               \/ Gr!GetAllUsersByGroups(r) \/ Gr!GetCorrectGroups(r)
      BY <3>4 DEF Gr!ValidateGroup, Gr!WriteNewGroup, Gr!WriteGroup, Gr!GetAllUsersByGroups,
                  Gr!GetCorrectGroups
    <3>. QED
      BY <1>2, <3>1, <3>2, <3>3, <3>4 DEF Gr!Continue
  <2>. QED
    BY <2>1, <2>2, <2>3, <2>4
<1>3. CASE UNCHANGED Gr!vars
  BY <1>3 DEF Gr!vars, GroupOverlaps
<1>. QED
  BY <1>1, <1>2, <1>3 DEF Gr!Next

\* Two requests that write the same overlap.
LEMMA GroupWriters ==
    ASSUME GroupTypeOK, NEW r \in Requests, NEW q \in Requests, r # q
    PROVE  /\ "names" \notin groupRaced /\ groupReq[r].kind \in {"create", "update"}
                 => groupReq[q].kind \notin {"create", "update"}
           /\ "members" \notin groupRaced /\ groupReq[r].kind # Gr!Nothing
                 => groupReq[q].kind = Gr!Nothing
<1>1. Gr!Writes(groupReq[r].kind) \cap Gr!Writes(groupReq[q].kind) \subseteq groupRaced
  BY DEF GroupTypeOK, GroupOverlaps
<1>2. \A k \in {"create", "update"} : "names" \in Gr!Writes(k)
  BY DEF Gr!Writes
<1>3. \A k \in GroupKinds : "members" \in Gr!Writes(k)
  BY DEF GroupKinds, Gr!Writes
<1>4. groupReq[r].kind \in GroupKinds \cup {Gr!Nothing}
      /\ groupReq[q].kind \in GroupKinds \cup {Gr!Nothing}
  BY DEF GroupTypeOK, GroupRequest
<1>. QED
  BY <1>1, <1>2, <1>3, <1>4

-----------------------------------------------------------------------------
(* Names of groups: a request that is about to write a name has found no    *)
(* group that has it, but the one that it writes.                           *)

GroupNamesInv ==
    "names" \notin groupRaced =>
        /\ \A g, h \in Gr!Existing : groups[g] = groups[h] => g = h
        /\ \A r \in Requests, g \in Gr!Existing :
              groupReq[r].at = "writeGroup" /\ groups[g] = groupReq[r].name =>
                  groupReq[r].kind = "update" /\ g = groupReq[r].group

LEMMA GroupNamesStep ==
    ASSUME GroupTypeOK, GroupNamesInv, [Gr!Next]_(Gr!vars)
    PROVE  GroupNamesInv'
<1>. SUFFICES ASSUME "names" \notin groupRaced'
              PROVE  GroupNamesInv'
  BY DEF GroupNamesInv
<1>0. "names" \notin groupRaced
  BY GroupTypeStep
<1>1. /\ groupReq \in [Requests -> GroupRequest]
      /\ \A r \in Requests : GroupHolds(groupReq[r])
      /\ groups \in [GroupIds -> GroupNames \cup {Gr!Nothing}]
  BY DEF GroupTypeOK
<1>2. \A r, q \in Requests :
         r # q /\ groupReq[r].kind \in {"create", "update"}
            => groupReq[q].kind \notin {"create", "update"}
  BY <1>0, GroupWriters
<1>3. Gr!Existing' = {g \in GroupIds : groups'[g] # Gr!Nothing}
  BY DEF Gr!Existing
<1>4. ASSUME NEW r \in Requests, NEW rec \in GroupRequest,
             groupReq' = [groupReq EXCEPT ![r] = rec], rec.at # "writeGroup",
             \A g \in GroupIds : groups'[g] \in {groups[g], Gr!Nothing}
      PROVE  GroupNamesInv'
  <2>1. \A g \in Gr!Existing' : g \in Gr!Existing /\ groups'[g] = groups[g]
    BY <1>3, <1>4 DEF Gr!Existing
  <2>2. \A q \in Requests : groupReq'[q].at = "writeGroup" => groupReq'[q] = groupReq[q]
    BY <1>1, <1>4
  <2>. QED
    BY <1>0, <2>1, <2>2 DEF GroupNamesInv
<1>5. ASSUME NEW r \in Requests, Gr!Call(r)
      PROVE  GroupNamesInv'
  <2>1. PICK rec \in GroupRequest : GroupHolds(rec) /\ GroupBegins(rec) /\ Gr!Begin(r, rec)
    BY <1>5, GroupCall
  <2>2. groupReq' = [groupReq EXCEPT ![r] = rec] /\ groups' = groups
    BY <2>1 DEF Gr!Begin
  <2>3. CASE rec.at # "writeGroup"
    BY <1>4, <2>2, <2>3
  <2>4. CASE rec.at = "writeGroup"
    <3>1. rec.kind = "update" /\ groups[rec.group] = rec.name /\ rec.group \in GroupIds
      BY <2>1, <2>4 DEF GroupBegins, GroupHolds
    <3>2. \A g \in Gr!Existing : groups[g] = rec.name => g = rec.group
      BY <1>0, <3>1 DEF GroupNamesInv, Gr!Existing
    <3>3. Gr!Existing' = Gr!Existing
      BY <2>2 DEF Gr!Existing
    <3>. QED
      BY <1>0, <1>1, <2>2, <3>1, <3>2, <3>3 DEF GroupNamesInv
  <2>. QED
    BY <2>3, <2>4
<1>6. ASSUME NEW r \in Requests, Gr!ValidateGroup(r)
      PROVE  GroupNamesInv'
  <2>1. groups' = groups /\ Gr!Existing' = Gr!Existing
    BY <1>6 DEF Gr!ValidateGroup, Gr!Existing
  <2>2. CASE Gr!Finish(r)
    <3>1. groupReq' = [groupReq EXCEPT ![r] = Gr!Idle] /\ Gr!Idle.at # "writeGroup"
          /\ Gr!Idle \in GroupRequest
      BY <2>2 DEF Gr!Finish, Gr!Idle, GroupRequest, GroupSteps, Gr!Nothing
    <3>. QED
      BY <1>4, <2>1, <3>1
  <2>3. CASE ~Gr!ExistsWithName(groupReq[r].name) /\ Gr!Goto(r, "writeGroup")
    <3>1. groupReq' = [groupReq EXCEPT ![r].at = "writeGroup"]
      BY <2>3 DEF Gr!Goto
    <3>2. groupReq'[r].name = groupReq[r].name
      BY <1>1, <3>1
    <3>3. \A g \in Gr!Existing : groups[g] # groupReq[r].name
      BY <2>3 DEF Gr!ExistsWithName
    <3>. QED
      BY <1>0, <1>1, <2>1, <3>1, <3>2, <3>3 DEF GroupNamesInv
  <2>. QED
    BY <1>6, <2>2, <2>3 DEF Gr!ValidateGroup
<1>7. ASSUME NEW r \in Requests, NEW g \in GroupIds, NEW rec \in GroupRequest,
             groupReq[r].at = "writeGroup",
             groupReq' = [groupReq EXCEPT ![r] = rec], rec.at # "writeGroup",
             groups' = [groups EXCEPT ![g] = groupReq[r].name],
             groupReq[r].kind = "update" => g = groupReq[r].group
      PROVE  GroupNamesInv'
  <2>1. \A h \in Gr!Existing' : h # g => h \in Gr!Existing /\ groups'[h] = groups[h]
    BY <1>1, <1>3, <1>7 DEF Gr!Existing
  <2>2. groups'[g] = groupReq[r].name
    BY <1>1, <1>7
  <2>3. \A h \in Gr!Existing' : h # g => groups'[h] # groups'[g]
    BY <1>0, <1>7, <2>1, <2>2 DEF GroupNamesInv
  <2>4. \A q \in Requests : groupReq'[q].at # "writeGroup"
    BY <1>1, <1>2, <1>7 DEF GroupHolds
  <2>. QED
    BY <1>0, <2>1, <2>3, <2>4 DEF GroupNamesInv
<1>8. ASSUME NEW r \in Requests, Gr!WriteNewGroup(r) \/ Gr!WriteGroup(r)
      PROVE  GroupNamesInv'
  <2>1. PICK rec \in GroupRequest :
               /\ groupReq' = [groupReq EXCEPT ![r] = rec]
               /\ rec = Gr!Idle \/ groupReq[r].at \in GroupPredecessor(rec.at)
    BY <1>8, GroupContinue DEF Gr!Continue
  <2>2. groupReq[r].at = "writeGroup"
    BY <1>8 DEF Gr!WriteNewGroup, Gr!WriteGroup, Gr!At
  <2>3. rec.at # "writeGroup"
    BY <2>1, <2>2 DEF GroupPredecessor, Gr!Idle
  <2>4. \/ groups' = groups
        \/ \E g \in GroupIds :
              /\ groups' = [groups EXCEPT ![g] = groupReq[r].name]
              /\ groupReq[r].kind = "update" => g = groupReq[r].group
    BY <1>1, <1>8 DEF Gr!WriteNewGroup, Gr!WriteGroup, Gr!Existing
  <2>. QED
    BY <1>4, <1>7, <2>1, <2>2, <2>3, <2>4
<1>9. ASSUME NEW r \in Requests,
             \/ Gr!AddNewUsers(r) \/ Gr!GetAllUsersByGroups(r) \/ Gr!UpdateGroupUsers(r)
             \/ Gr!Delete(r) \/ Gr!DeleteOldUsers(r) \/ Gr!GetCorrectGroups(r) \/ Gr!Join(r)
      PROVE  GroupNamesInv'
  <2>1. PICK rec \in GroupRequest :
               /\ groupReq' = [groupReq EXCEPT ![r] = rec]
               /\ rec = Gr!Idle \/ groupReq[r].at \in GroupPredecessor(rec.at)
    BY <1>9, GroupContinue DEF Gr!Continue
  <2>2. groupReq[r].at # "validateGroup"
    BY <1>9 DEF Gr!AddNewUsers, Gr!GetAllUsersByGroups, Gr!UpdateGroupUsers, Gr!Delete,
                Gr!DeleteOldUsers, Gr!GetCorrectGroups, Gr!Join, Gr!At
  <2>3. rec.at # "writeGroup"
    BY <2>1, <2>2 DEF GroupPredecessor, Gr!Idle
  <2>4. \A g \in GroupIds : groups'[g] \in {groups[g], Gr!Nothing}
    BY <1>1, <1>9 DEF Gr!AddNewUsers, Gr!GetAllUsersByGroups, Gr!UpdateGroupUsers, Gr!Delete,
                Gr!DeleteOldUsers, Gr!GetCorrectGroups, Gr!Join
  <2>. QED
    BY <1>4, <2>1, <2>3, <2>4
<1>10. CASE UNCHANGED Gr!vars
  BY <1>0, <1>10 DEF Gr!vars, GroupNamesInv, Gr!Existing
<1>. QED
  BY <1>5, <1>6, <1>8, <1>9, <1>10 DEF Gr!Next, Gr!Continue

LEMMA GroupInit == ServicesInit => GroupTypeOK /\ groups = [g \in GroupIds |-> Gr!Nothing]
<1>. SUFFICES ASSUME Gr!Init
              PROVE  GroupTypeOK /\ groups = [g \in GroupIds |-> Gr!Nothing]
  BY DEF ServicesInit
<1>1. Gr!Idle \in GroupRequest /\ GroupHolds(Gr!Idle)
  BY DEF Gr!Idle, Gr!Nothing, GroupRequest, GroupSteps, GroupHolds
<1>2. Gr!Writes(Gr!Idle.kind) = {}
  BY DEF Gr!Writes, Gr!Idle, Gr!Nothing
<1>. QED
  BY <1>1, <1>2 DEF Gr!Init, GroupTypeOK, GroupOverlaps

\* Two groups have one name only if two requests have checked names at once.
THEOREM ServicesGroupNames == ServicesSpec => []GroupNamesUnique
<1>1. ServicesInit => GroupTypeOK /\ GroupNamesInv
  BY GroupInit DEF GroupNamesInv, Gr!Existing
<1>2. GroupTypeOK /\ GroupNamesInv /\ [ServicesNext]_allVars => GroupTypeOK' /\ GroupNamesInv'
  BY GroupsStep, GroupTypeStep, GroupNamesStep
<1>3. GroupNamesInv => GroupNamesUnique
  BY DEF GroupNamesInv, GroupNamesUnique, Gr!GroupNamesUnique
<1>. QED
  BY <1>1, <1>2, <1>3, PTL DEF ServicesSpec

-----------------------------------------------------------------------------
(* Members of groups: a group that is gone has none, and what a request has *)
(* read is still so when it writes, if it was alone.                        *)

NoMembers == \A g \in GroupIds : groups[g] = Gr!Nothing => members[g] = {}

MembersKnown(q) ==
    /\ q.at = "addNewUsers" => groups[q.group] # Gr!Nothing /\ members[q.group] = {}
    /\ q.at \in {"getAllUsers", "updateGroupUsers"} => groups[q.group] # Gr!Nothing
    /\ q.at = "updateGroupUsers" => q.read = members[q.group]
    /\ q.at = "deleteOldUsers" => \A g \in GroupIds : q.user \in members[g] => g \in q.read
    /\ q.at = "join" => \A g \in q.read : groups[g] # Gr!Nothing

MembersInv ==
    /\ NoMembers
    /\ "members" \notin groupRaced =>
          members = groupAsked /\ \A r \in Requests : MembersKnown(groupReq[r])

LEMMA NoMembersStep ==
    ASSUME Gr!Nothing \notin GroupNames, GroupTypeOK, NoMembers, [Gr!Next]_(Gr!vars)
    PROVE  NoMembers'
<1>0. /\ groups \in [GroupIds -> GroupNames \cup {Gr!Nothing}]
      /\ members \in [GroupIds -> SUBSET Members]
      /\ \A r \in Requests : groupReq[r] \in GroupRequest /\ GroupHolds(groupReq[r])
  BY DEF GroupTypeOK
<1>1. ASSUME NEW r \in Requests, Gr!Call(r)
      PROVE  UNCHANGED <<groups, members>>
  BY <1>1, GroupCall DEF Gr!Begin
<1>2. ASSUME NEW r \in Requests, Gr!WriteNewGroup(r)
      PROVE  NoMembers'
  BY <1>0, <1>2 DEF Gr!WriteNewGroup, Gr!Existing, NoMembers
<1>3. ASSUME NEW r \in Requests, Gr!WriteGroup(r)
      PROVE  NoMembers'
  <2>1. groupReq[r].name # Gr!Nothing
    BY <1>0, <1>3 DEF Gr!WriteGroup, GroupHolds
  <2>. QED
    BY <1>0, <1>3, <2>1 DEF Gr!WriteGroup, NoMembers
<1>4. ASSUME NEW r \in Requests, Gr!AddNewUsers(r) \/ Gr!UpdateGroupUsers(r)
      PROVE  NoMembers'
  <2>. DEFINE q == groupReq[r]
              new == q.users \ q.read
  <2>1. groups' = groups /\ members' \in [GroupIds -> SUBSET Members]
    BY <1>4, GroupTypeStep DEF Gr!AddNewUsers, Gr!UpdateGroupUsers, GroupTypeOK, Gr!Next, Gr!Continue
  <2>2. \A g \in GroupIds : g # q.group => members'[g] = members[g]
    BY <1>0, <1>4 DEF Gr!AddNewUsers, Gr!UpdateGroupUsers
  <2>3. ASSUME q.group \in GroupIds, groups[q.group] = Gr!Nothing
        PROVE  members'[q.group] = {}
    <3>1. members[q.group] = {} /\ q.group \notin Gr!Existing
      BY <2>3 DEF NoMembers, Gr!Existing
    <3>2. CASE Gr!AddNewUsers(r)
      BY <1>0, <2>3, <3>1, <3>2 DEF Gr!AddNewUsers
    <3>3. CASE Gr!UpdateGroupUsers(r) /\ new # {}
      BY <1>0, <2>3, <3>1, <3>3 DEF Gr!UpdateGroupUsers
    <3>4. CASE Gr!UpdateGroupUsers(r) /\ new = {}
      BY <1>0, <2>3, <3>1, <3>4 DEF Gr!UpdateGroupUsers, Gr!DeletableUsers
    <3>. QED
      BY <1>4, <3>2, <3>3, <3>4
  <2>. QED
    BY <2>1, <2>2, <2>3 DEF NoMembers
<1>5. ASSUME NEW r \in Requests, Gr!Delete(r)
      PROVE  NoMembers'
  BY <1>0, <1>5 DEF Gr!Delete, NoMembers
<1>6. ASSUME NEW r \in Requests, Gr!DeleteOldUsers(r)
      PROVE  NoMembers'
  BY <1>0, <1>6 DEF Gr!DeleteOldUsers, NoMembers
<1>7. ASSUME NEW r \in Requests, Gr!Join(r)
      PROVE  NoMembers'
  <2>1. PICK g \in groupReq[r].read :
             /\ groups' = groups
             /\ \/ members' = members
                \/ g \in Gr!Existing
                   /\ members' = [members EXCEPT ![g] = @ \cup {groupReq[r].user}]
    BY <1>0, <1>7 DEF Gr!Join
  <2>. QED
    BY <1>0, <2>1 DEF NoMembers, Gr!Existing
<1>8. ASSUME NEW r \in Requests,
             Gr!ValidateGroup(r) \/ Gr!GetAllUsersByGroups(r) \/ Gr!GetCorrectGroups(r)
      PROVE  UNCHANGED <<groups, members>>
  BY <1>8 DEF Gr!ValidateGroup, Gr!GetAllUsersByGroups, Gr!GetCorrectGroups
<1>9. CASE UNCHANGED <<groups, members>>
  BY <1>9 DEF NoMembers
<1>. QED
  BY <1>1, <1>2, <1>3, <1>4, <1>5, <1>6, <1>7, <1>8, <1>9 DEF Gr!Next, Gr!vars, Gr!Continue

\* A request that is alone writes the members that are asked for, and then knows
\* what it must.
LEMMA MembersContinue ==
    ASSUME Gr!Nothing \notin GroupNames, GroupTypeOK, MembersInv, "members" \notin groupRaced,
           NEW r \in Requests, Gr!Continue(r)
    PROVE  members' = groupAsked' /\ MembersKnown(groupReq[r])'
<1>. DEFINE q == groupReq[r]
<1>0. /\ groups \in [GroupIds -> GroupNames \cup {Gr!Nothing}]
      /\ members \in [GroupIds -> SUBSET Members]
      /\ groupReq \in [Requests -> GroupRequest]
      /\ q \in GroupRequest /\ GroupHolds(q)
      /\ members = groupAsked /\ MembersKnown(q)
  BY DEF GroupTypeOK, MembersInv
<1>1. ASSUME Gr!Finish(r)
      PROVE  MembersKnown(groupReq[r])'
  BY <1>0, <1>1 DEF Gr!Finish, Gr!Idle, MembersKnown
<1>2. CASE Gr!ValidateGroup(r)
  <2>1. CASE Gr!Goto(r, "writeGroup")
    <3>1. groupReq'[r].at = "writeGroup"
      BY <1>0, <2>1 DEF Gr!Goto, GroupRequest
    <3>2. members' = members /\ groupAsked' = groupAsked
      BY <1>2 DEF Gr!ValidateGroup
    <3>. QED
      BY <1>0, <3>1, <3>2 DEF MembersKnown
  <2>. QED
    BY <1>0, <1>1, <1>2, <2>1 DEF Gr!ValidateGroup
<1>3. CASE Gr!WriteNewGroup(r)
  <2>1. PICK g \in GroupIds :
             /\ groups[g] = Gr!Nothing
             /\ groups' = [groups EXCEPT ![g] = q.name]
             /\ groupReq' = [groupReq EXCEPT ![r].at = "addNewUsers", ![r].group = g]
    BY <1>3 DEF Gr!WriteNewGroup, Gr!Existing
  <2>2. q.name # Gr!Nothing
    BY <1>0, <1>3 DEF Gr!WriteNewGroup, GroupHolds
  <2>3. members[g] = {}
    BY <2>1 DEF MembersInv, NoMembers
  <2>4. groupReq'[r].at = "addNewUsers" /\ groupReq'[r].group = g
    BY <1>0, <2>1 DEF GroupRequest
  <2>5. members' = members /\ groupAsked' = groupAsked
    BY <1>3 DEF Gr!WriteNewGroup
  <2>. QED
    BY <1>0, <2>1, <2>2, <2>3, <2>4, <2>5 DEF MembersKnown
<1>4. CASE Gr!AddNewUsers(r)
  <2>1. q.at = "addNewUsers" /\ q.group \in GroupIds
    BY <1>0, <1>4 DEF Gr!AddNewUsers, Gr!At, GroupHolds
  <2>2. q.group \in Gr!Existing /\ members[q.group] = {}
    BY <1>0, <2>1 DEF MembersKnown, Gr!Existing
  <2>3. members' = [members EXCEPT ![q.group] = q.users]
    BY <1>0, <1>4, <2>2 DEF Gr!AddNewUsers
  <2>4. groupAsked' = [groupAsked EXCEPT ![q.group] = q.users]
    BY <1>4 DEF Gr!AddNewUsers, Gr!Asked
  <2>. QED
    BY <1>0, <1>1, <1>4, <2>3, <2>4 DEF Gr!AddNewUsers
<1>5. CASE Gr!WriteGroup(r)
  <2>1. /\ members' = members /\ groupAsked' = groupAsked
        /\ q.group \in GroupIds /\ q.name # Gr!Nothing
    BY <1>0, <1>5 DEF Gr!WriteGroup, GroupHolds
  <2>2. CASE groups' = [groups EXCEPT ![q.group] = q.name] /\ Gr!Goto(r, "getAllUsers")
    <3>1. groupReq'[r].at = "getAllUsers" /\ groupReq'[r].group = q.group
      BY <1>0, <2>2 DEF Gr!Goto, GroupRequest
    <3>. QED
      BY <1>0, <2>1, <2>2, <3>1 DEF MembersKnown
  <2>. QED
    BY <1>0, <1>1, <1>5, <2>1, <2>2 DEF Gr!WriteGroup
<1>6. CASE Gr!GetAllUsersByGroups(r)
  <2>1. /\ groupReq'[r].at = "updateGroupUsers" /\ groupReq'[r].group = q.group
        /\ groupReq'[r].read = members[q.group]
        /\ UNCHANGED <<groups, members, groupAsked>> /\ q.at = "getAllUsers"
    BY <1>0, <1>6 DEF Gr!GetAllUsersByGroups, Gr!At, GroupRequest
  <2>. QED
    BY <1>0, <2>1 DEF MembersKnown
<1>7. CASE Gr!UpdateGroupUsers(r)
  <2>1. q.at = "updateGroupUsers" /\ q.group \in GroupIds /\ q.users \subseteq Members
    BY <1>0, <1>7 DEF Gr!UpdateGroupUsers, Gr!At, GroupHolds, GroupRequest
  <2>2. q.group \in Gr!Existing /\ q.read = members[q.group]
    BY <1>0, <2>1 DEF MembersKnown, Gr!Existing
  <2>3. members[q.group] \cap (q.users \ q.read) = {}
    BY <2>2
  <2>4. (members[q.group] \cup (q.users \ q.read)) \ Gr!DeletableUsers(q.read, q.users) = q.users
    BY <2>2 DEF Gr!DeletableUsers
  <2>5. members' = [members EXCEPT ![q.group] = q.users]
    BY <1>7, <2>2, <2>3, <2>4 DEF Gr!UpdateGroupUsers
  <2>6. groupAsked' = [groupAsked EXCEPT ![q.group] = q.users]
    BY <1>7 DEF Gr!UpdateGroupUsers, Gr!Asked
  <2>. QED
    BY <1>0, <1>1, <1>7, <2>5, <2>6 DEF Gr!UpdateGroupUsers
<1>8. CASE Gr!Delete(r)
  BY <1>0, <1>1, <1>8 DEF Gr!Delete, Gr!Asked
<1>9. CASE Gr!DeleteOldUsers(r)
  <2>1. q.at = "deleteOldUsers"
    BY <1>9 DEF Gr!DeleteOldUsers, Gr!At
  <2>2. members' = [g \in GroupIds |-> members[g] \ {q.user}]
    BY <1>0, <1>9, <2>1 DEF Gr!DeleteOldUsers, MembersKnown
  <2>3. groupAsked' = [g \in GroupIds |-> groupAsked[g] \ {q.user}]
    BY <1>9 DEF Gr!DeleteOldUsers, Gr!Asked
  <2>4. groupReq'[r].at = "getCorrectGroups"
    BY <1>0, <1>9 DEF Gr!DeleteOldUsers, Gr!Goto, GroupRequest
  <2>. QED
    BY <1>0, <2>2, <2>3, <2>4 DEF MembersKnown
<1>10. CASE Gr!GetCorrectGroups(r)
  <2>. DEFINE correct == {g \in Gr!Existing : groups[g] \in q.names}
  <2>1. UNCHANGED <<groups, members, groupAsked>>
    BY <1>10 DEF Gr!GetCorrectGroups
  <2>2. CASE groupReq' = [groupReq EXCEPT ![r].at = "join", ![r].read = correct]
    <3>1. \A g \in correct : groups[g] # Gr!Nothing
      BY DEF Gr!Existing
    <3>. HIDE DEF correct
    <3>2. groupReq'[r].at = "join" /\ groupReq'[r].read = correct
      BY <1>0, <2>2 DEF GroupRequest
    <3>. QED
      BY <1>0, <2>1, <3>1, <3>2 DEF MembersKnown
  <2>. QED
    BY <1>0, <1>1, <1>10, <2>1, <2>2 DEF Gr!GetCorrectGroups
<1>11. CASE Gr!Join(r)
  <2>1. q.at = "join" /\ groups' = groups /\ \A g \in q.read : g \in GroupIds /\ g \in Gr!Existing
    BY <1>0, <1>11 DEF Gr!Join, Gr!At, MembersKnown, GroupHolds, Gr!Existing
  <2>2. PICK g \in q.read :
             /\ members' = [members EXCEPT ![g] = @ \cup {q.user}]
             /\ groupAsked' = [groupAsked EXCEPT ![g] = @ \cup {q.user}]
             /\ Gr!Finish(r) \/ groupReq' = [groupReq EXCEPT ![r].read = @ \ {g}]
    BY <1>11, <2>1 DEF Gr!Join, Gr!Asked
  <2>3. CASE groupReq' = [groupReq EXCEPT ![r].read = @ \ {g}]
    <3>1. groupReq'[r].at = "join" /\ groupReq'[r].read \subseteq q.read
      BY <1>0, <2>1, <2>3 DEF GroupRequest
    <3>. QED
      BY <1>0, <2>1, <2>2, <3>1 DEF MembersKnown, Gr!Existing
  <2>. QED
    BY <1>0, <1>1, <2>2, <2>3
<1>. QED
  BY <1>2, <1>3, <1>4, <1>5, <1>6, <1>7, <1>8, <1>9, <1>10, <1>11 DEF Gr!Continue

LEMMA MembersStep ==
    ASSUME Gr!Nothing \notin GroupNames, GroupTypeOK, MembersInv, [Gr!Next]_(Gr!vars)
    PROVE  MembersInv'
<1>0. NoMembers' /\ groupRaced \subseteq groupRaced'
  BY NoMembersStep, GroupTypeStep DEF MembersInv
<1>. SUFFICES ASSUME "members" \notin groupRaced'
              PROVE  /\ members' = groupAsked'
                     /\ \A r \in Requests : MembersKnown(groupReq[r])'
  BY <1>0 DEF MembersInv
<1>1. "members" \notin groupRaced
  BY <1>0
<1>2. members = groupAsked /\ \A r \in Requests : MembersKnown(groupReq[r])
  BY <1>1 DEF MembersInv
<1>3. groupReq \in [Requests -> GroupRequest] /\ \A r \in Requests : GroupHolds(groupReq[r])
  BY DEF GroupTypeOK
<1>4. ASSUME NEW r \in Requests, Gr!Call(r)
      PROVE  members' = groupAsked' /\ \A q \in Requests : MembersKnown(groupReq[q])'
  <2>1. PICK rec \in GroupRequest : GroupHolds(rec) /\ GroupBegins(rec) /\ Gr!Begin(r, rec)
    BY <1>4, GroupCall
  <2>2. /\ groupReq' = [groupReq EXCEPT ![r] = rec]
        /\ UNCHANGED <<groups, members, groupAsked>>
    BY <2>1 DEF Gr!Begin
  <2>3. MembersKnown(rec)
    BY <2>1 DEF GroupBegins, MembersKnown
  <2>4. ASSUME NEW q \in Requests
        PROVE  MembersKnown(groupReq'[q])
    BY <1>2, <1>3, <2>2, <2>3
  <2>. QED
    BY <1>2, <2>2, <2>4 DEF MembersKnown
<1>5. ASSUME NEW r \in Requests, Gr!Continue(r)
      PROVE  members' = groupAsked' /\ \A q \in Requests : MembersKnown(groupReq[q])'
  <2>1. members' = groupAsked' /\ MembersKnown(groupReq[r])'
    BY <1>1, <1>5, MembersContinue
  <2>2. groupReq[r].at # "idle"
    BY <1>5 DEF Gr!Continue, Gr!ValidateGroup, Gr!WriteNewGroup, Gr!AddNewUsers, Gr!WriteGroup,
                Gr!GetAllUsersByGroups, Gr!UpdateGroupUsers, Gr!Delete, Gr!DeleteOldUsers,
                Gr!GetCorrectGroups, Gr!Join, Gr!At
  <2>3. groupReq[r].kind # Gr!Nothing
    BY <1>3, <2>2 DEF GroupHolds
  <2>4. PICK rec \in GroupRequest : groupReq' = [groupReq EXCEPT ![r] = rec]
    BY <1>5, GroupContinue
  <2>5. ASSUME NEW q \in Requests, q # r
        PROVE  groupReq'[q].at = "idle"
    <3>1. groupReq[q].kind = Gr!Nothing
      BY <1>1, <2>3, <2>5, GroupWriters
    <3>2. groupReq[q].at = "idle"
      BY <1>3, <3>1 DEF GroupHolds
    <3>. QED
      BY <1>3, <2>4, <2>5, <3>2
  <2>6. \A q \in Requests : q # r => MembersKnown(groupReq[q])'
    BY <2>5 DEF MembersKnown
  <2>. QED
    BY <2>1, <2>6
<1>6. CASE UNCHANGED Gr!vars
  BY <1>2, <1>6 DEF Gr!vars, MembersKnown
<1>. QED
  BY <1>4, <1>5, <1>6 DEF Gr!Next

\* The members of a group are those asked for last, unless two requests wrote
\* members at once.
THEOREM ServicesMembersAsAsked ==
    ASSUME Gr!Nothing \notin GroupNames
    PROVE  ServicesSpec => []MembersAsAsked
<1>1. ServicesInit => GroupTypeOK /\ MembersInv
  <2>. SUFFICES ASSUME ServicesInit
                PROVE  MembersInv
    BY GroupInit
  <2>1. \A r \in Requests : groupReq[r].at = "idle"
    BY DEF ServicesInit, Gr!Init, Gr!Idle
  <2>2. members = [g \in GroupIds |-> {}] /\ groupAsked = members
    BY DEF ServicesInit, Gr!Init
  <2>. QED
    BY <2>1, <2>2 DEF MembersInv, NoMembers, MembersKnown
<1>2. GroupTypeOK /\ MembersInv /\ [ServicesNext]_allVars => GroupTypeOK' /\ MembersInv'
  BY GroupsStep, GroupTypeStep, MembersStep
<1>3. MembersInv => MembersAsAsked
  BY DEF MembersInv, MembersAsAsked, Gr!MembersAsAsked
<1>. QED
  BY <1>1, <1>2, <1>3, PTL DEF ServicesSpec

-----------------------------------------------------------------------------
(* Imports: one that drops the environments, and that no other overlaps,    *)
(* has inserted all that there are.                                        *)

ImportRecord == [at : {"idle", "deleteAll", "insert", "getTokens"}, envs : SUBSET Imported,
                 drop : BOOLEAN, imported : SUBSET Imported, overlapped : BOOLEAN]

ImportAlone(i) == import[i].drop /\ ~import[i].overlapped

ImportInv ==
    /\ import \in [Requests -> ImportRecord]
    /\ environments \in SUBSET Imported
    /\ \A i, j \in Requests :
          i # j /\ import[i].at # "idle" /\ import[j].at # "idle" => import[i].overlapped
    /\ \A i \in Requests : import[i].at = "insert" /\ ImportAlone(i) => environments = {}
    /\ \A i \in Requests :
          import[i].at = "getTokens" /\ ImportAlone(i) => environments \subseteq import[i].imported

LEMMA ImportStepKeeps ==
    ASSUME ImportInv, [Im!Next]_(Im!vars)
    PROVE  ImportInv'
<1>1. ASSUME NEW i \in Requests, NEW envs \in SUBSET Imported, NEW drop \in BOOLEAN,
             NEW keep \in BOOLEAN, Im!ImportEnvironments(i, envs, drop, keep)
      PROVE  ImportInv'
  <2>. DEFINE others == {j \in Requests \ {i} : import[j].at # "idle"}
              new == [at |-> IF drop THEN "deleteAll" ELSE "insert",
                      envs |-> Im!ToInsert(envs, drop, keep), drop |-> drop,
                      imported |-> {}, overlapped |-> others # {}]
  <2>1. /\ import[i].at = "idle" /\ environments' = environments
        /\ import' = [j \in Requests |->
              IF j = i THEN new ELSE [import[j] EXCEPT !.overlapped = j \in others]]
    BY <1>1 DEF Im!ImportEnvironments, Im!At
  <2>2. new \in ImportRecord
    BY DEF ImportRecord, Im!ToInsert
  <2>3. \A j \in Requests : j # i => import'[j] \in ImportRecord
    <3>1. ASSUME NEW j \in Requests, NEW b \in BOOLEAN
          PROVE  [import[j] EXCEPT !.overlapped = b] \in ImportRecord
      BY DEF ImportInv, ImportRecord
    <3>2. \A j : (j \in others) \in BOOLEAN
      OBVIOUS
    <3>. HIDE DEF others
    <3>3. ASSUME NEW j \in Requests, j # i
          PROVE  import'[j] = [import[j] EXCEPT !.overlapped = j \in others]
      BY <2>1, <3>3
    <3>. QED
      BY <3>1, <3>2, <3>3
  <2>4. /\ import'[i].at \in {"deleteAll", "insert"} /\ import'[i].drop = drop
        /\ import'[i].at = "insert" => ~drop
        /\ import'[i].overlapped = (others # {})
    BY <2>1
  <2>5. ASSUME NEW j \in Requests, j # i
        PROVE  /\ import'[j].at = import[j].at /\ import'[j].drop = import[j].drop
               /\ import'[j].imported = import[j].imported
               /\ import'[j].at # "idle" => import'[j].overlapped
    BY <2>1, <2>5 DEF ImportInv, ImportRecord
  <2>6. import' \in [Requests -> ImportRecord]
    BY <2>1, <2>2, <2>3
  <2>7. \A j, k \in Requests :
           j # k /\ import'[j].at # "idle" /\ import'[k].at # "idle" => import'[j].overlapped
    BY <2>4, <2>5
  <2>8. \A j \in Requests :
           import'[j].at \in {"insert", "getTokens"} => ~(import'[j].drop /\ ~import'[j].overlapped)
    BY <2>4, <2>5
  <2>. QED
    BY <2>1, <2>6, <2>7, <2>8 DEF ImportInv, ImportAlone
<1>2. ASSUME NEW i \in Requests, Im!DeleteAll(i)
      PROVE  ImportInv'
  <2>1. /\ import[i].at = "deleteAll" /\ environments' = {}
        /\ import' = [import EXCEPT ![i].at = "insert"]
    BY <1>2 DEF Im!DeleteAll, Im!At
  <2>. QED
    BY <2>1 DEF ImportInv, ImportAlone, ImportRecord
<1>3. ASSUME NEW i \in Requests, Im!Insert(i)
      PROVE  ImportInv'
  <2>. DEFINE envs == import[i].envs
  <2>1. /\ import[i].at = "insert" /\ environments' = environments \cup envs
        /\ \/ import' = [import EXCEPT ![i] = Im!Idle]
           \/ import' = [import EXCEPT ![i] = [@ EXCEPT !.at = "getTokens",
                                                        !.imported = envs \ environments]]
    BY <1>3 DEF Im!Insert, Im!At
  <2>2. environments' \in SUBSET Imported /\ envs \in SUBSET Imported
    BY <2>1 DEF ImportInv, ImportRecord
  <2>3. Im!Idle \in ImportRecord /\ Im!Idle.at = "idle"
    BY DEF Im!Idle, ImportRecord
  <2>4. \A j \in Requests : j # i /\ import[j].at # "idle" => import[j].overlapped
    BY <2>1 DEF ImportInv
  <2>5. CASE import' = [import EXCEPT ![i] = Im!Idle]
    BY <2>1, <2>2, <2>3, <2>4, <2>5 DEF ImportInv, ImportAlone
  <2>6. CASE import' = [import EXCEPT ![i] = [@ EXCEPT !.at = "getTokens",
                                                       !.imported = envs \ environments]]
    <3>. DEFINE new == [import[i] EXCEPT !.at = "getTokens", !.imported = envs \ environments]
    <3>1. /\ new \in ImportRecord /\ new.at = "getTokens" /\ new.imported = envs \ environments
          /\ new.drop = import[i].drop /\ new.overlapped = import[i].overlapped
      <4>1. import[i] \in ImportRecord /\ envs \ environments \in SUBSET Imported
        BY <2>2 DEF ImportInv
      <4>. QED
        BY <4>1 DEF ImportRecord
    <3>2. import' = [import EXCEPT ![i] = new]
      BY <2>6 DEF ImportInv
    <3>. HIDE DEF new
    <3>3. new.drop /\ ~new.overlapped => environments' \subseteq new.imported
      BY <2>1, <3>1 DEF ImportInv, ImportAlone
    <3>. QED
      BY <2>1, <2>2, <2>4, <3>1, <3>2, <3>3 DEF ImportInv, ImportAlone
  <2>. QED
    BY <2>1, <2>5, <2>6
<1>4. ASSUME NEW i \in Requests, Im!GetAllTokens(i)
      PROVE  ImportInv'
  <2>1. import' = [import EXCEPT ![i] = Im!Idle] /\ environments' = environments
    BY <1>4 DEF Im!GetAllTokens
  <2>2. Im!Idle \in ImportRecord /\ Im!Idle.at = "idle"
    BY DEF Im!Idle, ImportRecord
  <2>. QED
    BY <2>1, <2>2 DEF ImportInv, ImportAlone
<1>5. CASE Im!Stop
  <2>1. Im!Idle \in ImportRecord /\ Im!Idle.at = "idle"
    BY DEF Im!Idle, ImportRecord
  <2>. QED
    BY <1>5, <2>1 DEF Im!Stop, ImportInv
<1>6. CASE UNCHANGED <<environments, import>>
  BY <1>6 DEF ImportInv, ImportAlone
<1>. QED
  BY <1>1, <1>2, <1>3, <1>4, <1>5, <1>6
     DEF Im!Next, Im!vars, Im!DeleteToken, Im!InsertToken, Im!CreateToken

\* An import condemns the token of an environment that exists only if it dropped
\* nothing or another import overlapped it.
THEOREM ServicesSpareLivingTokens == ServicesSpec => SparesLivingTokens
<1>1. ServicesInit => ImportInv
  BY DEF ServicesInit, Im!Init, Im!Idle, ImportInv, ImportRecord
<1>2. ImportInv /\ [ServicesNext]_allVars => ImportInv'
  BY ImportStep, ImportStepKeeps
<1>3. ImportInv /\ [ServicesNext]_allVars
      => [\A t \in Secrets :
             t \notin deleting /\ t \in deleting' /\ tokenEnv[t] \in environments
             => \E i \in Requests :
                   Im!At(i, "getTokens") /\ (~import[i].drop \/ import[i].overlapped)]_(Im!vars)
  <2>. SUFFICES ASSUME ImportInv, [Im!Next]_(Im!vars), NEW t \in Secrets,
                       t \notin deleting, t \in deleting', tokenEnv[t] \in environments
                PROVE  \E i \in Requests :
                          Im!At(i, "getTokens") /\ (~import[i].drop \/ import[i].overlapped)
    BY ImportStep
  <2>1. PICK i \in Requests : Im!GetAllTokens(i)
    BY DEF Im!Next, Im!vars, Im!ImportEnvironments, Im!DeleteAll, Im!Insert, Im!DeleteToken,
           Im!InsertToken, Im!CreateToken, Im!Stop
  <2>2. import[i].at = "getTokens" /\ tokenEnv[t] \notin import[i].imported
    BY <2>1 DEF Im!GetAllTokens, Im!Doomed, Im!At
  <2>3. ~ImportAlone(i)
    BY <2>2 DEF ImportInv
  <2>. QED
    BY <2>2, <2>3 DEF ImportAlone, Im!At
<1>. QED
  BY <1>1, <1>2, <1>3, PTL DEF ServicesSpec, SparesLivingTokens, Im!SparesLivingTokens

-----------------------------------------------------------------------------
(* Starts of servers: one that nothing else writes along with knows what is *)
(* left of the links to what it disables.                                   *)

AllEnvs == Envs \cup Overrides

OverrideSteps == {"disable", "enable", "getLinks", "unlink", "link"}

ServerRecord == [at : OverrideSteps \cup {"stopped", "started"},
                 toDisable : SUBSET AllEnvs, toEnable : SUBSET Overrides,
                 unlink : SUBSET (Linked \X AllEnvs), link : SUBSET (Linked \X Overrides),
                 raced : BOOLEAN]

RemapKnown(q) ==
    q.at \in OverrideSteps /\ ~q.raced =>
        /\ q.toDisable \cap Overrides = {}
        /\ q.at # "disable" => enabled \cap q.toDisable = {}
        /\ q.at = "unlink" =>
              \A l \in Linked \X q.toDisable : l[2] \in projectLinks[l[1]] => l \in q.unlink
        /\ q.at = "link" => \A l \in Linked \X q.toDisable : l[2] \notin projectLinks[l[1]]

OverrideInv ==
    /\ enabled \in SUBSET AllEnvs
    /\ projectLinks \in [Linked -> SUBSET AllEnvs]
    /\ server \in [Servers -> ServerRecord]
    /\ \A s, t \in Servers :
          s # t /\ server[s].at \in OverrideSteps /\ server[t].at \in OverrideSteps
             => server[s].raced
    /\ \A s \in Servers : RemapKnown(server[s])

\* What a step of one server may do to the record of another.
LeftOrRaced(old, new) == new = old \/ new = [old EXCEPT !.raced = TRUE]

LEMMA StartingServers ==
    ASSUME OverrideInv, NEW s \in Servers
    PROVE  Ov!Starting(s) <=> server[s].at \in OverrideSteps
BY DEF Ov!Starting, OverrideInv, ServerRecord, OverrideSteps

LEMMA RacedServers ==
    ASSUME OverrideInv, NEW who, NEW t \in Servers
    PROVE  /\ Ov!Raced(who)[t] \in ServerRecord
           /\ LeftOrRaced(server[t], Ov!Raced(who)[t])
           /\ t # who /\ server[t].at \in OverrideSteps => Ov!Raced(who)[t].raced
<1>1. server[t] \in ServerRecord
  BY DEF OverrideInv
<1>2. CASE t # who /\ Ov!Starting(t)
  <2>1. Ov!Raced(who)[t] = [server[t] EXCEPT !.raced = TRUE]
    BY <1>2 DEF Ov!Raced
  <2>. QED
    BY <1>1, <2>1 DEF ServerRecord, LeftOrRaced
<1>3. CASE ~(t # who /\ Ov!Starting(t))
  <2>1. Ov!Raced(who)[t] = server[t]
    BY <1>3 DEF Ov!Raced
  <2>. QED
    BY <1>1, <1>3, <2>1, StartingServers DEF LeftOrRaced
<1>. QED
  BY <1>2, <1>3

\* A step of a server that is starting: the others that are have been raced.
LEMMA OwnStep ==
    ASSUME OverrideInv, NEW s \in Servers, server[s].at \in OverrideSteps,
           NEW rec \in ServerRecord, RemapKnown(rec)',
           rec.raced = server[s].raced \/ rec.at \notin OverrideSteps,
           server' = [server EXCEPT ![s] = rec] \/ server' = [Ov!Raced(s) EXCEPT ![s] = rec],
           enabled' \in SUBSET AllEnvs, projectLinks' \in [Linked -> SUBSET AllEnvs]
    PROVE  OverrideInv'
<1>1. Ov!Raced(s) \in [Servers -> ServerRecord]
  BY RacedServers DEF Ov!Raced
<1>2. server' \in [Servers -> ServerRecord] /\ server'[s] = rec
  BY <1>1 DEF OverrideInv
<1>3. ASSUME NEW t \in Servers, t # s
      PROVE  LeftOrRaced(server[t], server'[t])
  BY <1>1, <1>3, RacedServers DEF LeftOrRaced, OverrideInv
<1>4. ASSUME NEW t \in Servers, t # s
      PROVE  /\ server'[t].at = server[t].at
             /\ server'[t].at \in OverrideSteps => server'[t].raced
  <2>1. server[t] \in ServerRecord
    BY DEF OverrideInv
  <2>2. server[t].at \in OverrideSteps => server[t].raced
    BY <1>4 DEF OverrideInv
  <2>3. CASE server'[t] = server[t]
    BY <2>2, <2>3
  <2>4. CASE server'[t] = [server[t] EXCEPT !.raced = TRUE]
    BY <2>1, <2>4 DEF ServerRecord
  <2>. QED
    BY <1>3, <1>4, <2>3, <2>4 DEF LeftOrRaced
<1>5. ASSUME NEW t \in Servers, t # s, server'[t].at \in OverrideSteps
      PROVE  server[s].raced
  BY <1>4, <1>5 DEF OverrideInv
<1>6. \A t, u \in Servers :
         t # u /\ server'[t].at \in OverrideSteps /\ server'[u].at \in OverrideSteps
            => server'[t].raced
  BY <1>2, <1>4, <1>5
<1>7. \A t \in Servers : RemapKnown(server[t])'
  BY <1>2, <1>4 DEF RemapKnown
<1>. QED
  BY <1>2, <1>6, <1>7 DEF OverrideInv

\* A request: every server that is starting has been raced.
LEMMA RequestStep ==
    ASSUME "request" \notin Servers, OverrideInv, server' = Ov!Raced("request"),
           enabled' \in SUBSET AllEnvs, projectLinks' \in [Linked -> SUBSET AllEnvs]
    PROVE  OverrideInv'
<1>1. server' \in [Servers -> ServerRecord]
  BY RacedServers DEF Ov!Raced
<1>2. ASSUME NEW t \in Servers, server'[t].at \in OverrideSteps
      PROVE  server'[t].raced
  <2>1. server[t] \in ServerRecord /\ LeftOrRaced(server[t], server'[t])
    BY RacedServers DEF OverrideInv
  <2>2. server[t].at \in OverrideSteps
    BY <1>2, <2>1 DEF LeftOrRaced, ServerRecord
  <2>. QED
    BY <2>2, RacedServers
<1>3. \A t \in Servers : RemapKnown(server[t])'
  BY <1>2 DEF RemapKnown
<1>. QED
  BY <1>1, <1>2, <1>3 DEF OverrideInv

LEMMA OverrideKeeps ==
    ASSUME "request" \notin Servers, OverrideInv, [Ov!Next]_(Ov!vars)
    PROVE  OverrideInv'
<1>0. /\ enabled \in SUBSET AllEnvs
      /\ projectLinks \in [Linked -> SUBSET AllEnvs]
      /\ server \in [Servers -> ServerRecord]
      /\ \A s \in Servers : server[s] \in ServerRecord /\ RemapKnown(server[s])
  BY DEF OverrideInv
<1>1. Ov!Stopped \in ServerRecord /\ Ov!Stopped.at \notin OverrideSteps
  BY DEF Ov!Stopped, ServerRecord, OverrideSteps
<1>2. ASSUME NEW s \in Servers, Ov!GetAll(s)
      PROVE  OverrideInv'
  <2>. DEFINE overridden == Overrides # {} /\ Overrides \subseteq Envs
              raced == \E other \in Servers \ {s} : Ov!Starting(other)
              record == [Ov!Stopped EXCEPT !.at = IF overridden THEN "disable" ELSE "started",
                                        !.toDisable = enabled \ Overrides,
                                        !.toEnable = Overrides \ enabled,
                                        !.raced = raced]
  <2>1. /\ server[s].at = "stopped" /\ UNCHANGED <<enabled, projectLinks>>
        /\ server' = [Ov!Raced(s) EXCEPT ![s] = record]
    BY <1>2 DEF Ov!GetAll, Ov!At
  <2>2. /\ record \in ServerRecord /\ record.at \in {"disable", "started"}
        /\ record.toDisable = enabled \ Overrides
        /\ record.raced <=> raced
    <3>1. raced \in BOOLEAN
      OBVIOUS
    <3>2. enabled \ Overrides \in SUBSET AllEnvs /\ Overrides \ enabled \in SUBSET Overrides
      BY <1>0
    <3>. HIDE DEF raced, overridden
    <3>. QED
      BY <3>1, <3>2 DEF Ov!Stopped, ServerRecord, OverrideSteps
  <2>. HIDE DEF record
  <2>r. PICK rec \in ServerRecord :
          /\ server' = [Ov!Raced(s) EXCEPT ![s] = rec]
          /\ rec.at \in {"disable", "started"}
          /\ rec.toDisable = enabled \ Overrides
          /\ rec.raced <=> raced
    BY <2>1, <2>2
  <2>3. Ov!Raced(s) \in [Servers -> ServerRecord]
    BY RacedServers DEF Ov!Raced
  <2>4. /\ server' \in [Servers -> ServerRecord] /\ server'[s] = rec
        /\ \A t \in Servers : t # s => server'[t] = Ov!Raced(s)[t]
    BY <2>1, <2>r, <2>3
  <2>5. ASSUME NEW t \in Servers, t # s, server'[t].at \in OverrideSteps
        PROVE  server'[t].raced /\ rec.raced
    <3>1. server[t] \in ServerRecord /\ LeftOrRaced(server[t], server'[t])
      BY <1>0, <2>4, <2>5, RacedServers
    <3>2. server[t].at \in OverrideSteps
      BY <2>5, <3>1 DEF LeftOrRaced, ServerRecord
    <3>3. Ov!Starting(t)
      BY <3>2, StartingServers
    <3>. QED
      BY <2>r, <2>4, <2>5, <3>2, <3>3, RacedServers
  <2>6. \A t, u \in Servers :
           t # u /\ server'[t].at \in OverrideSteps /\ server'[u].at \in OverrideSteps
              => server'[t].raced
    BY <2>4, <2>5
  <2>7. RemapKnown(rec)'
    BY <2>r DEF RemapKnown, OverrideSteps
  <2>8. \A t \in Servers : RemapKnown(server[t])'
    BY <2>4, <2>5, <2>7 DEF RemapKnown
  <2>. QED
    BY <1>0, <2>1, <2>4, <2>6, <2>8 DEF OverrideInv
<1>3. ASSUME NEW s \in Servers, Ov!Disable(s)
      PROVE  OverrideInv'
  <2>. DEFINE record == [server[s] EXCEPT !.at = "enable"]
  <2>1. /\ server[s].at = "disable" /\ enabled' = enabled \ server[s].toDisable
        /\ projectLinks' = projectLinks /\ server' = [server EXCEPT ![s] = record]
    BY <1>0, <1>3 DEF Ov!Disable, Ov!At
  <2>2. /\ record \in ServerRecord /\ record.at = "enable" /\ record.raced = server[s].raced
        /\ record.toDisable = server[s].toDisable
    BY <1>0 DEF ServerRecord, OverrideSteps
  <2>. HIDE DEF record
  <2>r. PICK rec \in ServerRecord :
          /\ server' = [server EXCEPT ![s] = rec]
          /\ rec.at = "enable" /\ rec.raced = server[s].raced
          /\ rec.toDisable = server[s].toDisable
    BY <2>1, <2>2
  <2>3. RemapKnown(rec)'
    BY <1>0, <2>1, <2>r DEF RemapKnown, OverrideSteps
  <2>4. server[s].at \in OverrideSteps
    BY <2>1 DEF OverrideSteps
  <2>5. enabled' \in SUBSET AllEnvs
    BY <1>0, <2>1
  <2>. QED
    BY <1>0, <2>1, <2>r, <2>3, <2>4, <2>5, OwnStep
<1>4. ASSUME NEW s \in Servers, Ov!Enable(s)
      PROVE  OverrideInv'
  <2>. DEFINE record == [server[s] EXCEPT !.at = "getLinks"]
  <2>1. /\ server[s].at = "enable" /\ enabled' = enabled \cup server[s].toEnable
        /\ projectLinks' = projectLinks /\ server' = [server EXCEPT ![s] = record]
    BY <1>0, <1>4 DEF Ov!Enable, Ov!At
  <2>2. /\ record \in ServerRecord /\ record.at = "getLinks" /\ record.raced = server[s].raced
        /\ record.toDisable = server[s].toDisable /\ server[s].toEnable \subseteq Overrides
    BY <1>0 DEF ServerRecord, OverrideSteps
  <2>. HIDE DEF record
  <2>r. PICK rec \in ServerRecord :
          /\ server' = [server EXCEPT ![s] = rec]
          /\ rec.at = "getLinks" /\ rec.raced = server[s].raced
          /\ rec.toDisable = server[s].toDisable /\ server[s].toEnable \subseteq Overrides
    BY <2>1, <2>2
  <2>3. RemapKnown(rec)'
    BY <1>0, <2>1, <2>r DEF RemapKnown, OverrideSteps
  <2>4. server[s].at \in OverrideSteps
    BY <2>1 DEF OverrideSteps
  <2>5. enabled' \in SUBSET AllEnvs
    BY <1>0, <2>1, <2>r DEF AllEnvs
  <2>. QED
    BY <1>0, <2>1, <2>r, <2>3, <2>4, <2>5, OwnStep
<1>5. ASSUME NEW s \in Servers, Ov!GetProjectLinks(s)
      PROVE  OverrideInv'
  <2>. DEFINE found == Ov!LinksTo(server[s].toDisable)
              link == {l[1] : l \in found} \X server[s].toEnable
              record == [server[s] EXCEPT !.at = IF found = {} THEN "started" ELSE "unlink",
                                       !.unlink = found, !.link = link]
  <2>1. /\ server[s].at = "getLinks" /\ UNCHANGED <<enabled, projectLinks>>
        /\ server' = [server EXCEPT ![s].at = IF found = {} THEN "started" ELSE "unlink",
                                    ![s].unlink = found, ![s].link = link]
    BY <1>5 DEF Ov!GetProjectLinks, Ov!At
  <2>2. server' = [server EXCEPT ![s] = record]
    BY <1>0, <2>1
  <2>3. server[s].toDisable \subseteq AllEnvs /\ server[s].toEnable \subseteq Overrides
    BY <1>0 DEF ServerRecord
  <2>4. found = {l \in Linked \X server[s].toDisable : l[2] \in projectLinks[l[1]]}
    BY DEF Ov!LinksTo
  <2>5. found \in SUBSET (Linked \X AllEnvs) /\ link \in SUBSET (Linked \X Overrides)
    BY <2>3, <2>4
  <2>. HIDE DEF found, link
  <2>6. /\ record \in ServerRecord /\ record.at \in {"started", "unlink"}
        /\ record.raced = server[s].raced /\ record.toDisable = server[s].toDisable
        /\ record.unlink = found
    BY <1>0, <2>5 DEF ServerRecord, OverrideSteps
  <2>. HIDE DEF record
  <2>r. PICK rec \in ServerRecord :
          /\ server' = [server EXCEPT ![s] = rec]
          /\ rec.at \in {"started", "unlink"}
          /\ rec.raced = server[s].raced /\ rec.toDisable = server[s].toDisable
          /\ rec.unlink = found
    BY <2>2, <2>6
  <2>7. RemapKnown(rec)'
    BY <1>0, <2>1, <2>4, <2>r DEF RemapKnown, OverrideSteps
  <2>8. server[s].at \in OverrideSteps
    BY <2>1 DEF OverrideSteps
  <2>. QED
    BY <1>0, <2>1, <2>r, <2>7, <2>8, OwnStep
<1>6. ASSUME NEW s \in Servers, Ov!Unlink(s)
      PROVE  OverrideInv'
  <2>1. PICK l \in server[s].unlink :
          /\ server[s].at = "unlink" /\ enabled' = enabled
          /\ projectLinks' = [projectLinks EXCEPT ![l[1]] = @ \ {l[2]}]
          /\ server' = [Ov!Raced(s) EXCEPT
                ![s].unlink = @ \ {l},
                ![s].at = IF server[s].unlink = {l}
                          THEN IF server[s].link = {} THEN "started" ELSE "link"
                          ELSE "unlink"]
    BY <1>6 DEF Ov!Unlink, Ov!At
  <2>. DEFINE next == IF server[s].unlink = {l}
                      THEN IF server[s].link = {} THEN "started" ELSE "link"
                      ELSE "unlink"
              record == [server[s] EXCEPT !.unlink = @ \ {l}, !.at = next]
  <2>2. Ov!Raced(s) \in [Servers -> ServerRecord] /\ Ov!Raced(s)[s] = server[s]
    BY RacedServers DEF Ov!Raced
  <2>3. /\ next \in {"started", "link", "unlink"}
        /\ next # "unlink" => server[s].unlink = {l}
    OBVIOUS
  <2>4. server' = [Ov!Raced(s) EXCEPT ![s].unlink = @ \ {l}, ![s].at = next]
    BY <2>1
  <2>. HIDE DEF next
  <2>5. server' = [Ov!Raced(s) EXCEPT ![s] = record]
    BY <2>2, <2>4
  <2>6. /\ record \in ServerRecord /\ record.at = next /\ record.raced = server[s].raced
        /\ record.toDisable = server[s].toDisable /\ record.unlink = server[s].unlink \ {l}
    BY <1>0, <2>3 DEF ServerRecord, OverrideSteps
  <2>7. l \in Linked \X AllEnvs /\ l = <<l[1], l[2]>>
    BY <1>0, <2>1 DEF ServerRecord
  <2>8. projectLinks' \in [Linked -> SUBSET AllEnvs]
    BY <1>0, <2>1, <2>7
  <2>. HIDE DEF record
  <2>r. PICK rec \in ServerRecord :
          /\ server' = [Ov!Raced(s) EXCEPT ![s] = rec]
          /\ rec.at = next /\ rec.raced = server[s].raced
          /\ rec.toDisable = server[s].toDisable /\ rec.unlink = server[s].unlink \ {l}
    BY <2>5, <2>6
  <2>9. RemapKnown(rec)'
    <3>. SUFFICES ASSUME ~server[s].raced, next # "started"
                  PROVE  /\ rec.toDisable \cap Overrides = {}
                         /\ enabled' \cap rec.toDisable = {}
                         /\ next = "unlink" => \A k \in Linked \X rec.toDisable :
                               k[2] \in projectLinks'[k[1]] => k \in rec.unlink
                         /\ next = "link" => \A k \in Linked \X rec.toDisable :
                               k[2] \notin projectLinks'[k[1]]
      BY <2>3, <2>r DEF RemapKnown, OverrideSteps
    <3>1. /\ server[s].toDisable \cap Overrides = {}
          /\ enabled \cap server[s].toDisable = {}
          /\ \A k \in Linked \X server[s].toDisable :
                k[2] \in projectLinks[k[1]] => k \in server[s].unlink
      BY <1>0, <2>1 DEF RemapKnown, OverrideSteps
    <3>2. ASSUME NEW k \in Linked \X server[s].toDisable, k[2] \in projectLinks'[k[1]]
          PROVE  k \in server[s].unlink \ {l}
      BY <1>0, <2>1, <2>7, <3>1, <3>2
    <3>. QED
      BY <2>1, <2>3, <2>r, <3>1, <3>2
  <2>10. server[s].at \in OverrideSteps
    BY <2>1 DEF OverrideSteps
  <2>. QED
    BY <1>0, <2>1, <2>r, <2>8, <2>9, <2>10, OwnStep
<1>7. ASSUME NEW s \in Servers, Ov!LinkOne(s)
      PROVE  OverrideInv'
  <2>1. PICK l \in server[s].link :
          /\ server[s].at = "link" /\ enabled' = enabled
          /\ projectLinks' = [projectLinks EXCEPT ![l[1]] = @ \cup {l[2]}]
          /\ server' = [Ov!Raced(s) EXCEPT
                ![s].link = @ \ {l},
                ![s].at = IF server[s].link = {l} THEN "started" ELSE "link"]
    BY <1>7 DEF Ov!LinkOne, Ov!At
  <2>. DEFINE next == IF server[s].link = {l} THEN "started" ELSE "link"
              record == [server[s] EXCEPT !.link = @ \ {l}, !.at = next]
  <2>2. Ov!Raced(s) \in [Servers -> ServerRecord] /\ Ov!Raced(s)[s] = server[s]
    BY RacedServers DEF Ov!Raced
  <2>3. next \in {"started", "link"}
    OBVIOUS
  <2>4. server' = [Ov!Raced(s) EXCEPT ![s].link = @ \ {l}, ![s].at = next]
    BY <2>1
  <2>. HIDE DEF next
  <2>5. server' = [Ov!Raced(s) EXCEPT ![s] = record]
    BY <2>2, <2>4
  <2>6. /\ record \in ServerRecord /\ record.at = next /\ record.raced = server[s].raced
        /\ record.toDisable = server[s].toDisable
    BY <1>0, <2>3 DEF ServerRecord, OverrideSteps
  <2>7. l \in Linked \X Overrides /\ l = <<l[1], l[2]>>
    BY <1>0, <2>1 DEF ServerRecord
  <2>8. projectLinks' \in [Linked -> SUBSET AllEnvs]
    BY <1>0, <2>1, <2>7 DEF AllEnvs
  <2>. HIDE DEF record
  <2>r. PICK rec \in ServerRecord :
          /\ server' = [Ov!Raced(s) EXCEPT ![s] = rec]
          /\ rec.at = next /\ rec.raced = server[s].raced
          /\ rec.toDisable = server[s].toDisable
    BY <2>5, <2>6
  <2>9. RemapKnown(rec)'
    <3>. SUFFICES ASSUME ~server[s].raced
                  PROVE  /\ rec.toDisable \cap Overrides = {}
                         /\ enabled' \cap rec.toDisable = {}
                         /\ \A k \in Linked \X rec.toDisable : k[2] \notin projectLinks'[k[1]]
      BY <2>3, <2>r DEF RemapKnown, OverrideSteps
    <3>1. /\ server[s].toDisable \cap Overrides = {}
          /\ enabled \cap server[s].toDisable = {}
          /\ \A k \in Linked \X server[s].toDisable : k[2] \notin projectLinks[k[1]]
      BY <1>0, <2>1 DEF RemapKnown, OverrideSteps
    <3>2. ASSUME NEW k \in Linked \X server[s].toDisable
          PROVE  k[2] \notin projectLinks'[k[1]]
      BY <1>0, <2>1, <2>7, <3>1, <3>2
    <3>. QED
      BY <2>1, <2>r, <3>1, <3>2
  <2>10. server[s].at \in OverrideSteps
    BY <2>1 DEF OverrideSteps
  <2>. QED
    BY <1>0, <2>1, <2>r, <2>8, <2>9, <2>10, OwnStep
<1>8. ASSUME NEW s \in Servers, Ov!FailStart(s) \/ Ov!Stop(s)
      PROVE  OverrideInv'
  <2>1. server' = [server EXCEPT ![s] = Ov!Stopped] /\ UNCHANGED <<enabled, projectLinks>>
    BY <1>8 DEF Ov!FailStart, Ov!Stop
  <2>. QED
    BY <1>0, <1>1, <2>1 DEF OverrideInv, RemapKnown
<1>9. ASSUME NEW e \in Envs, Ov!ToggleEnvironment(e)
      PROVE  OverrideInv'
  <2>1. enabled' \in SUBSET AllEnvs
    BY <1>0, <1>9 DEF Ov!ToggleEnvironment, AllEnvs
  <2>. QED
    BY <1>0, <1>9, <2>1, RequestStep DEF Ov!ToggleEnvironment
<1>10. ASSUME NEW e \in Envs, NEW p \in Linked,
              Ov!AddEnvironmentToProject(e, p) \/ Ov!RemoveEnvironmentFromProject(e, p)
       PROVE  OverrideInv'
  <2>1. /\ projectLinks' \in [Linked -> SUBSET AllEnvs]
        /\ enabled' = enabled /\ server' = Ov!Raced("request")
    BY <1>0, <1>10 DEF Ov!AddEnvironmentToProject, Ov!RemoveEnvironmentFromProject, AllEnvs
  <2>. QED
    BY <1>0, <2>1, RequestStep
<1>11. CASE UNCHANGED Ov!vars
  BY <1>11 DEF Ov!vars, OverrideInv, RemapKnown
<1>. QED
  BY <1>2, <1>3, <1>4, <1>5, <1>6, <1>7, <1>8, <1>9, <1>10, <1>11 DEF Ov!Next, Ov!Override

\* How far the start of a server is, only its own steps change.
LEMMA OtherServer ==
    ASSUME OverrideInv, NEW s \in Servers, NEW t \in Servers, s # t,
           Ov!Override(t) \/ Ov!Stop(t)
    PROVE  server'[s].at = server[s].at
<1>1. Ov!Raced(t) \in [Servers -> ServerRecord] /\ server \in [Servers -> ServerRecord]
  BY RacedServers DEF Ov!Raced, OverrideInv
<1>2. server'[s] = server[s] \/ server'[s] = Ov!Raced(t)[s]
  <2>1. CASE Ov!GetAll(t)
    BY <1>1, <2>1 DEF Ov!GetAll
  <2>2. CASE Ov!Disable(t) \/ Ov!Enable(t) \/ Ov!FailStart(t) \/ Ov!Stop(t)
    BY <1>1, <2>2 DEF Ov!Disable, Ov!Enable, Ov!FailStart, Ov!Stop
  <2>3. CASE Ov!GetProjectLinks(t)
    BY <1>1, <2>3 DEF Ov!GetProjectLinks
  <2>4. CASE Ov!Unlink(t)
    BY <1>1, <2>4 DEF Ov!Unlink
  <2>5. CASE Ov!LinkOne(t)
    BY <1>1, <2>5 DEF Ov!LinkOne
  <2>. QED
    BY <2>1, <2>2, <2>3, <2>4, <2>5 DEF Ov!Override
<1>3. LeftOrRaced(server[s], server'[s])
  BY <1>2, RacedServers DEF LeftOrRaced
<1>. QED
  BY <1>1, <1>3 DEF LeftOrRaced, ServerRecord

\* A request leaves every start where it is.
LEMMA RequestLeavesStarts ==
    ASSUME OverrideInv, NEW s \in Servers, server' = Ov!Raced("request")
    PROVE  server'[s].at = server[s].at
<1>1. server[s] \in ServerRecord /\ LeftOrRaced(server[s], server'[s])
  BY RacedServers DEF OverrideInv
<1>. QED
  BY <1>1 DEF LeftOrRaced, ServerRecord

\* The last step of a start that nothing else has written along with.
LEMMA StartEnds ==
    ASSUME OverrideInv, NEW s \in Servers, server[s].at \in OverrideSteps, ~server[s].raced,
           Ov!Override(s), server'[s].at = "started"
    PROVE  /\ \A l \in Linked \X server[s].toDisable : l[2] \notin projectLinks'[l[1]]
           /\ enabled \cap server[s].toDisable = {}
<1>0. /\ Ov!Raced(s) \in [Servers -> ServerRecord] /\ server \in [Servers -> ServerRecord]
      /\ projectLinks \in [Linked -> SUBSET AllEnvs]
      /\ server[s] \in ServerRecord /\ RemapKnown(server[s])
  BY RacedServers DEF Ov!Raced, OverrideInv
<1>1. CASE Ov!GetAll(s) \/ Ov!Disable(s) \/ Ov!Enable(s) \/ Ov!FailStart(s)
  <2>1. ~Ov!GetAll(s)
    BY DEF Ov!GetAll, Ov!At, OverrideSteps
  <2>. QED
    BY <1>0, <1>1, <2>1 DEF Ov!Disable, Ov!Enable, Ov!FailStart, Ov!Stopped, ServerRecord
<1>2. CASE Ov!GetProjectLinks(s)
  <2>1. /\ server[s].at = "getLinks" /\ projectLinks' = projectLinks
        /\ server'[s].at = IF Ov!LinksTo(server[s].toDisable) = {} THEN "started" ELSE "unlink"
    <3>. DEFINE found == Ov!LinksTo(server[s].toDisable)
                link == {l[1] : l \in found} \X server[s].toEnable
                at == IF found = {} THEN "started" ELSE "unlink"
    <3>1. server' = [server EXCEPT ![s].at = at, ![s].unlink = found, ![s].link = link]
      BY <1>2 DEF Ov!GetProjectLinks
    <3>2. at = IF Ov!LinksTo(server[s].toDisable) = {} THEN "started" ELSE "unlink"
      OBVIOUS
    <3>. HIDE DEF found, link, at
    <3>3. server'[s].at = at
      BY <1>0, <3>1 DEF ServerRecord
    <3>. QED
      BY <1>2, <3>2, <3>3 DEF Ov!GetProjectLinks, Ov!At
  <2>2. Ov!LinksTo(server[s].toDisable) = {}
    BY <2>1
  <2>. QED
    BY <1>0, <2>1, <2>2 DEF Ov!LinksTo, RemapKnown
<1>3. CASE Ov!Unlink(s)
  <2>1. PICK l \in server[s].unlink :
          /\ server[s].at = "unlink"
          /\ projectLinks' = [projectLinks EXCEPT ![l[1]] = @ \ {l[2]}]
          /\ server'[s].at = IF server[s].unlink = {l}
                             THEN IF server[s].link = {} THEN "started" ELSE "link"
                             ELSE "unlink"
    <3>1. PICK l \in server[s].unlink :
            /\ server[s].at = "unlink"
            /\ projectLinks' = [projectLinks EXCEPT ![l[1]] = @ \ {l[2]}]
            /\ server' = [Ov!Raced(s) EXCEPT
                  ![s].unlink = @ \ {l},
                  ![s].at = IF server[s].unlink = {l}
                            THEN IF server[s].link = {} THEN "started" ELSE "link"
                            ELSE "unlink"]
      BY <1>3 DEF Ov!Unlink, Ov!At
    <3>. DEFINE next == IF server[s].unlink = {l}
                        THEN IF server[s].link = {} THEN "started" ELSE "link"
                        ELSE "unlink"
    <3>2. server' = [Ov!Raced(s) EXCEPT ![s].unlink = @ \ {l}, ![s].at = next]
      BY <3>1
    <3>3. server'[s].at = next
      <4>. HIDE DEF next
      <4>. QED
        BY <1>0, <3>2 DEF ServerRecord
    <3>. QED
      BY <3>1, <3>3
  <2>2. server[s].unlink = {l} /\ l \in Linked \X AllEnvs
    BY <1>0, <2>1 DEF ServerRecord
  <2>3. /\ enabled \cap server[s].toDisable = {}
        /\ \A k \in Linked \X server[s].toDisable : k[2] \in projectLinks[k[1]] => k = l
    BY <1>0, <2>1, <2>2 DEF RemapKnown
  <2>4. ASSUME NEW k \in Linked \X server[s].toDisable
        PROVE  k[2] \notin projectLinks'[k[1]]
    BY <1>0, <2>1, <2>2, <2>3, <2>4
  <2>. QED
    BY <2>3, <2>4
<1>4. CASE Ov!LinkOne(s)
  <2>1. PICK l \in server[s].link :
          /\ server[s].at = "link"
          /\ projectLinks' = [projectLinks EXCEPT ![l[1]] = @ \cup {l[2]}]
    BY <1>4 DEF Ov!LinkOne, Ov!At
  <2>2. l[1] \in Linked /\ l[2] \in Overrides
    BY <1>0, <2>1 DEF ServerRecord
  <2>3. /\ enabled \cap server[s].toDisable = {} /\ server[s].toDisable \cap Overrides = {}
        /\ \A k \in Linked \X server[s].toDisable : k[2] \notin projectLinks[k[1]]
    BY <1>0, <2>1 DEF RemapKnown
  <2>4. ASSUME NEW k \in Linked \X server[s].toDisable
        PROVE  k[2] \notin projectLinks'[k[1]]
    BY <1>0, <2>1, <2>2, <2>3, <2>4
  <2>. QED
    BY <2>3, <2>4
<1>. QED
  BY <1>1, <1>2, <1>3, <1>4 DEF Ov!Override

\* For any number of servers, environments and projects: a start that nothing
\* else writes along with leaves no project linked to an environment that it
\* disabled (overrideEnabledProjects).  "request" is who requests come from.
THEOREM ServicesStartRemaps ==
    ASSUME "request" \notin Servers
    PROVE  ServicesSpec => StartRemaps
<1>1. ServicesInit => OverrideInv
  <2>. SUFFICES ASSUME Ov!Init
                PROVE  OverrideInv
    BY DEF ServicesInit
  <2>1. server = [s \in Servers |-> Ov!Stopped]
    BY DEF Ov!Init
  <2>2. Ov!Stopped \in ServerRecord /\ Ov!Stopped.at \notin OverrideSteps
    BY DEF Ov!Stopped, ServerRecord, OverrideSteps
  <2>3. enabled \in SUBSET AllEnvs /\ projectLinks \in [Linked -> SUBSET AllEnvs]
    BY DEF Ov!Init, AllEnvs
  <2>. QED
    BY <2>1, <2>2, <2>3 DEF OverrideInv, RemapKnown
<1>2. OverrideInv /\ [ServicesNext]_allVars => OverrideInv'
  BY OverrideStep, OverrideKeeps
<1>3. OverrideInv /\ [ServicesNext]_allVars
      => [\A s \in Servers : Ov!Starting(s) /\ ~server[s].raced /\ server'[s].at = "started" =>
             /\ \A l \in Linked \X server[s].toDisable : l[2] \notin projectLinks'[l[1]]
             /\ enabled \cap server[s].toDisable = {}]_(Ov!vars)
  <2>. SUFFICES ASSUME OverrideInv, Ov!Next, NEW s \in Servers, server[s].at \in OverrideSteps,
                       ~server[s].raced, server'[s].at = "started"
                PROVE  /\ \A l \in Linked \X server[s].toDisable : l[2] \notin projectLinks'[l[1]]
                       /\ enabled \cap server[s].toDisable = {}
    BY OverrideStep, StartingServers
  <2>1. server[s] \in ServerRecord /\ server'[s].at # server[s].at
    BY DEF OverrideInv, OverrideSteps
  <2>2. PICK t \in Servers : Ov!Override(t) \/ Ov!Stop(t)
    <3>1. server' # Ov!Raced("request")
      BY <2>1, RequestLeavesStarts
    <3>. QED
      BY <3>1 DEF Ov!Next, Ov!ToggleEnvironment, Ov!AddEnvironmentToProject,
                  Ov!RemoveEnvironmentFromProject
  <2>3. t = s
    BY <2>1, <2>2, OtherServer
  <2>4. ~Ov!Stop(s)
    BY DEF Ov!Stop, Ov!Stopped, OverrideInv
  <2>. QED
    BY <2>2, <2>3, <2>4, StartEnds
<1>. QED
  BY <1>1, <1>2, <1>3, PTL DEF ServicesSpec, StartRemaps, Ov!StartRemaps

-----------------------------------------------------------------------------
(* The variants: the theorems of VariantsProofs hold of Services.          *)

VaP == INSTANCE VariantsProofs WITH Names <- VariantNames, Total <- TotalWeight

LEMMA SameVariants ==
    /\ Va!Init = VaP!Init
    /\ Va!Next = VaP!Next
    /\ Va!vars = VaP!vars
    /\ Va!WeightsAddUp = VaP!WeightsAddUp
    /\ Va!ShareIsWeight = VaP!ShareIsWeight
<1>0. \A S : Va!Cardinality(S) = VaP!Cardinality(S)
  BY Zenon DEF Va!Cardinality, VaP!Cardinality
<1>1. Va!Init = VaP!Init /\ Va!vars = VaP!vars
  BY DEF Va!Init, VaP!Init, Va!vars, VaP!vars
<1>2. \A list, I : Va!WeightIn(list, I) = VaP!WeightIn(list, I)
  BY <1>0 DEF Va!WeightIn, VaP!WeightIn, Va!Units, VaP!Units
<1>3. \A list : Va!WeightOf(list) = VaP!WeightOf(list)
  BY <1>2 DEF Va!WeightOf, VaP!WeightOf
<1>4. \A S, key, n : Va!Nth(S, key, n) = VaP!Nth(S, key, n)
  BY <1>0 DEF Va!Nth, VaP!Nth
<1>5. \A list, fix : Va!Filter(list, fix) = VaP!Filter(list, fix)
  BY <1>0, <1>4 DEF Va!Filter, VaP!Filter
<1>6. \A list : Va!FixVariantWeights(list) = VaP!FixVariantWeights(list)
  BY <1>3, <1>5 DEF Va!FixVariantWeights, VaP!FixVariantWeights, Va!Variable, VaP!Variable,
                    Va!Fixed, VaP!Fixed, Va!ShareOf, VaP!ShareOf
<1>7. \A list : Va!Acceptable(list) = VaP!Acceptable(list)
  BY <1>3, <1>5 DEF Va!Acceptable, VaP!Acceptable, Va!Variable, VaP!Variable, Va!Fixed, VaP!Fixed
<1>8. Va!SaveVariants = VaP!SaveVariants
  BY <1>0, <1>6, <1>7 DEF Va!SaveVariants, VaP!SaveVariants, Va!Lists, VaP!Lists, Va!Variant,
                          VaP!Variant
<1>9. Va!WriteRow = VaP!WriteRow
  BY <1>4 DEF Va!WriteRow, VaP!WriteRow, Va!SortedByName, VaP!SortedByName
<1>10. \A t : Va!SelectVariant(t) = VaP!SelectVariant(t)
  <2>1. \A i : Va!CounterAt(i) = VaP!CounterAt(i)
    BY <1>2 DEF Va!CounterAt, VaP!CounterAt
  <2>2. \A i, t : Va!Selects(i, t) <=> VaP!Selects(i, t)
    BY <2>1 DEF Va!Selects, VaP!Selects, Va!Reaches, VaP!Reaches
  <2>. SUFFICES ASSUME NEW t
                PROVE  Va!SelectVariant(t) = VaP!SelectVariant(t)
    OBVIOUS
  <2>. DEFINE A == {i \in DOMAIN stored : Va!Selects(i, t)}
              B == {i \in DOMAIN stored : VaP!Selects(i, t)}
              First(S) == IF S = {} THEN 0 ELSE stored[CHOOSE i \in S : \A j \in S : i <= j].name
  <2>3. A = B
    BY <2>2
  <2>4. Va!SelectVariant(t) = First(A)
    BY DEF Va!SelectVariant, Va!Indices
  <2>5. VaP!SelectVariant(t) = First(B)
    BY DEF VaP!SelectVariant, VaP!Indices
  <2>. HIDE DEF A, B, First
  <2>. QED
    BY <2>3, <2>4, <2>5
<1>11. Va!WeightsAddUp = VaP!WeightsAddUp
  BY <1>3 DEF Va!WeightsAddUp, VaP!WeightsAddUp, Va!Indices, VaP!Indices
<1>12. Va!ShareIsWeight = VaP!ShareIsWeight
  BY <1>0, <1>10 DEF Va!ShareIsWeight, VaP!ShareIsWeight, Va!Indices, VaP!Indices
<1>. QED
  BY <1>1, <1>8, <1>9, <1>11, <1>12 DEF Va!Next, VaP!Next

LEMMA ServicesVariants == ServicesSpec => VaP!Spec
<1>1. ServicesInit => VaP!Init
  BY SameVariants DEF ServicesInit
<1>2. [ServicesNext]_allVars => [VaP!Next]_(VaP!vars)
  BY VariantsStep, SameVariants DEF Va!vars, VaP!vars
<1>. QED
  BY <1>1, <1>2, PTL DEF ServicesSpec, VaP!Spec

\* For any number of variant names and any total weight: the weights stored add
\* up to the total, and variable variants share evenly (fixVariantWeights).
THEOREM ServicesWeightsAddUp ==
    ASSUME VaP!VariantConstants
    PROVE  ServicesSpec => []WeightsAddUp
<1>1. VaP!Spec => []VaP!WeightsAddUp
  <2>1. VaP!VariantConstants => (VaP!Spec => []VaP!WeightsAddUp)
    BY VaP!WeightsCorrect
  <2>. QED
    BY <2>1
<1>2. VaP!WeightsAddUp => WeightsAddUp
  BY SameVariants DEF WeightsAddUp
<1>. QED
  BY <1>1, <1>2, ServicesVariants, PTL

\* For any number of variant names and any total weight: as many hashes select a
\* variant as its weight says (selectVariant).
THEOREM ServicesShareIsWeight ==
    ASSUME VaP!VariantConstants
    PROVE  ServicesSpec => []ShareIsWeight
<1>1. VaP!Spec => []VaP!ShareIsWeight
  <2>1. VaP!VariantConstants => (VaP!Spec => []VaP!ShareIsWeight)
    BY VaP!SharesCorrect
  <2>. QED
    BY <2>1
<1>2. VaP!ShareIsWeight => ShareIsWeight
  BY SameVariants DEF ShareIsWeight
<1>. QED
  BY <1>1, <1>2, ServicesVariants, PTL
=============================================================================
