------------------------------ MODULE Accounts ------------------------------
(***************************************************************************)
(* One user's account: its row in users, its password, its root role in    *)
(* role_user, its sessions, and the links with which a password is reset.  *)
(* Each is in a table of its own, and every handler writes them in several *)
(* statements.  A password is a number, and a session is the password that *)
(* it was opened with.                                                     *)
(***************************************************************************)
EXTENDS Naturals

CONSTANTS
    Roles,        \* root roles
    Tokens,       \* bound: reset tokens
    Requests,     \* bound: requests in progress at once
    MaxPassword   \* bound: changes of the password

Nothing == "none"
Passwords == 0..MaxPassword

VARIABLES
    user,        \* the row of users: absent, present, deleted
    password,
    rootRoles,
    sessions,
    token,       \* of each reset token: new, active, used, expired
    uses,        \* how often it has reset the password
    validFrom,   \* ghost: the last password that a link has set
    req,         \* the requests in progress
    overlapped   \* ghost: the kinds of requests of which two overlapped

vars == <<user, password, rootRoles, sessions, token, uses, validFrom, req, overlapped>>

\* The kind of a request is what of the account it writes.
Kinds == {"role", "link", "reset", "login", "password", "delete"}

Idle == [kind |-> Nothing, at |-> "idle", role |-> Nothing, token |-> Nothing, read |-> 0]

At(r, step) == req[r].at = step
Goto(r, step) == req' = [req EXCEPT ![r].at = step]
Finish(r) == req' = [req EXCEPT ![r] = Idle]

\* A login overlaps with what ends sessions, anything else with its own kind.
Overlaps(kind, other) ==
    \/ kind = other
    \/ "login" \in {kind, other} /\ {kind, other} \cap {"reset", "password", "delete"} # {}

Begin(r, rec) ==
    /\ req[r] = Idle
    /\ req' = [req EXCEPT ![r] = rec]
    /\ overlapped' = overlapped \cup
           UNION {{rec.kind, req[q].kind} : q \in {p \in Requests : Overlaps(rec.kind, req[p].kind)}}

-----------------------------------------------------------------------------
(* createUser and updateUser: setUserRootRole removes the root roles, and  *)
(* then adds one.                                                          *)

CreateUser(r, role) ==
    /\ user = "absent"
    /\ Begin(r, [Idle EXCEPT !.kind = "role", !.at = "insertUser", !.role = role])
    /\ UNCHANGED <<user, password, rootRoles, sessions, token, uses, validFrom>>

\* Of two inserts with one email, the second fails.
InsertUser(r) ==
    /\ At(r, "insertUser")
    /\ IF user = "absent" THEN user' = "present" /\ Goto(r, "removeRoles")
       ELSE UNCHANGED user /\ Finish(r)
    /\ UNCHANGED <<password, rootRoles, sessions, token, uses, validFrom, overlapped>>

UpdateUser(r, role) ==
    /\ user = "present"
    /\ Begin(r, [Idle EXCEPT !.kind = "role", !.at = "removeRoles", !.role = role])
    /\ UNCHANGED <<user, password, rootRoles, sessions, token, uses, validFrom>>

\* Mutant: a role is added to those that are there.
RolesKept == rootRoles

RolesRemoved == {}

RemoveRoles(r) ==
    /\ At(r, "removeRoles")
    /\ rootRoles' = RolesRemoved
    /\ Goto(r, "addRole")
    /\ UNCHANGED <<user, password, sessions, token, uses, validFrom, overlapped>>

\* The foreign key fails if the user is gone, the primary key if the role is
\* there already.
AddRole(r) ==
    /\ At(r, "addRole")
    /\ rootRoles' = IF user = "present" THEN rootRoles \cup {req[r].role} ELSE rootRoles
    /\ Finish(r)
    /\ UNCHANGED <<user, password, sessions, token, uses, validFrom, overlapped>>

-----------------------------------------------------------------------------
(* deleteUser: the roles, the sessions and then the user.                  *)

DeleteUser(r) ==
    /\ user = "present"
    /\ Begin(r, [Idle EXCEPT !.kind = "delete", !.at = "unlinkRoles"])
    /\ UNCHANGED <<user, password, rootRoles, sessions, token, uses, validFrom>>

UnlinkRoles(r) ==
    /\ At(r, "unlinkRoles")
    /\ rootRoles' = {}
    /\ Goto(r, "deleteSessions")
    /\ UNCHANGED <<user, password, sessions, token, uses, validFrom, overlapped>>

\* What refers to the user by a foreign key goes with it; sessions do not.
DeleteRow(r) ==
    /\ At(r, "deleteRow")
    /\ user' = "deleted"
    /\ rootRoles' = {}
    /\ token' = [t \in Tokens |-> IF token[t] = "new" THEN "new" ELSE "expired"]
    /\ Finish(r)
    /\ UNCHANGED <<password, sessions, uses, validFrom, overlapped>>

-----------------------------------------------------------------------------
(* loginUser compares with the hash it has read; the session is saved at   *)
(* the end of the response.                                                *)

LoginUser(r) ==
    /\ user = "present"
    /\ Begin(r, [Idle EXCEPT !.kind = "login", !.at = "saveSession", !.read = password])
    /\ UNCHANGED <<user, password, rootRoles, sessions, token, uses, validFrom>>

SaveSession(r) ==
    /\ At(r, "saveSession")
    /\ sessions' = sessions \cup {req[r].read}
    /\ Finish(r)
    /\ UNCHANGED <<user, password, rootRoles, token, uses, validFrom, overlapped>>

-----------------------------------------------------------------------------
(* createToken expires the tokens of the user, and then inserts one.       *)

CreateToken(r) ==
    /\ user = "present"
    /\ Begin(r, [Idle EXCEPT !.kind = "link", !.at = "expireTokens"])
    /\ UNCHANGED <<user, password, rootRoles, sessions, token, uses, validFrom>>

\* Mutant: only the expiry of used tokens is set.
UsedExpired(t) == IF token[t] = "used" THEN "expired" ELSE token[t]

Expired(t) == IF token[t] = "new" THEN "new" ELSE "expired"

ExpireTokens(r) ==
    /\ At(r, "expireTokens")
    /\ token' = [t \in Tokens |-> Expired(t)]
    /\ Goto(r, "insertToken")
    /\ UNCHANGED <<user, password, rootRoles, sessions, uses, validFrom, overlapped>>

InsertToken(r) ==
    /\ At(r, "insertToken")
    /\ \E t \in Tokens :
          /\ token[t] = "new"
          /\ token' = [token EXCEPT ![t] = IF user = "present" THEN "active" ELSE "expired"]
    /\ Finish(r)
    /\ UNCHANGED <<user, password, rootRoles, sessions, uses, validFrom, overlapped>>

Expire(t) ==
    /\ token[t] = "active"
    /\ token' = [token EXCEPT ![t] = "expired"]
    /\ UNCHANGED <<user, password, rootRoles, sessions, uses, validFrom, req, overlapped>>

-----------------------------------------------------------------------------
(* resetPassword validates the token twice, marks it as used in another    *)
(* statement, sets the password and deletes the sessions.                  *)

\* Mutant: a used token is valid until it expires.
NotExpired(t) == token[t] \in {"active", "used"}

IsValid(t) == token[t] = "active"

ResetPassword(r, t) ==
    /\ IsValid(t)
    /\ Begin(r, [Idle EXCEPT !.kind = "reset", !.at = "isValid", !.token = t])
    /\ UNCHANGED <<user, password, rootRoles, sessions, token, uses, validFrom>>

IsStillValid(r) ==
    /\ At(r, "isValid")
    /\ IF IsValid(req[r].token) THEN Goto(r, "useToken") ELSE Finish(r)
    /\ UNCHANGED <<user, password, rootRoles, sessions, token, uses, validFrom, overlapped>>

\* Whether the token has been used or expired meanwhile is not looked at.
UseToken(r) ==
    LET t == req[r].token IN
    /\ At(r, "useToken")
    /\ token' = [token EXCEPT ![t] = IF @ = "active" THEN "used" ELSE @]
    /\ uses' = [uses EXCEPT ![t] = @ + 1]
    /\ Goto(r, "setPassword")
    /\ UNCHANGED <<user, password, rootRoles, sessions, validFrom, overlapped>>

\* changePassword of the administration ends no session.
ChangePassword(r) ==
    /\ user = "present"
    /\ Begin(r, [Idle EXCEPT !.kind = "password", !.at = "setPassword"])
    /\ UNCHANGED <<user, password, rootRoles, sessions, token, uses, validFrom>>

SetPasswordHash(r) ==
    /\ At(r, "setPassword")
    /\ password < MaxPassword
    /\ password' = IF user = "present" THEN password + 1 ELSE password
    /\ IF req[r].kind = "reset"
       THEN validFrom' = password' /\ Goto(r, "deleteSessions")
       ELSE UNCHANGED validFrom /\ Finish(r)
    /\ UNCHANGED <<user, rootRoles, sessions, token, uses, overlapped>>

\* Mutant: the sessions are left to expire.
SessionsKept == sessions

SessionsDeleted == {}

DeleteSessions(r) ==
    /\ At(r, "deleteSessions")
    /\ sessions' = SessionsDeleted
    /\ IF req[r].kind = "reset" THEN Finish(r) ELSE Goto(r, "deleteRow")
    /\ UNCHANGED <<user, password, rootRoles, token, uses, validFrom, overlapped>>

-----------------------------------------------------------------------------
Init ==
    /\ user = "absent"
    /\ password = 0
    /\ rootRoles = {}
    /\ sessions = {}
    /\ token = [t \in Tokens |-> "new"]
    /\ uses = [t \in Tokens |-> 0]
    /\ validFrom = 0
    /\ req = [r \in Requests |-> Idle]
    /\ overlapped = {}

Call(r) ==
    \/ \E role \in Roles : CreateUser(r, role) \/ UpdateUser(r, role)
    \/ \E t \in Tokens : ResetPassword(r, t)
    \/ DeleteUser(r) \/ LoginUser(r) \/ CreateToken(r) \/ ChangePassword(r)

Continue(r) ==
    \/ InsertUser(r) \/ RemoveRoles(r) \/ AddRole(r)
    \/ UnlinkRoles(r) \/ DeleteRow(r)
    \/ SaveSession(r)
    \/ ExpireTokens(r) \/ InsertToken(r)
    \/ IsStillValid(r) \/ UseToken(r) \/ SetPasswordHash(r) \/ DeleteSessions(r)

Next ==
    \/ \E r \in Requests : Call(r) \/ Continue(r)
    \/ \E t \in Tokens : Expire(t)

-----------------------------------------------------------------------------
(* Properties.                                                             *)

InProgress(kinds) == \E r \in Requests : req[r].kind \in kinds

\* A user has exactly one root role, at any time when no request writes it,
\* unless two requests wrote it at once.
OneRootRole ==
    user = "present" /\ ~InProgress({"role", "delete"}) /\ overlapped \cap {"role", "delete"} = {} =>
        \E role \in Roles : rootRoles = {role}

\* At most one link resets the password, unless two were made at once: a new
\* one replaces the others.
OneActiveLink ==
    "link" \notin overlapped =>
        \A t, other \in Tokens : token[t] = "active" /\ token[other] = "active" => t = other

\* A link resets the password once, unless it is used by two requests at once;
\* new links and other changes of the password do not matter.
UsedOnce == "reset" \notin overlapped => \A t \in Tokens : uses[t] <= 1

\* "Will update password and delete all sessions for the user": once a link has
\* reset the password, a session that was opened with an older one is left only
\* if a login overlapped; the same holds of any session of a deleted user.
SessionsEnd ==
    ~InProgress({"reset", "delete"}) /\ "login" \notin overlapped =>
        IF user = "deleted" THEN sessions = {} ELSE \A p \in sessions : p >= validFrom
=============================================================================
