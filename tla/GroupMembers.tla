---------------------------- MODULE GroupMembers ----------------------------
(***************************************************************************)
(* Groups of users: the rows of groups, whose names no index makes unique,  *)
(* and the rows of group_user.  An administrator writes the members of a    *)
(* group, and a login by single sign-on writes the groups of its user.      *)
(***************************************************************************)

CONSTANTS
    GroupIds,   \* bound: ids of groups
    Names,      \* names of groups
    Users,
    Requests    \* bound: requests in progress at once

Nothing == "none"

VARIABLES
    groups,    \* the name of every id in groups, Nothing where there is no row
    members,   \* group_user: the users of each group
    req,       \* the requests in progress
    asked,     \* ghost: the members asked for, unless members were raced
    raced      \* ghost: what two requests have written at once

vars == <<groups, members, req, asked, raced>>

Existing == {g \in GroupIds : groups[g] # Nothing}

Idle == [kind |-> Nothing, at |-> "idle", group |-> Nothing, name |-> Nothing, users |-> {},
         user |-> Nothing, names |-> {}, read |-> {}]

At(r, step) == req[r].at = step
Goto(r, step) == req' = [req EXCEPT ![r].at = step]
Finish(r) == req' = [req EXCEPT ![r] = Idle]

\* Once members were raced nothing is known of what they should be.
Asked(now) == asked' = IF "members" \in raced THEN members' ELSE now

\* What a request writes: names after it has checked them, and members.
Writes(kind) ==
    CASE kind \in {"create", "update"} -> {"names", "members"}
      [] kind \in {"login", "delete"} -> {"members"}
      [] OTHER -> {}

Begin(r, rec) ==
    /\ req[r] = Idle
    /\ req' = [req EXCEPT ![r] = rec]
    /\ raced' = raced \cup UNION {Writes(rec.kind) \cap Writes(req[q].kind) : q \in Requests}
    /\ UNCHANGED <<groups, members, asked>>

-----------------------------------------------------------------------------
(* createGroup and updateGroup.                                            *)

CreateGroup(r, name, users) ==
    Begin(r, [Idle EXCEPT !.kind = "create", !.at = "validateGroup", !.name = name, !.users = users])

\* validateGroup asks for the name when it differs from the one that was read.
UpdateGroup(r, g, name, users) ==
    /\ g \in Existing
    /\ Begin(r, [Idle EXCEPT !.kind = "update", !.group = g, !.name = name, !.users = users,
                             !.at = IF groups[g] = name THEN "writeGroup" ELSE "validateGroup"])

\* Mutant: only a group that has members has its name taken.
ExistsWithMembers(name) == \E g \in Existing : groups[g] = name /\ members[g] # {}

ExistsWithName(name) == \E g \in Existing : groups[g] = name

ValidateGroup(r) ==
    /\ At(r, "validateGroup")
    /\ IF ExistsWithName(req[r].name) THEN Finish(r) ELSE Goto(r, "writeGroup")
    /\ UNCHANGED <<groups, members, asked, raced>>

WriteNewGroup(r) ==
    /\ At(r, "writeGroup") /\ req[r].kind = "create"
    /\ \E g \in GroupIds \ Existing :
          /\ groups' = [groups EXCEPT ![g] = req[r].name]
          /\ req' = [req EXCEPT ![r].at = "addNewUsers", ![r].group = g]
    /\ UNCHANGED <<members, asked, raced>>

\* The insert of the users fails if the group is gone, or has one of them.
AddNewUsers(r) ==
    LET q == req[r] IN
    /\ At(r, "addNewUsers")
    /\ members' = [members EXCEPT ![q.group] =
                      IF q.group \in Existing /\ @ \cap q.users = {} THEN @ \cup q.users ELSE @]
    /\ Asked([asked EXCEPT ![q.group] = q.users])
    /\ Finish(r)
    /\ UNCHANGED <<groups, raced>>

\* The update of a row that is gone throws.
WriteGroup(r) ==
    LET q == req[r] IN
    /\ At(r, "writeGroup") /\ q.kind = "update"
    /\ IF q.group \in Existing
       THEN groups' = [groups EXCEPT ![q.group] = q.name] /\ Goto(r, "getAllUsers")
       ELSE UNCHANGED groups /\ Finish(r)
    /\ UNCHANGED <<members, asked, raced>>

GetAllUsersByGroups(r) ==
    /\ At(r, "getAllUsers")
    /\ req' = [req EXCEPT ![r].at = "updateGroupUsers", ![r].read = members[req[r].group]]
    /\ UNCHANGED <<groups, members, asked, raced>>

\* Mutant: the users that are no longer named stay.
NoneDeletable(existing, users) == {}

DeletableUsers(existing, users) == existing \ users

\* One transaction: if the insert of the new users fails, nothing is deleted.
UpdateGroupUsers(r) ==
    LET q == req[r]
        new == q.users \ q.read
    IN
    /\ At(r, "updateGroupUsers")
    /\ members' = [members EXCEPT ![q.group] =
                      IF new # {} /\ (q.group \notin Existing \/ @ \cap new # {}) THEN @
                      ELSE (@ \cup new) \ DeletableUsers(q.read, q.users)]
    /\ Asked([asked EXCEPT ![q.group] = q.users])
    /\ Finish(r)
    /\ UNCHANGED <<groups, raced>>

-----------------------------------------------------------------------------
(* deleteGroup: the foreign key of group_user cascades.                    *)

DeleteGroup(r, g) ==
    /\ g \in Existing
    /\ Begin(r, [Idle EXCEPT !.kind = "delete", !.at = "delete", !.group = g])

Delete(r) ==
    LET g == req[r].group IN
    /\ At(r, "delete")
    /\ groups' = [groups EXCEPT ![g] = Nothing]
    /\ members' = [members EXCEPT ![g] = {}]
    /\ Asked([asked EXCEPT ![g] = {}])
    /\ Finish(r)
    /\ UNCHANGED raced

-----------------------------------------------------------------------------
(* loginUserSSO of a user that exists: it leaves every group it is in, and  *)
(* joins those that the identity provider names.                            *)

LoginUserSSO(r, u, names) ==
    Begin(r, [Idle EXCEPT !.kind = "login", !.at = "deleteOldUsers", !.user = u, !.names = names,
                          !.read = {g \in GroupIds : u \in members[g]}])

DeleteOldUsers(r) ==
    LET q == req[r] IN
    /\ At(r, "deleteOldUsers")
    /\ members' = [g \in GroupIds |-> IF g \in q.read THEN members[g] \ {q.user} ELSE members[g]]
    /\ Asked([g \in GroupIds |-> asked[g] \ {q.user}])
    /\ Goto(r, "getCorrectGroups")
    /\ UNCHANGED <<groups, raced>>

\* One insert for every group of those names.  A login that is to join none is
\* done.
GetCorrectGroups(r) ==
    LET correct == {g \in Existing : groups[g] \in req[r].names} IN
    /\ At(r, "getCorrectGroups")
    /\ IF correct = {} THEN Finish(r)
       ELSE req' = [req EXCEPT ![r].at = "join", ![r].read = correct]
    /\ UNCHANGED <<groups, members, asked, raced>>

\* An insert that fails makes the login fail, but not the other inserts.
Join(r) ==
    LET q == req[r] IN
    /\ At(r, "join")
    /\ \E g \in q.read :
          /\ members' = [members EXCEPT ![g] = IF g \in Existing THEN @ \cup {q.user} ELSE @]
          /\ Asked([asked EXCEPT ![g] = @ \cup {q.user}])
          /\ IF q.read = {g} THEN Finish(r) ELSE req' = [req EXCEPT ![r].read = @ \ {g}]
    /\ UNCHANGED <<groups, raced>>

-----------------------------------------------------------------------------
Init ==
    /\ groups = [g \in GroupIds |-> Nothing]
    /\ members = [g \in GroupIds |-> {}]
    /\ req = [r \in Requests |-> Idle]
    /\ asked = members
    /\ raced = {}

Call(r) ==
    \/ \E n \in Names, us \in SUBSET Users :
          CreateGroup(r, n, us) \/ \E g \in GroupIds : UpdateGroup(r, g, n, us)
    \/ \E g \in GroupIds : DeleteGroup(r, g)
    \/ \E u \in Users, ns \in SUBSET Names : LoginUserSSO(r, u, ns)

Continue(r) ==
    \/ ValidateGroup(r) \/ WriteNewGroup(r) \/ AddNewUsers(r)
    \/ WriteGroup(r) \/ GetAllUsersByGroups(r) \/ UpdateGroupUsers(r)
    \/ Delete(r)
    \/ DeleteOldUsers(r) \/ GetCorrectGroups(r) \/ Join(r)

Next == \E r \in Requests : Call(r) \/ Continue(r)

-----------------------------------------------------------------------------
(* Properties.                                                             *)

\* Two groups have the same name, and a login joins both, only if two requests
\* have checked names at once.
GroupNamesUnique ==
    "names" \notin raced => \A g, h \in Existing : groups[g] = groups[h] => g = h

\* The members of a group are those that the last update named and the logins
\* since then have added or removed, unless two requests wrote members at once.
MembersAsAsked ==
    "members" \notin raced => members = asked
=============================================================================
