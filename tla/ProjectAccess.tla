---------------------------- MODULE ProjectAccess ----------------------------
(***************************************************************************)
(* Who has which role in a project: the rows of role_user and group_role   *)
(* for one project, and every handler that writes them.  Users and groups  *)
(* are treated alike but for the checks; both are called members here.     *)
(*                                                                         *)
(* An action is one SQL statement; a request between two statements keeps  *)
(* what its handler remembers.  What getProjectRoleAccess reads in several *)
(* statements, before anything is decided, is read in one.                 *)
(***************************************************************************)
EXTENDS Naturals, FiniteSets

CONSTANTS
    Users,
    Groups,
    Owner,        \* the role RoleName.OWNER
    CustomRoles,  \* roles that can be deleted
    Requests,     \* bound: as many requests are in progress at once
    Ops,          \* the operations that are called
    None

AllOps == {"addUser", "addGroup", "addAccess", "removeUser", "removeGroup", "changeRole",
           "deleteUser", "deleteGroup", "deleteRole"}

Roles == CustomRoles \cup {Owner}
Members == Users \cup Groups

ASSUME AccessAssumption ==
    /\ IsFiniteSet(Members) /\ IsFiniteSet(Roles)
    /\ Users \cap Groups = {}
    /\ Owner \notin CustomRoles
    /\ None \notin Members \cup Roles
    /\ Ops \subseteq AllOps

VARIABLES
    members,  \* the users and groups that exist
    roles,    \* the roles that exist
    access,   \* role_user and group_role: pairs <<member, role>>
    req       \* the requests in progress

vars == <<members, roles, access, req>>

Request == [op     : AllOps \cup {"none"},
            at     : {"idle", "insert", "countUsers", "countGroups", "remove", "change",
                      "unlink", "deleteMember", "deleteRole"},
            member : Members \cup {None},
            role   : Roles \cup {None},  \* the current role, or the one to add
            new    : Roles \cup {None},  \* of changeRole
            count  : Nat]                \* the owners among the users

Idle == [op |-> "none", at |-> "idle", member |-> None, role |-> None, new |-> None, count |-> 0]

Begin(r, op, step, m, role, new) ==
    /\ op \in Ops
    /\ req[r] = Idle
    /\ req' = [req EXCEPT ![r] = [op |-> op, at |-> step, member |-> m, role |-> role,
                                  new |-> new, count |-> 0]]

At(r, step) == req[r].at = step
Goto(r, step) == req' = [req EXCEPT ![r].at = step]
Finish(r) == req' = [req EXCEPT ![r] = Idle]

RolesOf(m) == {role \in Roles : <<m, role>> \in access}
HoldersOf(role) == {m \in Members : <<m, role>> \in access}

\* A request that does one statement only.
Once(op) == op \in Ops /\ \E r \in Requests : req[r] = Idle

-----------------------------------------------------------------------------
(* addUser refuses a user that has a role; addGroup does not look.  The    *)
(* insert fails on a row that exists, and on a member or role that is gone.*)

\* Mutant: nobody is refused.
NobodyHas(m) == FALSE

AlreadyHasAccess(m) == RolesOf(m) # {}

AddUser(r, m, role) ==
    /\ m \in Users \cap members
    /\ role \in roles
    /\ ~AlreadyHasAccess(m)
    /\ Begin(r, "addUser", "insert", m, role, None)
    /\ UNCHANGED <<members, roles, access>>

AddGroup(r, m, role) ==
    /\ m \in Groups \cap members
    /\ role \in roles
    /\ Begin(r, "addGroup", "insert", m, role, None)
    /\ UNCHANGED <<members, roles, access>>

\* Mutant: the foreign keys are not there.
NoForeignKeys(m, role) == TRUE

ForeignKeysHold(m, role) == m \in members /\ role \in roles

Insert(r) ==
    /\ At(r, "insert")
    /\ access' = IF ForeignKeysHold(req[r].member, req[r].role)
                 THEN access \cup {<<req[r].member, req[r].role>>}
                 ELSE access
    /\ Finish(r)
    /\ UNCHANGED <<members, roles>>

\* addAccessToProject: one transaction, rows that exist are kept.
AddAccess(M, role) ==
    /\ Once("addAccess")
    /\ M \subseteq members
    /\ role \in roles
    /\ access' = access \cup (M \X {role})
    /\ UNCHANGED <<members, roles, req>>

-----------------------------------------------------------------------------
(* removeUser and changeRole (changeGroupRole) validate that another owner *)
(* remains: they count the owners among the users, then those among the    *)
(* groups, and write in a third statement.                                 *)

ValidateOwner(role, step) == IF role = Owner THEN "countUsers" ELSE step

RemoveUser(r, m, role) ==
    /\ m \in Users
    /\ HoldersOf(role) \cap Users # {}
    /\ Begin(r, "removeUser", ValidateOwner(role, "remove"), m, role, None)
    /\ UNCHANGED <<members, roles, access>>

\* Of several roles that a member has, the handler sees one.
ChangeRole(r, m, role, new) ==
    /\ role \in RolesOf(m)
    /\ new # role
    /\ Begin(r, "changeRole", ValidateOwner(role, "change"), m, role, new)
    /\ UNCHANGED <<members, roles, access>>

CountUsers(r) ==
    /\ At(r, "countUsers")
    /\ req' = [req EXCEPT ![r] = [@ EXCEPT !.at = "countGroups",
                                           !.count = Cardinality(HoldersOf(Owner) \cap Users)]]
    /\ UNCHANGED <<members, roles, access>>

\* Of a group with several roles the query keeps an arbitrary one.
OwnerGroups == HoldersOf(Owner) \cap Groups
OnlyOwnerGroups == {g \in OwnerGroups : RolesOf(g) = {Owner}}

\* Mutant: one owner is enough, though it is the one that goes.
AnyOwner(n) == n >= 1

AnotherOwner(n) == n >= 2

CountGroups(r) ==
    /\ At(r, "countGroups")
    /\ \E n \in Cardinality(OnlyOwnerGroups)..Cardinality(OwnerGroups) :
          IF AnotherOwner(req[r].count + n)
          THEN Goto(r, IF req[r].op = "removeUser" THEN "remove" ELSE "change")
          ELSE Finish(r)
    /\ UNCHANGED <<members, roles, access>>

Remove(r) ==
    /\ At(r, "remove")
    /\ access' = access \ {<<req[r].member, req[r].role>>}
    /\ Finish(r)
    /\ UNCHANGED <<members, roles>>

\* Mutant: an upsert, which adds the row that is gone.
Upserts(m) == m \in members /\ Cardinality(RolesOf(m)) <= 1

\* The update takes all rows of the member; two of them would become equal,
\* which the primary key refuses, and where none is left nothing happens.
Updates(m) == Cardinality(RolesOf(m)) = 1

Change(r) ==
    LET m == req[r].member IN
    /\ At(r, "change")
    /\ access' = IF Updates(m) /\ req[r].new \in roles
                 THEN {x \in access : x[1] # m} \cup {<<m, req[r].new>>}
                 ELSE access
    /\ Finish(r)
    /\ UNCHANGED <<members, roles>>

\* removeGroup validates nothing.
RemoveGroup(m, role) ==
    /\ Once("removeGroup")
    /\ m \in Groups
    /\ <<m, role>> \in access
    /\ access' = access \ {<<m, role>>}
    /\ UNCHANGED <<members, roles, req>>

-----------------------------------------------------------------------------
(* deleteUser, deleteGroup and deleteRole; the foreign keys cascade.       *)

DeleteUser(r, m) ==
    /\ m \in Users \cap members
    /\ Begin(r, "deleteUser", "unlink", m, None, None)
    /\ UNCHANGED <<members, roles, access>>

Unlink(r) ==
    /\ At(r, "unlink")
    /\ access' = {x \in access : x[1] # req[r].member}
    /\ Goto(r, "deleteMember")
    /\ UNCHANGED <<members, roles>>

DeleteMember(r) ==
    /\ At(r, "deleteMember")
    /\ members' = members \ {req[r].member}
    /\ access' = {x \in access : x[1] # req[r].member}
    /\ Finish(r)
    /\ UNCHANGED roles

DeleteGroup(m) ==
    /\ Once("deleteGroup")
    /\ m \in Groups \cap members
    /\ members' = members \ {m}
    /\ access' = {x \in access : x[1] # m}
    /\ UNCHANGED <<roles, req>>

\* Mutant: the users are not looked at.
Unchecked(role) == TRUE

\* Only the users that have the role are looked for, not the groups.
NotInUse(role) == HoldersOf(role) \cap Users = {}

DeleteRole(r, role) ==
    /\ role \in roles \cap CustomRoles
    /\ NotInUse(role)
    /\ Begin(r, "deleteRole", "deleteRole", None, role, None)
    /\ UNCHANGED <<members, roles, access>>

DeleteRoleRow(r) ==
    /\ At(r, "deleteRole")
    /\ roles' = roles \ {req[r].role}
    /\ access' = {x \in access : x[2] # req[r].role}
    /\ Finish(r)
    /\ UNCHANGED members

-----------------------------------------------------------------------------
\* createProject makes the user who created the project its owner; who comes
\* with an API token has no user id, and the project no owner.
Init ==
    /\ members = Members
    /\ roles = Roles
    /\ access \in {{}} \cup {{<<u, Owner>>} : u \in Users}
    /\ req = [r \in Requests |-> Idle]

Call(r) ==
    \/ \E m \in Members, role \in Roles :
          AddUser(r, m, role) \/ AddGroup(r, m, role) \/ RemoveUser(r, m, role)
    \/ \E m \in Members, role, new \in Roles : ChangeRole(r, m, role, new)
    \/ \E m \in Members : DeleteUser(r, m)
    \/ \E role \in Roles : DeleteRole(r, role)

Continue(r) ==
    \/ Insert(r)
    \/ CountUsers(r)
    \/ CountGroups(r)
    \/ Remove(r)
    \/ Change(r)
    \/ Unlink(r)
    \/ DeleteMember(r)
    \/ DeleteRoleRow(r)

Next ==
    \/ \E r \in Requests : Call(r) \/ Continue(r)
    \/ \E M \in SUBSET Members \ {{}}, role \in Roles : AddAccess(M, role)
    \/ \E m \in Groups, role \in Roles : RemoveGroup(m, role)
    \/ \E m \in Groups : DeleteGroup(m)

Spec == Init /\ [][Next]_vars
-----------------------------------------------------------------------------
(* Properties.                                                             *)

\* Whatever interleaves, a row refers to a user or group and to a role that
\* exist: deletions cascade and late inserts fail.
TypeOK ==
    /\ members \in SUBSET Members
    /\ roles \in SUBSET Roles
    /\ access \in SUBSET (members \X roles)
    /\ req \in [Requests -> Request]

\* "A project must have at least one owner": one that has an owner keeps one.
KeepsOwner == [][HoldersOf(Owner) # {} => HoldersOf(Owner)' # {}]_vars

\* What that takes: requests come one at a time, and owners leave by
\* removeUser, changeRole and changeGroupRole only.
OneAtATime == \A r, q \in Requests : r = q
OwnersValidated == Ops \cap {"removeGroup", "deleteGroup", "deleteUser"} = {}

\* Only addUser, addGroup and addAccess let someone into the project: a role
\* change that comes after the removal of its member does nothing.
OnlyAddingGivesAccess ==
    [][\A m \in Members : RolesOf(m) = {} /\ RolesOf(m)' # {} =>
          \/ \E r \in Requests : At(r, "insert") /\ req[r].member = m
          \/ \E M \in SUBSET members, role \in roles : m \in M /\ AddAccess(M, role)]_vars

\* "You cannot delete a role that is in use without first removing the role
\* from the users": a user that has a role keeps it when a role is deleted.
RoleInUseStays == [][\A x \in access : x[1] \in Users => x[2] \in roles']_vars

\* "User already has access to project": a user that addUser adds has no
\* other role in the project.
OneRole == \A u \in Users : Cardinality(RolesOf(u)) <= 1
=============================================================================
