------------------------- MODULE ProjectAccessProofs -------------------------
(***************************************************************************)
(* Proofs about ProjectAccess, for every set of users, groups, roles and   *)
(* requests.                                                               *)
(***************************************************************************)
EXTENDS ProjectAccess, FiniteSetTheorems, TLAPS

\* Every set of holders is finite, and what Cardinality counts is a number.
LEMMA HoldersFinite ==
    ASSUME NEW role
    PROVE  /\ IsFiniteSet(HoldersOf(role))
           /\ IsFiniteSet(HoldersOf(role) \cap Users)
           /\ IsFiniteSet(HoldersOf(role) \cap Groups)
           /\ Cardinality(HoldersOf(role)) \in Nat
           /\ Cardinality(HoldersOf(role) \cap Users) \in Nat
           /\ Cardinality(HoldersOf(role) \cap Groups) \in Nat
<1>1. HoldersOf(role) \subseteq Members
  BY DEF HoldersOf
<1>2. IsFiniteSet(HoldersOf(role))
  BY <1>1, FS_Subset, AccessAssumption
<1>3. /\ IsFiniteSet(HoldersOf(role) \cap Users)
      /\ IsFiniteSet(HoldersOf(role) \cap Groups)
  BY <1>2, FS_Subset
<1>. QED
  BY <1>2, <1>3, FS_CardinalityType

\* Idle is a request, and a request that moves on or ends stays one.
LEMMA RequestType ==
    ASSUME req \in [Requests -> Request], NEW r \in Requests
    PROVE  /\ Idle \in Request
           /\ Finish(r) => req' \in [Requests -> Request]
           /\ \A step \in {"insert", "countUsers", "countGroups", "remove", "change",
                           "unlink", "deleteMember", "deleteRole"} :
                 Goto(r, step) => req' \in [Requests -> Request]
           /\ \A op \in AllOps, m \in Members \cup {None}, role, new \in Roles \cup {None},
                 step \in {"insert", "countUsers", "remove", "change", "unlink", "deleteRole"} :
                 Begin(r, op, step, m, role, new) => req' \in [Requests -> Request]
<1>1. Idle \in Request
  BY DEF Idle, Request
<1>2. Finish(r) => req' \in [Requests -> Request]
  BY <1>1 DEF Finish
<1>3. ASSUME NEW step \in {"insert", "countUsers", "countGroups", "remove", "change",
                           "unlink", "deleteMember", "deleteRole"}, Goto(r, step)
      PROVE  req' \in [Requests -> Request]
  BY <1>3 DEF Goto, Request
<1>4. ASSUME NEW op \in AllOps, NEW m \in Members \cup {None}, NEW role \in Roles \cup {None},
             NEW new \in Roles \cup {None},
             NEW step \in {"insert", "countUsers", "remove", "change", "unlink", "deleteRole"},
             Begin(r, op, step, m, role, new)
      PROVE  req' \in [Requests -> Request]
  <2>1. [op |-> op, at |-> step, member |-> m, role |-> role, new |-> new, count |-> 0]
           \in Request
    BY DEF Request
  <2>. QED
    BY <1>4, <2>1 DEF Begin
<1>. QED
  BY <1>1, <1>2, <1>3, <1>4

-----------------------------------------------------------------------------
(* TypeOK is inductive: the disjuncts of Next that add a row check that its *)
(* ends exist, and those that delete an end delete its rows.               *)

LEMMA InitType == Init => TypeOK
  BY DEF Init, TypeOK, Idle, Request, Roles, Members

LEMMA CallType ==
    ASSUME TypeOK, NEW r \in Requests, Call(r)
    PROVE  TypeOK'
<1>. USE DEF TypeOK
<1>1. UNCHANGED <<members, roles, access>>
  BY DEF Call, AddUser, AddGroup, RemoveUser, ChangeRole, DeleteUser, DeleteRole
<1>2. req' \in [Requests -> Request]
  <2>1. CASE \E m \in Members, role \in Roles : AddUser(r, m, role) \/ AddGroup(r, m, role)
    BY <2>1, RequestType DEF AddUser, AddGroup, AllOps
  <2>2. CASE \E m \in Members, role \in Roles : RemoveUser(r, m, role)
    BY <2>2, RequestType DEF RemoveUser, AllOps, ValidateOwner
  <2>3. CASE \E m \in Members, role, new \in Roles : ChangeRole(r, m, role, new)
    BY <2>3, RequestType DEF ChangeRole, AllOps, ValidateOwner
  <2>4. CASE \E m \in Members : DeleteUser(r, m)
    BY <2>4, RequestType DEF DeleteUser, AllOps
  <2>5. CASE \E role \in Roles : DeleteRole(r, role)
    BY <2>5, RequestType DEF DeleteRole, AllOps
  <2>. QED
    BY <2>1, <2>2, <2>3, <2>4, <2>5 DEF Call
<1>. QED
  BY <1>1, <1>2

LEMMA ContinueType ==
    ASSUME TypeOK, NEW r \in Requests, Continue(r)
    PROVE  TypeOK'
<1>. USE DEF TypeOK
<1>1. CASE Insert(r)
  BY <1>1, RequestType DEF Insert, ForeignKeysHold
<1>2. CASE CountUsers(r)
  <2>1. Cardinality(HoldersOf(Owner) \cap Users) \in Nat
    BY HoldersFinite
  <2>2. [req[r] EXCEPT !.at = "countGroups",
                       !.count = Cardinality(HoldersOf(Owner) \cap Users)] \in Request
    BY <2>1 DEF Request
  <2>3. req' \in [Requests -> Request]
    BY <1>2, <2>2 DEF CountUsers
  <2>. QED
    BY <1>2, <2>3 DEF CountUsers
<1>3. CASE CountGroups(r)
  BY <1>3, RequestType DEF CountGroups
<1>4. CASE Remove(r)
  BY <1>4, RequestType DEF Remove
<1>5. CASE Change(r)
  <2>1. req' \in [Requests -> Request]
    BY <1>5, RequestType DEF Change
  <2>2. ASSUME Updates(req[r].member)
        PROVE  req[r].member \in members
    <3>1. RolesOf(req[r].member) # {}
      BY <2>2, FS_EmptySet DEF Updates
    <3>. QED
      BY <3>1 DEF RolesOf
  <2>. QED
    BY <1>5, <2>1, <2>2 DEF Change
<1>6. CASE Unlink(r)
  BY <1>6, RequestType DEF Unlink
<1>7. CASE DeleteMember(r)
  <2>1. req' \in [Requests -> Request]
    BY <1>7, RequestType DEF DeleteMember
  <2>. QED
    BY <1>7, <2>1 DEF DeleteMember
<1>8. CASE DeleteRoleRow(r)
  <2>1. req' \in [Requests -> Request]
    BY <1>8, RequestType DEF DeleteRoleRow
  <2>. QED
    BY <1>8, <2>1 DEF DeleteRoleRow
<1>. QED
  BY <1>1, <1>2, <1>3, <1>4, <1>5, <1>6, <1>7, <1>8 DEF Continue

LEMMA NextType == TypeOK /\ [Next]_vars => TypeOK'
<1>. SUFFICES ASSUME TypeOK, [Next]_vars
              PROVE  TypeOK'
  OBVIOUS
<1>1. ASSUME NEW r \in Requests, Call(r) \/ Continue(r)
      PROVE  TypeOK'
  BY <1>1, CallType, ContinueType
<1>2. CASE \E M \in SUBSET Members \ {{}}, role \in Roles : AddAccess(M, role)
  BY <1>2 DEF TypeOK, AddAccess
<1>3. CASE \E m \in Groups, role \in Roles : RemoveGroup(m, role)
  BY <1>3 DEF TypeOK, RemoveGroup
<1>4. CASE \E m \in Groups : DeleteGroup(m)
  BY <1>4 DEF TypeOK, DeleteGroup
<1>5. CASE UNCHANGED vars
  BY <1>5 DEF TypeOK, vars
<1>. QED
  BY <1>1, <1>2, <1>3, <1>4, <1>5 DEF Next

\* However the requests interleave, every row of role_user and group_role
\* refers to a user or group and to a role that exist.
THEOREM AccessTypeCorrect == Spec => []TypeOK
<1>. QED
  BY InitType, NextType, PTL DEF Spec

-----------------------------------------------------------------------------
(* Who has no role gets one only from a statement that adds rows.          *)

LEMMA ContinueAdds ==
    ASSUME TypeOK, NEW r \in Requests, Continue(r), NEW m \in Members,
           RolesOf(m) = {}, RolesOf(m)' # {}
    PROVE  At(r, "insert") /\ req[r].member = m
<1>. PICK role \in Roles : <<m, role>> \in access' /\ <<m, role>> \notin access
  BY DEF RolesOf
<1>1. CASE Insert(r)
  BY <1>1 DEF Insert
<1>2. CASE CountUsers(r) \/ CountGroups(r) \/ Remove(r) \/ Unlink(r) \/ DeleteMember(r)
              \/ DeleteRoleRow(r)
  BY <1>2 DEF CountUsers, CountGroups, Remove, Unlink, DeleteMember, DeleteRoleRow
<1>3. CASE Change(r)
  <2>1. req[r].member = m /\ Updates(m)
    BY <1>3 DEF Change
  <2>. QED
    BY <2>1, FS_EmptySet DEF Updates
<1>. QED
  BY <1>1, <1>2, <1>3 DEF Continue

LEMMA StepAdds ==
    ASSUME TypeOK, [Next]_vars, NEW m \in Members, RolesOf(m) = {}, RolesOf(m)' # {}
    PROVE  \/ \E r \in Requests : At(r, "insert") /\ req[r].member = m
           \/ \E M \in SUBSET members, role \in roles : m \in M /\ AddAccess(M, role)
<1>. PICK role \in Roles : <<m, role>> \in access' /\ <<m, role>> \notin access
  BY DEF RolesOf
<1>1. ASSUME NEW r \in Requests, Call(r)
      PROVE  FALSE
  BY <1>1 DEF Call, AddUser, AddGroup, RemoveUser, ChangeRole, DeleteUser, DeleteRole
<1>2. ASSUME NEW r \in Requests, Continue(r)
      PROVE  At(r, "insert") /\ req[r].member = m
  BY <1>2, ContinueAdds
<1>3. ASSUME NEW M \in SUBSET Members \ {{}}, NEW added \in Roles, AddAccess(M, added)
      PROVE  M \in SUBSET members /\ added \in roles /\ m \in M
  BY <1>3 DEF AddAccess
<1>4. ~ \E g \in Groups, removed \in Roles : RemoveGroup(g, removed)
  BY DEF RemoveGroup
<1>5. ~ \E g \in Groups : DeleteGroup(g)
  BY DEF DeleteGroup
<1>6. ~ UNCHANGED vars
  BY DEF vars
<1>. QED
  BY <1>1, <1>2, <1>3, <1>4, <1>5, <1>6 DEF Next

\* A role change that comes after the removal of its member gives nothing
\* back: only addUser, addGroup and addAccess let someone into the project.
THEOREM AccessGivenCorrect == Spec => OnlyAddingGivesAccess
<1>1. TypeOK /\ [Next]_vars =>
         [\A m \in Members : RolesOf(m) = {} /\ RolesOf(m)' # {} =>
             \/ \E r \in Requests : At(r, "insert") /\ req[r].member = m
             \/ \E M \in SUBSET members, role \in roles : m \in M /\ AddAccess(M, role)]_vars
  BY StepAdds
<1>. QED
  BY <1>1, AccessTypeCorrect, PTL DEF Spec, OnlyAddingGivesAccess
-----------------------------------------------------------------------------
(* A project keeps an owner while the requests come one at a time and      *)
(* owners leave by the operations that validate.                           *)

\* What a request in progress may then rely on: a row that is about to take
\* the owner role from its member leaves another owner.
AnotherOwnerRemains ==
    \A r \in Requests :
       /\ ~At(r, "unlink") /\ ~At(r, "deleteMember")
       /\ At(r, "countUsers") \/ At(r, "countGroups") => req[r].role = Owner
       /\ At(r, "countGroups") => req[r].count <= Cardinality(HoldersOf(Owner) \cap Users)
       /\ (At(r, "remove") \/ At(r, "change")) /\ req[r].role = Owner
             => Cardinality(HoldersOf(Owner)) >= 2
       /\ At(r, "change") /\ req[r].role # Owner => req[r].role \in RolesOf(req[r].member)
       /\ At(r, "deleteRole") => req[r].role # Owner

\* More rows mean at least as many owners.
LEMMA MoreOwners ==
    ASSUME access \subseteq access'
    PROVE  /\ Cardinality(HoldersOf(Owner)) <= Cardinality(HoldersOf(Owner)')
           /\ Cardinality(HoldersOf(Owner) \cap Users) <= Cardinality(HoldersOf(Owner)' \cap Users)
           /\ \A m : RolesOf(m) \subseteq RolesOf(m)'
<1>1. HoldersOf(Owner) \subseteq HoldersOf(Owner)'
  BY DEF HoldersOf
<1>2. HoldersOf(Owner)' \subseteq Members
  BY DEF HoldersOf
<1>3. IsFiniteSet(HoldersOf(Owner)') /\ IsFiniteSet(HoldersOf(Owner)' \cap Users)
  BY <1>2, FS_Subset, AccessAssumption
<1>4. \A m : RolesOf(m) \subseteq RolesOf(m)'
  BY DEF RolesOf
<1>. QED
  BY <1>1, <1>3, <1>4, FS_Subset

\* The two counts together are at most the number of owners.
LEMMA OwnersCounted ==
    ASSUME NEW n \in Nat, n <= Cardinality(HoldersOf(Owner) \cap Users),
           NEW k \in Cardinality(OnlyOwnerGroups)..Cardinality(OwnerGroups)
    PROVE  n + k <= Cardinality(HoldersOf(Owner)) /\ k \in Int
<1>. DEFINE U == HoldersOf(Owner) \cap Users
            G == HoldersOf(Owner) \cap Groups
<1>1. IsFiniteSet(U) /\ IsFiniteSet(G) /\ Cardinality(U) \in Nat /\ Cardinality(G) \in Nat
  BY HoldersFinite
<1>2. U \cup G = HoldersOf(Owner) /\ U \cap G = {}
  BY AccessAssumption DEF HoldersOf, Members
<1>3. Cardinality(HoldersOf(Owner)) = Cardinality(U) + Cardinality(G)
  BY <1>1, <1>2, FS_Union, FS_EmptySet
<1>4. IsFiniteSet(OnlyOwnerGroups) /\ Cardinality(OnlyOwnerGroups) \in Nat
  BY <1>1, FS_Subset, FS_CardinalityType DEF OnlyOwnerGroups, OwnerGroups
<1>. QED
  BY <1>1, <1>3, <1>4 DEF OwnerGroups

\* One request in progress, and its next step: every other request is idle.
LEMMA RemainsCall ==
    ASSUME TypeOK, AnotherOwnerRemains, OneAtATime, OwnersValidated,
           NEW r \in Requests, Call(r)
    PROVE  AnotherOwnerRemains'
<1>. SUFFICES ASSUME NEW q \in Requests
              PROVE  AnotherOwnerRemains!(q)'
  BY DEF AnotherOwnerRemains
<1>0. q = r
  BY DEF OneAtATime
<1>1. CASE \E m \in Members, role \in Roles : AddUser(r, m, role) \/ AddGroup(r, m, role)
  BY <1>0, <1>1 DEF TypeOK, AddUser, AddGroup, Begin, At
<1>2. CASE \E m \in Members, role \in Roles : RemoveUser(r, m, role)
  BY <1>0, <1>2 DEF TypeOK, RemoveUser, ValidateOwner, Begin, At
<1>3. CASE \E m \in Members, role, new \in Roles : ChangeRole(r, m, role, new)
  BY <1>0, <1>3 DEF TypeOK, ChangeRole, ValidateOwner, Begin, At, RolesOf
<1>4. ~ \E m \in Members : DeleteUser(r, m)
  BY DEF DeleteUser, Begin, OwnersValidated
<1>5. CASE \E role \in Roles : DeleteRole(r, role)
  BY <1>0, <1>5, AccessAssumption DEF TypeOK, DeleteRole, Begin, At
<1>. QED
  BY <1>1, <1>2, <1>3, <1>4, <1>5 DEF Call

LEMMA RemainsContinue ==
    ASSUME TypeOK, AnotherOwnerRemains, OneAtATime, NEW r \in Requests, Continue(r)
    PROVE  AnotherOwnerRemains'
<1>. SUFFICES ASSUME NEW q \in Requests
              PROVE  AnotherOwnerRemains!(q)'
  BY DEF AnotherOwnerRemains
<1>0. q = r
  BY DEF OneAtATime
<1>1. CASE Insert(r) \/ Remove(r) \/ Change(r) \/ DeleteMember(r) \/ DeleteRoleRow(r)
  <2>1. req'[r].at = "idle"
    BY <1>1 DEF TypeOK, Insert, Remove, Change, DeleteMember, DeleteRoleRow, Finish, Idle
  <2>. QED
    BY <1>0, <2>1 DEF At
<1>2. CASE CountUsers(r)
  <2>1. /\ req'[r].at = "countGroups"
        /\ req'[r].role = Owner
        /\ req'[r].count = Cardinality(HoldersOf(Owner) \cap Users)
    BY <1>2 DEF TypeOK, Request, CountUsers, AnotherOwnerRemains, At
  <2>2. HoldersOf(Owner)' = HoldersOf(Owner)
    BY <1>2 DEF CountUsers, HoldersOf
  <2>3. Cardinality(HoldersOf(Owner) \cap Users) \in Nat
    BY HoldersFinite
  <2>. QED
    BY <1>0, <2>1, <2>2, <2>3 DEF At
<1>3. CASE CountGroups(r)
  <2>1. HoldersOf(Owner)' = HoldersOf(Owner)
    BY <1>3 DEF CountGroups, HoldersOf
  <2>2. PICK n \in Cardinality(OnlyOwnerGroups)..Cardinality(OwnerGroups) :
           IF AnotherOwner(req[r].count + n)
           THEN Goto(r, IF req[r].op = "removeUser" THEN "remove" ELSE "change")
           ELSE Finish(r)
    BY <1>3 DEF CountGroups
  <2>3. CASE AnotherOwner(req[r].count + n)
    <3>1. req[r].count \in Nat /\ req[r].role = Owner
          /\ req[r].count <= Cardinality(HoldersOf(Owner) \cap Users)
      BY <1>3 DEF TypeOK, Request, CountGroups, AnotherOwnerRemains
    <3>2. Cardinality(HoldersOf(Owner)) >= 2
      <4>1. req[r].count + n <= Cardinality(HoldersOf(Owner)) /\ n \in Int
        BY <3>1, OwnersCounted
      <4>2. req[r].count + n >= 2
        BY <2>3 DEF AnotherOwner
      <4>3. Cardinality(HoldersOf(Owner)) \in Nat
        BY HoldersFinite
      <4>. QED
        BY <3>1, <4>1, <4>2, <4>3
    <3>3. req'[r].at \in {"remove", "change"} /\ req'[r].role = Owner
      BY <2>2, <2>3, <3>1 DEF TypeOK, Request, Goto
    <3>. QED
      BY <1>0, <2>1, <3>2, <3>3 DEF At
  <2>4. CASE ~AnotherOwner(req[r].count + n)
    <3>1. req'[r].at = "idle"
      BY <2>2, <2>4 DEF TypeOK, Finish, Idle
    <3>. QED
      BY <1>0, <3>1 DEF At
  <2>. QED
    BY <2>3, <2>4
<1>4. ~Unlink(r)
  BY DEF Unlink, AnotherOwnerRemains
<1>. QED
  BY <1>1, <1>2, <1>3, <1>4 DEF Continue

LEMMA RemainsNext ==
    ASSUME TypeOK, AnotherOwnerRemains, OneAtATime, OwnersValidated, [Next]_vars
    PROVE  AnotherOwnerRemains'
<1>1. ASSUME NEW r \in Requests, Call(r) \/ Continue(r)
      PROVE  AnotherOwnerRemains'
  BY <1>1, RemainsCall, RemainsContinue
<1>2. CASE req' = req /\ access \subseteq access'
  <2>. SUFFICES ASSUME NEW q \in Requests
                PROVE  AnotherOwnerRemains!(q)'
    BY DEF AnotherOwnerRemains
  <2>1. AnotherOwnerRemains!(q)
    BY DEF AnotherOwnerRemains
  <2>2. req[q].count \in Nat
    BY DEF TypeOK, Request
  <2>3. /\ Cardinality(HoldersOf(Owner)) \in Nat
        /\ Cardinality(HoldersOf(Owner) \cap Users) \in Nat
    BY HoldersFinite
  <2>4. /\ HoldersOf(Owner)' \subseteq Members
        /\ IsFiniteSet(HoldersOf(Owner)')
        /\ IsFiniteSet(HoldersOf(Owner)' \cap Users)
    BY AccessAssumption, FS_Subset DEF HoldersOf
  <2>5. /\ Cardinality(HoldersOf(Owner)') \in Nat
        /\ Cardinality(HoldersOf(Owner)' \cap Users) \in Nat
    BY <2>4, FS_CardinalityType
  <2>6. /\ Cardinality(HoldersOf(Owner)) <= Cardinality(HoldersOf(Owner)')
        /\ Cardinality(HoldersOf(Owner) \cap Users) <= Cardinality(HoldersOf(Owner)' \cap Users)
        /\ \A m : RolesOf(m) \subseteq RolesOf(m)'
    BY <1>2, MoreOwners
  <2>. QED
    BY <1>2, <2>1, <2>2, <2>3, <2>5, <2>6 DEF At
<1>3. ASSUME NEW M \in SUBSET Members \ {{}}, NEW role \in Roles, AddAccess(M, role)
      PROVE  req' = req /\ access \subseteq access'
  BY <1>3 DEF AddAccess
<1>4. ~ \E m \in Groups, role \in Roles : RemoveGroup(m, role)
  BY DEF RemoveGroup, Once, OwnersValidated
<1>5. ~ \E m \in Groups : DeleteGroup(m)
  BY DEF DeleteGroup, Once, OwnersValidated
<1>6. CASE UNCHANGED vars
  BY <1>2, <1>6 DEF vars
<1>. QED
  BY <1>1, <1>2, <1>3, <1>4, <1>5, <1>6 DEF Next

\* Two owners, one goes, one stays.
LEMMA OneOfTwoStays ==
    ASSUME Cardinality(HoldersOf(Owner)) >= 2, NEW m
    PROVE  HoldersOf(Owner) \ {m} # {}
<1>1. IsFiniteSet(HoldersOf(Owner)) /\ Cardinality(HoldersOf(Owner)) \in Nat
  BY HoldersFinite
<1>2. Cardinality(HoldersOf(Owner) \ {m}) >= 1
  <2>1. Cardinality(HoldersOf(Owner) \ {m}) =
           IF m \in HoldersOf(Owner) THEN Cardinality(HoldersOf(Owner)) - 1
                                     ELSE Cardinality(HoldersOf(Owner))
    BY <1>1, FS_RemoveElement
  <2>. QED
    BY <1>1, <2>1
<1>. QED
  BY <1>2, FS_EmptySet

LEMMA StepKeepsOwner ==
    ASSUME TypeOK, AnotherOwnerRemains, OwnersValidated, [Next]_vars,
           HoldersOf(Owner) # {}
    PROVE  HoldersOf(Owner)' # {}
<1>1. CASE access \subseteq access'
  BY <1>1 DEF HoldersOf
<1>2. ASSUME NEW r \in Requests, Remove(r)
      PROVE  HoldersOf(Owner)' # {}
  <2>1. CASE req[r].role = Owner
    <3>1. HoldersOf(Owner) \ {req[r].member} \subseteq HoldersOf(Owner)'
      BY <1>2 DEF Remove, HoldersOf
    <3>. QED
      BY <1>2, <2>1, <3>1, OneOfTwoStays DEF Remove, AnotherOwnerRemains
  <2>2. CASE req[r].role # Owner
    BY <1>2, <2>2 DEF Remove, HoldersOf
  <2>. QED
    BY <2>1, <2>2
<1>3. ASSUME NEW r \in Requests, Change(r), ~(access \subseteq access')
      PROVE  HoldersOf(Owner)' # {}
  <2>. DEFINE m == req[r].member
  <2>1. HoldersOf(Owner) \ {m} \subseteq HoldersOf(Owner)'
    BY <1>3 DEF Change, HoldersOf
  <2>2. CASE req[r].role = Owner
    BY <1>3, <2>1, <2>2, OneOfTwoStays DEF Change, AnotherOwnerRemains
  <2>3. CASE req[r].role # Owner
    <3>1. req[r].role \in RolesOf(m)
      BY <1>3, <2>3 DEF Change, AnotherOwnerRemains
    <3>2. Cardinality(RolesOf(m)) = 1
      BY <1>3 DEF Change, Updates
    <3>3. \E x : RolesOf(m) = {x}
      <4>1. IsFiniteSet(RolesOf(m))
        BY AccessAssumption, FS_Subset DEF RolesOf
      <4>. QED
        BY <3>2, <4>1, FS_Singleton
    <3>4. m \notin HoldersOf(Owner)
      BY <2>3, <3>1, <3>3 DEF HoldersOf, RolesOf, Roles
    <3>. QED
      BY <2>1, <3>4
  <2>. QED
    BY <2>2, <2>3
<1>4. ASSUME NEW r \in Requests, DeleteRoleRow(r)
      PROVE  HoldersOf(Owner)' # {}
  BY <1>4 DEF DeleteRoleRow, AnotherOwnerRemains, HoldersOf
<1>5. ASSUME NEW r \in Requests
      PROVE  ~Unlink(r) /\ ~DeleteMember(r)
  BY DEF Unlink, DeleteMember, AnotherOwnerRemains
<1>6. ASSUME NEW r \in Requests, Call(r) \/ Insert(r) \/ CountUsers(r) \/ CountGroups(r)
      PROVE  access \subseteq access'
  BY <1>6 DEF Call, AddUser, AddGroup, RemoveUser, ChangeRole, DeleteUser, DeleteRole,
              Insert, CountUsers, CountGroups
<1>7. ~ \E m \in Groups, role \in Roles : RemoveGroup(m, role)
  BY DEF RemoveGroup, Once, OwnersValidated
<1>8. ~ \E m \in Groups : DeleteGroup(m)
  BY DEF DeleteGroup, Once, OwnersValidated
<1>9. CASE \E M \in SUBSET Members \ {{}}, role \in Roles : AddAccess(M, role)
  BY <1>1, <1>9 DEF AddAccess
<1>10. CASE UNCHANGED vars
  BY <1>1, <1>10 DEF vars
<1>. QED
  BY <1>1, <1>2, <1>3, <1>4, <1>5, <1>6, <1>7, <1>8, <1>9, <1>10 DEF Next, Continue

\* A project that has an owner keeps one, whatever sequence of requests comes,
\* as long as they come one at a time and use the operations that validate.
THEOREM OwnerKept ==
    ASSUME OneAtATime, OwnersValidated
    PROVE  Spec => KeepsOwner
<1>1. Init => AnotherOwnerRemains
  BY DEF Init, AnotherOwnerRemains, At, Idle
<1>2. TypeOK /\ AnotherOwnerRemains /\ [Next]_vars => AnotherOwnerRemains'
  BY RemainsNext
<1>3. TypeOK /\ AnotherOwnerRemains /\ [Next]_vars
         => [HoldersOf(Owner) # {} => HoldersOf(Owner)' # {}]_vars
  BY StepKeepsOwner
<1>. QED
  BY <1>1, <1>2, <1>3, AccessTypeCorrect, PTL DEF Spec, KeepsOwner
-----------------------------------------------------------------------------
(* Users have one role each, as long as the requests come one at a time    *)
(* and nobody is added by addAccessToProject, which does not look.         *)

\* What addUser found is still so at its insert.
AddedHaveNone ==
    \A r \in Requests :
       At(r, "insert") /\ req[r].member \in Users => RolesOf(req[r].member) = {}

\* Where rows only go, nobody has more roles than before.
LEMMA FewerRoles ==
    ASSUME access' \subseteq access, NEW u
    PROVE  /\ RolesOf(u)' \subseteq RolesOf(u)
           /\ Cardinality(RolesOf(u)) <= 1 => Cardinality(RolesOf(u)') <= 1
<1>1. RolesOf(u)' \subseteq RolesOf(u)
  BY DEF RolesOf
<1>2. IsFiniteSet(RolesOf(u))
  BY AccessAssumption, FS_Subset DEF RolesOf
<1>3. Cardinality(RolesOf(u)) \in Nat /\ Cardinality(RolesOf(u)') \in Nat
  BY <1>1, <1>2, FS_Subset, FS_CardinalityType
<1>. QED
  BY <1>1, <1>2, <1>3, FS_Subset

\* One row per user is one role.
LEMMA AtMostOne ==
    ASSUME NEW S, NEW x, S \subseteq {x}
    PROVE  Cardinality(S) <= 1
<1>1. CASE S = {}
  BY <1>1, FS_EmptySet
<1>2. CASE S = {x}
  BY <1>2, FS_Singleton
<1>. QED
  BY <1>1, <1>2

LEMMA AddedStep ==
    ASSUME TypeOK, AddedHaveNone, OneAtATime, "addAccess" \notin Ops, [Next]_vars
    PROVE  AddedHaveNone'
<1>. SUFFICES ASSUME NEW q \in Requests, NEW u \in Users,
                     req'[q].at = "insert", req'[q].member = u
              PROVE  RolesOf(u)' = {}
  BY DEF AddedHaveNone, At, RolesOf
<1>1. CASE req' = req /\ access' \subseteq access
  <2>1. RolesOf(u) = {}
    BY <1>1 DEF AddedHaveNone, At
  <2>. QED
    BY <1>1, <2>1, FewerRoles
<1>2. ASSUME NEW r \in Requests, Call(r)
      PROVE  RolesOf(u)' = {}
  <2>0. q = r
    BY DEF OneAtATime
  <2>1. CASE \E m \in Members, role \in Roles : AddUser(r, m, role)
    <3>. PICK m \in Members, role \in Roles : AddUser(r, m, role)
      BY <2>1
    <3>1. RolesOf(m) = {}
      BY DEF AddUser, AlreadyHasAccess
    <3>2. req'[r].member = m
      BY DEF TypeOK, AddUser, Begin
    <3>3. RolesOf(m)' = RolesOf(m)
      BY DEF AddUser, RolesOf
    <3>. QED
      BY <2>0, <3>1, <3>2, <3>3
  <2>2. CASE \E m \in Members, role \in Roles : AddGroup(r, m, role)
    BY <2>0, <2>2, AccessAssumption DEF TypeOK, AddGroup, Begin
  <2>3. CASE \E m \in Members, role \in Roles : RemoveUser(r, m, role)
    BY <2>0, <2>3 DEF TypeOK, RemoveUser, ValidateOwner, Begin, At
  <2>4. CASE \E m \in Members, role, new \in Roles : ChangeRole(r, m, role, new)
    BY <2>0, <2>4 DEF TypeOK, ChangeRole, ValidateOwner, Begin, At
  <2>5. CASE \/ \E m \in Members : DeleteUser(r, m)
             \/ \E role \in Roles : DeleteRole(r, role)
    BY <2>0, <2>5 DEF TypeOK, DeleteUser, DeleteRole, Begin, At
  <2>. QED
    BY <1>2, <2>1, <2>2, <2>3, <2>4, <2>5 DEF Call
<1>3. ASSUME NEW r \in Requests, Continue(r)
      PROVE  FALSE
  <2>0. q = r
    BY DEF OneAtATime
  <2>1. CASE CountUsers(r)
    BY <2>0, <2>1 DEF TypeOK, CountUsers, Request
  <2>3. CASE CountGroups(r)
    <3>1. \/ Goto(r, IF req[r].op = "removeUser" THEN "remove" ELSE "change")
          \/ Finish(r)
      BY <2>3 DEF CountGroups
    <3>2. req'[r].at \in {"remove", "change", "idle"}
      BY <3>1 DEF TypeOK, Request, Goto, Finish, Idle
    <3>. QED
      BY <2>0, <3>2
  <2>4. CASE Unlink(r)
    BY <2>0, <2>4 DEF TypeOK, Unlink, Goto
  <2>2. CASE Insert(r) \/ Remove(r) \/ Change(r) \/ DeleteMember(r) \/ DeleteRoleRow(r)
    BY <2>0, <2>2 DEF TypeOK, Insert, Remove, Change, DeleteMember, DeleteRoleRow, Finish,
                      Idle, At
  <2>. QED
    BY <1>3, <2>1, <2>2, <2>3, <2>4 DEF Continue
<1>4. ~ \E M \in SUBSET Members \ {{}}, role \in Roles : AddAccess(M, role)
  BY DEF AddAccess, Once
<1>5. CASE \E m \in Groups : DeleteGroup(m) \/ \E role \in Roles : RemoveGroup(m, role)
  BY <1>1, <1>5 DEF DeleteGroup, RemoveGroup
<1>6. CASE UNCHANGED vars
  BY <1>1, <1>6 DEF vars
<1>. QED
  BY <1>2, <1>3, <1>4, <1>5, <1>6 DEF Next

LEMMA OneRoleStep ==
    ASSUME TypeOK, AddedHaveNone, OneRole, "addAccess" \notin Ops, [Next]_vars
    PROVE  OneRole'
<1>. SUFFICES ASSUME NEW u \in Users
              PROVE  Cardinality(RolesOf(u)') <= 1
  BY DEF OneRole
<1>0. Cardinality(RolesOf(u)) <= 1
  BY DEF OneRole
<1>1. CASE access' \subseteq access
  BY <1>0, <1>1, FewerRoles
<1>2. ASSUME NEW r \in Requests, Insert(r)
      PROVE  Cardinality(RolesOf(u)') <= 1
  <2>1. CASE req[r].member = u
    <3>1. RolesOf(u)' \subseteq {req[r].role}
      BY <1>2, <2>1 DEF Insert, AddedHaveNone, RolesOf
    <3>. QED
      BY <3>1, AtMostOne
  <2>2. CASE req[r].member # u
    <3>1. RolesOf(u)' \subseteq RolesOf(u)
      BY <1>2, <2>2 DEF Insert, RolesOf
    <3>2. RolesOf(u)' = RolesOf(u)
      BY <1>2, <2>2, <3>1 DEF Insert, RolesOf
    <3>. QED
      BY <1>0, <3>2
  <2>. QED
    BY <2>1, <2>2
<1>3. ASSUME NEW r \in Requests, Change(r), ~(access' \subseteq access)
      PROVE  Cardinality(RolesOf(u)') <= 1
  <2>1. access' = {x \in access : x[1] # req[r].member}
                     \cup {<<req[r].member, req[r].new>>}
    BY <1>3 DEF Change
  <2>2. CASE req[r].member = u
    <3>1. RolesOf(u)' \subseteq {req[r].new}
      BY <2>1, <2>2 DEF RolesOf
    <3>. QED
      BY <3>1, AtMostOne
  <2>3. CASE req[r].member # u
    <3>1. RolesOf(u)' = RolesOf(u)
      BY <2>1, <2>3 DEF RolesOf
    <3>. QED
      BY <1>0, <3>1
  <2>. QED
    BY <2>2, <2>3
<1>4. ASSUME NEW r \in Requests,
             Call(r) \/ CountUsers(r) \/ CountGroups(r) \/ Remove(r) \/ Unlink(r)
                \/ DeleteMember(r) \/ DeleteRoleRow(r)
      PROVE  access' \subseteq access
  BY <1>4 DEF Call, AddUser, AddGroup, RemoveUser, ChangeRole, DeleteUser, DeleteRole,
              CountUsers, CountGroups, Remove, Unlink, DeleteMember, DeleteRoleRow
<1>5. ~ \E M \in SUBSET Members \ {{}}, role \in Roles : AddAccess(M, role)
  BY DEF AddAccess, Once
<1>6. CASE \E m \in Groups : DeleteGroup(m) \/ \E role \in Roles : RemoveGroup(m, role)
  BY <1>1, <1>6 DEF DeleteGroup, RemoveGroup
<1>7. CASE UNCHANGED vars
  BY <1>1, <1>7 DEF vars
<1>. QED
  BY <1>1, <1>2, <1>3, <1>4, <1>5, <1>6, <1>7 DEF Next, Continue

\* "User already has access to project": a user has one role in the project,
\* whatever sequence of requests comes, one at a time and without addAccess.
THEOREM OneRoleEach ==
    ASSUME OneAtATime, "addAccess" \notin Ops
    PROVE  Spec => []OneRole
<1>1. Init => AddedHaveNone
  BY DEF Init, AddedHaveNone, At, Idle
<1>2. Init => OneRole
  <2>. SUFFICES ASSUME Init, NEW u \in Users
                PROVE  Cardinality(RolesOf(u)) <= 1
    BY DEF OneRole
  <2>1. RolesOf(u) \subseteq {Owner}
    BY DEF Init, RolesOf
  <2>. QED
    BY <2>1, AtMostOne
<1>3. TypeOK /\ AddedHaveNone /\ [Next]_vars => AddedHaveNone'
  BY AddedStep
<1>4. TypeOK /\ AddedHaveNone /\ OneRole /\ [Next]_vars => OneRole'
  BY OneRoleStep
<1>. QED
  BY <1>1, <1>2, <1>3, <1>4, AccessTypeCorrect, PTL DEF Spec

-----------------------------------------------------------------------------
(* A role that a user has is not deleted, as long as nobody is given it     *)
(* while it is deleted.                                                    *)

\* A request is about to give its member the role.
Gives(r, role) ==
    \/ At(r, "insert") /\ req[r].role = role
    \/ At(r, "change") /\ req[r].new = role

DeletedAlone ==
    \A r, q \in Requests : At(r, "deleteRole") => ~Gives(q, req[r].role)

\* What deleteRole has found is still so when it deletes.
DeletedNotInUse ==
    \A r \in Requests : At(r, "deleteRole") =>
        \A x \in access : x[1] \in Users => x[2] # req[r].role

LEMMA NoHolder ==
    ASSUME TypeOK, NEW role, NotInUse(role), NEW x \in access, x[1] \in Users
    PROVE  x[2] # role
<1>1. x = <<x[1], x[2]>> /\ x[1] \in Members
  BY DEF TypeOK
<1>2. x[2] = role => x[1] \in HoldersOf(role) \cap Users
  BY <1>1 DEF HoldersOf
<1>. QED
  BY <1>2 DEF NotInUse

LEMMA AccessGrows ==
    ASSUME TypeOK, [Next]_vars, NEW x \in access', x \notin access
    PROVE  \/ \E q \in Requests : Gives(q, x[2])
           \/ \E M \in SUBSET Members \ {{}}, role \in Roles : AddAccess(M, role)
<1>1. ASSUME NEW r \in Requests, Insert(r)
      PROVE  Gives(r, x[2])
  BY <1>1 DEF Insert, Gives
<1>2. ASSUME NEW r \in Requests, Change(r)
      PROVE  Gives(r, x[2])
  BY <1>2 DEF Change, Gives
<1>3. ASSUME NEW r \in Requests,
             Call(r) \/ CountUsers(r) \/ CountGroups(r) \/ Remove(r) \/ Unlink(r)
                \/ DeleteMember(r) \/ DeleteRoleRow(r)
      PROVE  access' \subseteq access
  BY <1>3 DEF Call, AddUser, AddGroup, RemoveUser, ChangeRole, DeleteUser, DeleteRole,
              CountUsers, CountGroups, Remove, Unlink, DeleteMember, DeleteRoleRow
<1>4. CASE \E m \in Groups : DeleteGroup(m) \/ \E role \in Roles : RemoveGroup(m, role)
  BY <1>4 DEF DeleteGroup, RemoveGroup
<1>5. CASE UNCHANGED vars
  BY <1>5 DEF vars
<1>. QED
  BY <1>1, <1>2, <1>3, <1>4, <1>5 DEF Next, Continue

\* Only deleteRole comes to its statement, after its check.
LEMMA ToDeleteRole ==
    ASSUME TypeOK, [Next]_vars, NEW q \in Requests, req'[q].at = "deleteRole"
    PROVE  \/ req'[q] = req[q]
           \/ \A x \in access' : x[1] \in Users => x[2] # req'[q].role
<1>1. ASSUME NEW r \in Requests, r # q, Call(r) \/ Continue(r)
      PROVE  req'[q] = req[q]
  BY <1>1 DEF TypeOK, Call, Continue, Begin, Goto, Finish, AddUser, AddGroup, RemoveUser,
              ChangeRole, DeleteUser, DeleteRole, Insert, CountUsers, CountGroups, Remove,
              Change, Unlink, DeleteMember, DeleteRoleRow
<1>2. CASE \E role \in Roles : DeleteRole(q, role)
  <2>. PICK role \in Roles : DeleteRole(q, role)
    BY <1>2
  <2>1. NotInUse(role) /\ req'[q].role = role /\ access' = access
    BY DEF DeleteRole, TypeOK, Begin
  <2>2. \A x \in access : x[1] \in Users => x[2] # role
    BY <2>1, NoHolder
  <2>. QED
    BY <2>1, <2>2
<1>3. CASE Call(q) /\ ~ \E role \in Roles : DeleteRole(q, role)
  <2>1. CASE \E m \in Members, role \in Roles : AddUser(q, m, role)
    BY <2>1 DEF TypeOK, AddUser, Begin
  <2>2. CASE \E m \in Members, role \in Roles : AddGroup(q, m, role)
    BY <2>2 DEF TypeOK, AddGroup, Begin
  <2>3. CASE \E m \in Members, role \in Roles : RemoveUser(q, m, role)
    BY <2>3 DEF TypeOK, RemoveUser, ValidateOwner, Begin
  <2>4. CASE \E m \in Members, role, new \in Roles : ChangeRole(q, m, role, new)
    BY <2>4 DEF TypeOK, ChangeRole, ValidateOwner, Begin
  <2>5. CASE \E m \in Members : DeleteUser(q, m)
    BY <2>5 DEF TypeOK, DeleteUser, Begin
  <2>. QED
    BY <1>3, <2>1, <2>2, <2>3, <2>4, <2>5 DEF Call
<1>4. CASE Continue(q)
  <2>1. CASE CountUsers(q)
    BY <2>1 DEF TypeOK, CountUsers, Request
  <2>2. CASE CountGroups(q)
    <3>1. \/ Goto(q, IF req[q].op = "removeUser" THEN "remove" ELSE "change")
          \/ Finish(q)
      BY <2>2 DEF CountGroups
    <3>2. req'[q].at \in {"remove", "change", "idle"}
      BY <3>1 DEF TypeOK, Request, Goto, Finish, Idle
    <3>. QED
      BY <3>2
  <2>3. CASE Unlink(q)
    BY <2>3 DEF TypeOK, Unlink, Goto, Request
  <2>4. CASE Insert(q) \/ Remove(q) \/ Change(q) \/ DeleteMember(q) \/ DeleteRoleRow(q)
    BY <2>4 DEF TypeOK, Insert, Remove, Change, DeleteMember, DeleteRoleRow, Finish, Idle
  <2>. QED
    BY <1>4, <2>1, <2>2, <2>3, <2>4 DEF Continue
<1>5. CASE \/ \E M \in SUBSET Members \ {{}}, role \in Roles : AddAccess(M, role)
           \/ \E m \in Groups : DeleteGroup(m) \/ \E role \in Roles : RemoveGroup(m, role)
           \/ UNCHANGED vars
  BY <1>5 DEF AddAccess, DeleteGroup, RemoveGroup, vars
<1>. QED
  BY <1>1, <1>2, <1>3, <1>4, <1>5 DEF Next

LEMMA NotInUseStep ==
    ASSUME TypeOK, DeletedNotInUse, DeletedAlone, OneAtATime \/ "addAccess" \notin Ops,
           [Next]_vars
    PROVE  DeletedNotInUse'
<1>. SUFFICES ASSUME NEW q \in Requests, req'[q].at = "deleteRole"
              PROVE  \A x \in access' : x[1] \in Users => x[2] # req'[q].role
  BY DEF DeletedNotInUse, At
<1>1. CASE req'[q] = req[q]
  <2>1. /\ \A x \in access : x[1] \in Users => x[2] # req[q].role
        /\ \A p \in Requests : ~Gives(p, req[q].role)
    BY <1>1 DEF DeletedNotInUse, DeletedAlone, At
  <2>2. ~ \E M \in SUBSET Members \ {{}}, role \in Roles : AddAccess(M, role)
    BY <1>1 DEF AddAccess, Once, OneAtATime, Idle
  <2>3. \A x \in access' : x[2] = req[q].role => x \in access
    BY <2>1, <2>2, AccessGrows
  <2>. QED
    BY <1>1, <2>1, <2>3
<1>. QED
  BY <1>1, ToDeleteRole

\* "You cannot delete a role that is in use without first removing the role
\* from the users": no user loses a role because it is deleted, as long as no
\* request gives a member the role between the check of deleteRole and its
\* delete.  (addAccess gives roles in a single statement; without it, any other
\* requests may interleave.)
THEOREM RoleInUseKept ==
    ASSUME OneAtATime \/ "addAccess" \notin Ops
    PROVE  Spec /\ []DeletedAlone => RoleInUseStays
<1>1. Init => DeletedNotInUse
  BY DEF Init, DeletedNotInUse, At, Idle
<1>2. TypeOK /\ DeletedNotInUse /\ DeletedAlone /\ [Next]_vars => DeletedNotInUse'
  BY NotInUseStep
<1>3. TypeOK /\ DeletedNotInUse /\ [Next]_vars
         => [\A x \in access : x[1] \in Users => x[2] \in roles']_vars
  <2>. SUFFICES ASSUME TypeOK, DeletedNotInUse, [Next]_vars, ~UNCHANGED vars,
                       NEW x \in access, x[1] \in Users
                PROVE  x[2] \in roles'
    OBVIOUS
  <2>0. x[1] \in members /\ x[2] \in roles /\ x = <<x[1], x[2]>> /\ x[1] \in Members
    BY DEF TypeOK
  <2>1. ASSUME NEW r \in Requests, DeleteRoleRow(r)
        PROVE  x[2] \in roles'
    <3>1. x[2] # req[r].role
      BY <2>1 DEF DeleteRoleRow, DeletedNotInUse
    <3>. QED
      BY <2>0, <2>1, <3>1 DEF DeleteRoleRow
  <2>2. ASSUME ~ \E r \in Requests : DeleteRoleRow(r)
        PROVE  roles' = roles
    BY <2>2 DEF Next, vars, Call, Continue, AddUser, AddGroup, RemoveUser, ChangeRole,
                DeleteUser, DeleteRole, Insert, CountUsers, CountGroups, Remove, Change,
                Unlink, DeleteMember, AddAccess, RemoveGroup, DeleteGroup
  <2>. QED
    BY <2>0, <2>1, <2>2
<1>. QED
  BY <1>1, <1>2, <1>3, AccessTypeCorrect, PTL DEF Spec, RoleInUseStays
=============================================================================
