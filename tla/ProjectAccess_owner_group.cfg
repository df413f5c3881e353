SPECIFICATION Spec
CONSTANTS
    u1 = u1
    u2 = u2
    u3 = u3
    g1 = g1
    r1 = r1
    r2 = r2
    Users = {u1}
    Groups = {g1}
    Owner = Owner
    CustomRoles = {editor}
    Requests = {r1}
    Ops = {"addGroup", "removeUser", "removeGroup"}
    None = None
PROPERTY KeepsOwner
