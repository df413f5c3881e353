SPECIFICATION Spec
CONSTANTS
    u1 = u1
    u2 = u2
    u3 = u3
    g1 = g1
    r1 = r1
    r2 = r2
    Users = {u1, u2, u3}
    Groups = {g1}
    Owner = Owner
    CustomRoles = {editor, viewer}
    Requests = {r1}
    Ops <- SerialOps
    None = None
SYMMETRY Symmetry
INVARIANT OneRole
PROPERTIES
    KeepsOwner
    RoleInUseStays
