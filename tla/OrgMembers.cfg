CONSTANTS
    owner = owner
    admin = admin
    staff = staff
    foreign = foreign
    u1 = u1
    u2 = u2
    u3 = u3
    i1 = i1
    i2 = i2
    RoleIds <- ThreeRolesAndForeign
    OrgRoles <- ThreeRoles
    roleCapabilities <- ForeignCapabilities
    TtlElevated = 1
    TtlStandard = 2
    Kinds = {"updateRole", "revoke", "leave"}
    Users = {u1, u2, u3}
    Founder = u1
    OwnerRole = owner
    InvIds = {i1, i2}
    MaxGen = 1
    PendingCap = 1
    MaxTime = 1
    Requests = {r1, r2}
    NoRequest = none
    MaxLag = 1
SPECIFICATION TeamSpec
SYMMETRY RequestSymmetry
INVARIANTS TypeOK OwnerRemains ScreenHonest
PROPERTIES OwnershipNeedsOwner
