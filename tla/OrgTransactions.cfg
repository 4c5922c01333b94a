CONSTANTS
    owner = owner
    admin = admin
    staff = staff
    foreign = foreign
    u1 = u1
    u2 = u2
    u3 = u3
    i1 = i1
    i2 = i2
    RoleIds <- TwoRoles
    OrgRoles <- TwoRoles
    roleCapabilities <- TwoCapabilities
    TtlElevated = 1
    TtlStandard = 2
    Kinds = {"updateRole", "revoke", "leave", "create", "reissueLink", "cancel", "accept"}
    Users = {u1, u2}
    Founder = u1
    OwnerRole = owner
    InvIds = {i1}
    MaxGen = 2
    PendingCap = 1
    MaxTime = 1
    Requests = {r1, r2}
    NoRequest = none
    MaxLag = 1
SPECIFICATION FairSpec
PROPERTIES Serializable Answered
