CONSTANTS
    owner = owner
    staff = staff
    boss = boss
    clerk = clerk
    o1 = o1
    o2 = o2
    RoleIds <- TwoRoles
    OrgRoles <- TwoRoles
    roleCapabilities <- TwoCapabilities
    TtlElevated = 1
    TtlStandard = 1
    Kinds = {"signup", "login", "change", "reset"}
    Users = {boss, clerk}
    Clients = {clerk}
    Orgs = {o1, o2}
    Passwords = {p, q, weak}
    Weak = {weak}
    SessionIds = {s1, s2}
    None = None
    Requests = {r1, r2}
    MemberInit <- Founded
    Moving <- Joining
    MaxChanges = 2
SPECIFICATION Spec
SYMMETRY Symmetry
INVARIANTS  ResetSeesMemberships
