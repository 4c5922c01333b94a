CONSTANTS
    owner = owner
    staff = staff
    alice = alice
    bob = bob
    shop = shop
    other = other
    ghost = ghost
    m1 = m1
    m2 = m2
    l1 = l1
    u1 = u1
    free = free
    RoleIds <- TwoRoles
    OrgRoles <- TwoRoles
    roleCapabilities <- TwoCapabilities
    TtlElevated = 1
    TtlStandard = 1
    Users = {alice, bob}
    Orgs = {shop, other, ghost}
    Ids = {m1, m2, l1, u1, free}
    None = None
    Malformed = Malformed
    Refused = Refused
    Requests = {r1, r2}
    Routes <- Registered
    Calls <- AllCalls
    Queries <- AllQueries
    RowInit <- Table
    MemberInit <- Members
    Moving <- Joining
    MaxChanges = 1
    MaxQueries = 1
CHECK_DEADLOCK FALSE
SPECIFICATION Spec
SYMMETRY Symmetry
INVARIANTS  ServedAsDeclared SameRefusal
PROPERTIES LedgerAppendOnly
