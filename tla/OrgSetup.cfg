CONSTANTS
    Users = {1, 2}
    OrgIds = {1, 2, 3}
    Creators = {1}
    BusyOrgs = {1}
    RealNumbers <- Issued
    Requests = {r1, r2}
    Kinds = {"create", "myOrganizations", "members", "get", "patch", "put", "reveal"}
    MAX_ORGS_PER_USER = 1
    PageSize = 1
    TaxBodies <- Bodies
    NewOrgs <- NewShops
    Patches <- ProfilePatches
    Timezones <- Zones
    MaxTime = 1
    MaxWrites = 1
    None = None
SPECIFICATION Spec
SYMMETRY Symmetry
INVARIANTS CapNearlyHolds ShopsWhole ListingExact ViewWithinRights ReadsOwnWrite TyposCaught
