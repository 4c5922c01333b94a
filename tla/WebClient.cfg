CONSTANTS
    MaxCalls = 2
    Kinds = {"profile", "rename", "accept", "changePassword", "logoutAll"}
    Orgs = {a, b}
    Links = {k}
    None = None
    Boot = Boot
    MaxSessions = 2
    MaxEvents = 4
SPECIFICATION FairSpec
INVARIANTS AtMostOnce ShowsItsOwnOrg InviteStaysOnTrail
PROPERTIES SignedOutForAReason Settles
CHECK_DEADLOCK FALSE
