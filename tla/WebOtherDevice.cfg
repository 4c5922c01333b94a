CONSTANTS
    MaxCalls = 2
    Kinds = {"profile", "rename", "accept", "changePassword", "logoutAll"}
    Orgs = {a, b}
    Links = {k}
    None = None
    Boot = Boot
    MaxSessions = 2
    MaxEvents = 4
SPECIFICATION Spec
PROPERTY OtherDeviceOnly
CHECK_DEADLOCK FALSE
