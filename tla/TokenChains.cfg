CONSTANTS
    Kinds = {"login", "rotate", "logoutAll"}
    Tokens = {t1, t2, t3}
    None = None
    Requests = {r1, r2}
    REFRESH_TOKEN_TTL = 1
    FAMILY_LIFETIME = 2
    REUSE_LEEWAY = 1
    LIVE_FAMILY_CAP = 2
    MaxTime = 3
    MaxLag = 1
SPECIFICATION Spec
SYMMETRY Symmetry
INVARIANTS TypeOK SessionShape RetryNeverBurns
PROPERTIES NoSuccessorOfRevoked KeepsTheBook
