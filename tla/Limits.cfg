CONSTANTS
    Calls <- ClientCalls
    Accounts = {a1}
    Requests = {r1, r2}
    None = None
    LIMIT = 2
    WINDOW = 2
    DEGRADED_IP_MAX = 1
    BACKOFF_THRESHOLD = 3
    BACKOFF_CEILING = 2
    ACCT_COUNTER_TTL = 2
    MaxCount = 3
    MaxFaults = 1
SPECIFICATION Spec
SYMMETRY Symmetry
INVARIANTS BurstBounded OutageBounded StuckOnlyByFault 
