------------------------------- MODULE Limits -------------------------------
(***************************************************************************)
(* The counters that bound how often the API may be called: checkIp and    *)
(* the account back-off of ThrottleService (apps/api/src/auth) and the     *)
(* OrgRateLimitGuard (apps/api/src/common).  All live in Redis, where each *)
(* command is atomic and a sequence of commands is not: the process, or    *)
(* the connection, can be lost between INCR and EXPIRE.                    *)
(***************************************************************************)
EXTENDS Naturals, FiniteSets, FiniteSetsExt

CONSTANTS
    Calls,              \* calls a limiter counts: [by, addr, user, org]
    Accounts,           \* keys of the account back-off
    Requests,           \* calls the API process serves at a time
    None,
    LIMIT, WINDOW,      \* IP_WINDOW_MAX / rule.limit, IP_WINDOW_SECONDS / rule.windowSec
    DEGRADED_IP_MAX,
    BACKOFF_THRESHOLD, BACKOFF_CEILING, ACCT_COUNTER_TTL,
    MaxCount, MaxFaults \* bounds of the model: a counter; crashes and outages

ASSUME LimitsAssumption ==
    /\ {LIMIT, WINDOW, DEGRADED_IP_MAX, BACKOFF_CEILING, ACCT_COUNTER_TTL,
        BACKOFF_THRESHOLD} \subseteq Nat \ {0}
    /\ {MaxCount, MaxFaults} \subseteq Nat
    /\ None \notin Nat

\* What is no address belongs to no network, and an IPv4 one has a host part.
ASSUME AddressAssumption ==
    \A c \in Calls :
        /\ c.addr.net # None <=> c.addr.form \in {"v4", "mapped", "v6"}
        /\ c.addr.form \in {"v4", "mapped"} => c.addr.host # None

VARIABLES
    redisUp,
    window,     \* window counters: [bucket -> Key]
    failures,   \* failures of an account: [account -> Key]
    degraded,   \* ThrottleService.degraded, in the memory of the process
    req,
    faults,     \* crashes and outages so far
    grants,     \* history: calls of a subscriber Redis admitted: <<ticks ago, number>>
    local       \* history: the same for the process's own counter

vars == <<redisUp, window, failures, degraded, req, faults, grants, local>>

\* A Redis key: its number and the ticks it has left; a key that is not there
\* is Missing, and a key nobody gave an expiry stays.
Missing == [n |-> 0, ttl |-> None]
Key == {Missing} \union [n : 1..MaxCount, ttl : (Nat \ {0}) \union {None}]

\* The ticks of the last window, 0 is now.
Recent == 0..(WINDOW - 1)

-----------------------------------------------------------------------------
\* Mutant: an IPv4 address mapped into IPv6 counts as an address of its own.
clientIpKeyRaw(addr) ==
    CASE addr.form = "v6" -> <<"v6", addr.net>>
      [] addr.form = "other" -> <<"unknown">>
      [] OTHER -> <<addr.form, addr.net, addr.host>>

\* An address as express resolves it: an IPv4 literal, the same mapped into
\* IPv6, an IPv6 address (net: its /64), or text that is no address.
clientIpKey(addr) ==
    CASE addr.form \in {"v4", "mapped"} -> <<"v4", addr.net, addr.host>>
      [] addr.form = "v6" -> <<"v6", addr.net>>
      [] OTHER -> <<"unknown">>

\* The counter a call is counted in, None if the guard cannot name one.
resolveBucket(c) ==
    CASE c.by = "ip" -> <<"i", clientIpKey(c.addr)>>
      [] c.by = "userId" /\ c.user # None -> <<"u", c.user>>
      [] c.by = "organizationId" /\ c.org # None -> <<"o", c.org>>
      [] c.by = "userId+organizationId" /\ c.user # None /\ c.org # None ->
            <<"u", c.user, "o", c.org>>
      [] OTHER -> None

bucketOf(c) == IF c.by = "checkIp" THEN <<"throttle", clientIpKey(c.addr)>>
                                   ELSE resolveBucket(c)

Buckets == {bucketOf(c) : c \in Calls} \ {None}

\* checkIp always finds a counter.
ASSUME BucketAssumption == \A c \in Calls : c.by = "checkIp" => bucketOf(c) # None

\* Who stands behind a call: a household behind one IPv4 address or one /64.
Subscriber(c) ==
    IF c.by \notin {"ip", "checkIp"} THEN <<c.by, c.user, c.org>>
    ELSE <<c.by, c.addr.net, IF c.addr.form = "v6" THEN None ELSE c.addr.host>>

Subscribers == {Subscriber(c) : c \in Calls}

-----------------------------------------------------------------------------
Idle == [pc |-> "idle"]

Fresh == [count |-> 0, age |-> 0]

Init ==
    /\ redisUp = TRUE
    /\ window = [b \in Buckets |-> Missing]
    /\ failures = [a \in Accounts |-> Missing]
    /\ degraded = [b \in Buckets |-> Fresh]
    /\ req = [r \in Requests |-> Idle]
    /\ faults = 0
    /\ grants = [s \in Subscribers |-> {}]
    /\ local = [s \in Subscribers |-> {}]

Incr(key) == [key EXCEPT !.n = @ + 1]
Expire(key, ttl) == IF key = Missing THEN key ELSE [key EXCEPT !.ttl = ttl]

\* One more call admitted in this tick.
Admit(history, s) ==
    LET number == CHOOSE k \in 1..(Cardinality(history[s]) + 1) : <<0, k>> \notin history[s]
    IN [history EXCEPT ![s] = @ \union {<<0, number>>}]

Done(r) == req' = [req EXCEPT ![r] = Idle]
Grant(c) == grants' = Admit(grants, Subscriber(c))
QuotaVars == <<window, degraded, grants, local>>
Around == <<redisUp, faults>>

\* Mutant: the first call of a window is answered without an expiry.
CountOnly(r, c) ==
    LET b == bucketOf(c) IN
    /\ req[r] = Idle /\ redisUp /\ b # None /\ window[b].n < MaxCount
    /\ window' = [window EXCEPT ![b] = Incr(@)]
    /\ \/ window'[b].n \in 1..LIMIT /\ Grant(c) /\ UNCHANGED req
       \/ /\ window'[b].n > LIMIT
          /\ req' = [req EXCEPT ![r] = [pc |-> "ttl", call |-> c]]
          /\ UNCHANGED grants
    /\ UNCHANGED <<Around, failures, degraded, local>>

\* checkIp and consume: INCR, then EXPIRE for the first call of a window, then
\* TTL for a call over the limit (its answer is 429).
Count(r, c) ==
    LET b == bucketOf(c) IN
    /\ req[r] = Idle /\ redisUp /\ b # None /\ window[b].n < MaxCount
    /\ window' = [window EXCEPT ![b] = Incr(@)]
    /\ \/ /\ window'[b].n = 1
          /\ req' = [req EXCEPT ![r] = [pc |-> "expire", call |-> c]]
          /\ UNCHANGED grants
       \/ /\ window'[b].n \in 2..LIMIT
          /\ Grant(c)
          /\ UNCHANGED req
       \/ /\ window'[b].n > 1 /\ window'[b].n > LIMIT
          /\ req' = [req EXCEPT ![r] = [pc |-> "ttl", call |-> c]]
          /\ UNCHANGED grants
    /\ UNCHANGED <<Around, failures, degraded, local>>

StartWindow(r) ==
    /\ req[r].pc = "expire" /\ redisUp
    /\ window' = [window EXCEPT ![bucketOf(req[r].call)] = Expire(@, WINDOW)]
    /\ Grant(req[r].call)
    /\ Done(r)
    /\ UNCHANGED <<Around, failures, degraded, local>>

\* The 429: what is left of the window, or a whole one if Redis has no expiry.
RefuseOverLimit(r) ==
    /\ req[r].pc = "ttl" /\ redisUp
    /\ Done(r)
    /\ UNCHANGED <<Around, failures, QuotaVars>>

\* Mutant: the local window starts again with every call.
FailOpenSliding(r, c) ==
    /\ ~ redisUp
    /\ c.by = "checkIp"
    /\ \/ req[r] = Idle
       \/ req[r].pc \in {"expire", "ttl"} /\ req[r].call = c
    /\ degraded' = [degraded EXCEPT ![bucketOf(c)] = [count |-> 1, age |-> 0]]
    /\ local' = Admit(local, Subscriber(c))
    /\ Done(r)
    /\ UNCHANGED <<Around, failures, window, grants>>

\* Redis cannot be reached, at the first command or a later one: the guard
\* admits; checkIp falls back on the process's own counter (failOpenIp).
FailOpen(r, c) ==
    LET b == bucketOf(c)
        d == degraded[b]
        counted == IF d.count = 0 \/ d.age > WINDOW
                   THEN [count |-> 1, age |-> 0]
                   ELSE [d EXCEPT !.count = @ + 1]
    IN
    /\ ~ redisUp
    /\ c.by = "checkIp"
    /\ \/ req[r] = Idle
       \/ req[r].pc \in {"expire", "ttl"} /\ req[r].call = c
    /\ counted.count <= MaxCount
    /\ degraded' = [degraded EXCEPT ![b] = counted]
    /\ local' = IF counted.count > DEGRADED_IP_MAX THEN local
                ELSE Admit(local, Subscriber(c))
    /\ Done(r)
    /\ UNCHANGED <<Around, failures, window, grants>>

FailOpenGuard(r) ==
    /\ ~ redisUp
    /\ req[r].pc \in {"expire", "ttl"} /\ req[r].call.by # "checkIp"
    /\ Done(r)
    /\ UNCHANGED <<Around, failures, QuotaVars>>

-----------------------------------------------------------------------------
\* The back-off curve of core-domain.
backoffSeconds(n) ==
    IF n < BACKOFF_THRESHOLD THEN 0
    ELSE Min({2 ^ (n - BACKOFF_THRESHOLD), BACKOFF_CEILING})

\* accountRetryAfter, before the credential check: let through when the account is
\* not backed off, and always while Redis is away.  Otherwise 429, and no write.
CheckAccount(r, a) ==
    /\ req[r] = Idle
    /\ redisUp => backoffSeconds(failures[a].n) = 0
    /\ req' = [req EXCEPT ![r] = [pc |-> "verify", acct |-> a]]
    /\ UNCHANGED <<Around, QuotaVars, failures>>

\* onFailure, recordAccountFailure: INCR, and EXPIRE in a command of its own.
RecordFailure(r) ==
    /\ req[r].pc = "verify" /\ failures[req[r].acct].n < MaxCount
    /\ IF redisUp
       THEN /\ failures' = [failures EXCEPT ![req[r].acct] = Incr(@)]
            /\ req' = [req EXCEPT ![r].pc = "acctExpire"]
       ELSE Done(r) /\ UNCHANGED failures
    /\ UNCHANGED <<Around, QuotaVars>>

\* Mutant: the expiry is no longer set once the account is backed off.
ExpireUntilBackedOff(r) ==
    /\ req[r].pc = "acctExpire"
    /\ failures' = IF redisUp /\ failures[req[r].acct].n < BACKOFF_THRESHOLD
                   THEN [failures EXCEPT ![req[r].acct] = Expire(@, ACCT_COUNTER_TTL)]
                   ELSE failures
    /\ Done(r)
    /\ UNCHANGED <<Around, QuotaVars>>

ExpireFailures(r) ==
    /\ req[r].pc = "acctExpire"
    /\ failures' = IF redisUp
                   THEN [failures EXCEPT ![req[r].acct] = Expire(@, ACCT_COUNTER_TTL)]
                   ELSE failures
    /\ Done(r)
    /\ UNCHANGED <<Around, QuotaVars>>

\* onSuccess, clearAccount; a failing DEL is swallowed.
ClearFailures(r) ==
    /\ req[r].pc = "verify"
    /\ failures' = IF redisUp THEN [failures EXCEPT ![req[r].acct] = Missing] ELSE failures
    /\ Done(r)
    /\ UNCHANGED <<Around, QuotaVars>>

-----------------------------------------------------------------------------
\* A tick: keys whose time is over are gone, everything else gets older.
Aged(key) ==
    CASE key.ttl = None -> key
      [] key.ttl = 1 -> Missing
      [] OTHER -> [key EXCEPT !.ttl = @ - 1]

Older(admitted) == {<<e[1] + 1, e[2]>> : e \in {e \in admitted : e[1] + 1 \in Recent}}

PassTime ==
    /\ window' = [b \in Buckets |-> Aged(window[b])]
    /\ failures' = [a \in Accounts |-> Aged(failures[a])]
    /\ degraded' = [b \in Buckets |->
            IF degraded[b].count = 0 \/ degraded[b].age > WINDOW THEN degraded[b]
            ELSE [degraded[b] EXCEPT !.age = @ + 1]]
    /\ grants' = [s \in Subscribers |-> Older(grants[s])]
    /\ local' = [s \in Subscribers |-> Older(local[s])]
    /\ UNCHANGED <<req, redisUp, faults>>

\* Redis can no longer be reached; its keys are kept.
Outage ==
    /\ redisUp /\ faults < MaxFaults
    /\ redisUp' = FALSE
    /\ faults' = faults + 1
    /\ UNCHANGED <<req, QuotaVars, failures>>

Recover ==
    /\ ~ redisUp
    /\ redisUp' = TRUE
    /\ UNCHANGED <<req, faults, QuotaVars, failures>>

\* The API process dies: its calls and its memory are lost.
Crash ==
    /\ faults < MaxFaults
    /\ faults' = faults + 1
    /\ req' = [r \in Requests |-> Idle]
    /\ degraded' = [b \in Buckets |-> Fresh]
    /\ local' = [s \in Subscribers |-> {}]
    /\ UNCHANGED <<redisUp, window, grants, failures>>

Step(r) ==
    \/ StartWindow(r) \/ RefuseOverLimit(r) \/ FailOpenGuard(r)
    \/ RecordFailure(r) \/ ExpireFailures(r) \/ ClearFailures(r)

Next ==
    \/ \E r \in Requests :
          \/ Step(r)
          \/ \E c \in Calls : Count(r, c) \/ FailOpen(r, c)
          \/ \E a \in Accounts : CheckAccount(r, a)
    \/ PassTime \/ Outage \/ Recover \/ Crash

Spec == Init /\ [][Next]_vars

-----------------------------------------------------------------------------
\* Type correctness of the counters, the requests and the histories.
TypeOK ==
    /\ redisUp \in BOOLEAN
    /\ window \in [Buckets -> Key]
    /\ failures \in [Accounts -> Key]
    /\ degraded \in [Buckets -> [count : 0..MaxCount, age : 0..(WINDOW + 1)]]
    /\ req \in [Requests -> {Idle}
            \union [pc : {"expire", "ttl"}, call : Calls]
            \union [pc : {"verify", "acctExpire"}, acct : Accounts]]
    /\ faults \in 0..MaxFaults
    /\ grants \in [Subscribers -> SUBSET (Recent \X Nat)]
    /\ local \in [Subscribers -> SUBSET (Recent \X Nat)]

\* However a subscriber writes its address, and across the edge of a window,
\* Redis admits at most two quotas of calls in any span of one window.
BurstBounded ==
    /\ TypeOK
    /\ \A s \in Subscribers : Cardinality(grants[s]) <= 2 * LIMIT

\* While Redis is away one process still admits at most two local quotas per
\* window (the degraded limiter of checkIp).
OutageBounded == \A s \in Subscribers : Cardinality(local[s]) <= 2 * DEGRADED_IP_MAX

\* Without a crash or an outage no counter stays behind without an expiry:
\* the request that has to set it is still on its way.
StuckOnlyByFault ==
    faults = 0 =>
        /\ \A b \in Buckets : window[b] # Missing /\ window[b].ttl = None =>
              \E r \in Requests : req[r].pc = "expire" /\ bucketOf(req[r].call) = b
        /\ \A a \in Accounts : failures[a] # Missing /\ failures[a].ttl = None =>
              \E r \in Requests : req[r].pc = "acctExpire" /\ req[r].acct = a

\* A back-off never becomes a lock-out: an account that is backed off has an
\* expiry or will get one, whatever was lost before, as long as fewer EXPIREs
\* are lost than it takes failures to be backed off.
BackoffEnds ==
    \A a \in Accounts : backoffSeconds(failures[a].n) > 0 =>
        \/ failures[a].ttl # None
        \/ \E r \in Requests : req[r].pc = "acctExpire" /\ req[r].acct = a

=============================================================================
