--------------------------- MODULE RefreshTokens ---------------------------
(***************************************************************************)
(* The refresh tokens of one user: RefreshTokenService of apps/api and the *)
(* pure decisions of packages/core-domain/src/auth it executes.            *)
(*                                                                         *)
(* Transactions run at READ COMMITTED, statement by statement.  Two facts  *)
(* about PostgreSQL matter: SELECT ... FOR UPDATE and an UPDATE wait for   *)
(* the row locks of others, and an UPDATE only considers the rows that were *)
(* committed when it started, testing its condition again on a row it had  *)
(* to wait for.  Nothing else serializes these requests.                   *)
(***************************************************************************)
EXTENDS Integers, FiniteSets

CONSTANTS
    Kinds,              \* the operations clients call
    Tokens,             \* token ids (a bound on the tokens minted)
    None,               \* a null rotatedFrom
    Requests,           \* request slots of the API process
    REFRESH_TOKEN_TTL,  \* 60 days, in ticks; slides
    FAMILY_LIFETIME,    \* 90 days, in ticks; inherited
    REUSE_LEEWAY,       \* 60 seconds, in ticks
    LIVE_FAMILY_CAP,    \* 20 sessions
    MaxTime,            \* bound on the clock
    MaxLag              \* ticks one request can last (transaction timeout)

AllKinds == {"login", "rotate", "logout", "logoutAll", "changePassword"}

ASSUME TokensAssumption ==
    /\ Kinds \subseteq AllKinds
    /\ None \notin Tokens
    /\ REFRESH_TOKEN_TTL \in Nat \ {0} /\ FAMILY_LIFETIME \in Nat \ {0}
    /\ REUSE_LEEWAY \in Nat /\ LIVE_FAMILY_CAP \in Nat \ {0}
    /\ MaxTime \in Nat /\ MaxLag \in Nat /\ MaxLag <= REUSE_LEEWAY

VARIABLES
    tokens,     \* committed rows of table RefreshToken: id -> row
    clock,
    req         \* what every request slot is doing

vars == <<tokens, clock, req>>

NoTime == -1
Time == Nat

\* A session is a family: the chain that starts at a login.  Its fresh random
\* familyId is rendered as the id of its first token.
Row ==
    [familyId : Tokens, rotatedFrom : Tokens \union {None}, createdAt : Time,
     expiresAt : Time, familyExpiresAt : Time, revokedAt : Time \union {NoTime}]

\* What the clients ask for: log in, refresh, log out one session, log out all,
\* change the password presenting a token (None: no token came along).
Ops ==
    [kind : Kinds \intersect {"login", "logoutAll"}]
    \union [kind : Kinds \intersect {"rotate"}, token : Tokens]
    \union [kind : Kinds \intersect {"logout"}, familyId : Tokens]
    \union [kind : Kinds \intersect {"changePassword"}, token : Tokens \union {None}]

-----------------------------------------------------------------------------
\* Reads.

SuccessorsOf(t) == {s \in DOMAIN tokens : tokens[s].rotatedFrom = t}

Live(t, now) ==
    /\ tokens[t].revokedAt = NoTime
    /\ tokens[t].expiresAt > now
    /\ tokens[t].familyExpiresAt > now

\* The data model's current token: live and not rotated.
Current(t, now) == t \in DOMAIN tokens /\ Live(t, now) /\ SuccessorsOf(t) = {}

\* The live sessions, each with the date the session list and the cap use: the
\* earliest createdAt among its live rows.
liveFamilies(now) ==
    {tokens[t].familyId : t \in {u \in DOMAIN tokens : Live(u, now)}}

createdAtOf(f, now) ==
    LET dates == {tokens[t].createdAt :
                    t \in {u \in DOMAIN tokens : tokens[u].familyId = f /\ Live(u, now)}}
    IN  CHOOSE d \in dates : \A e \in dates : d <= e

\* The family to revoke before a login mints: none below the cap, else the
\* oldest.  Ties are broken by the random familyId, so by any choice.
decideFamilyCap(now) ==
    IF Cardinality(liveFamilies(now)) < LIVE_FAMILY_CAP THEN {}
    ELSE {f \in liveFamilies(now) :
            \A g \in liveFamilies(now) : createdAtOf(f, now) <= createdAtOf(g, now)}

\* Mutant: no leeway for a repeated request.
decideReuseStrict(now, row, successor) ==
    IF row.familyExpiresAt <= now THEN "REJECT_EXPIRED"
    ELSE IF row.revokedAt # NoTime THEN "REVOKE_FAMILY"
    ELSE IF row.expiresAt <= now THEN "REJECT_EXPIRED"
    ELSE IF successor = {} THEN "ALLOW_ROTATE"
    ELSE "REVOKE_FAMILY"

\* Mutant: a revoked token is judged like any other.
decideReuseForgiving(now, row, successor) ==
    IF row.familyExpiresAt <= now \/ row.expiresAt <= now THEN "REJECT_EXPIRED"
    ELSE IF successor = {} THEN "ALLOW_ROTATE"
    ELSE IF \E s \in successor : s.isCurrent /\ now - s.createdAt <= REUSE_LEEWAY
         THEN "REJECT_BENIGN_RETRY"
    ELSE "REVOKE_FAMILY"

\* successor: empty, or the facts about the one row rotated from this one.
decideReuse(now, row, successor) ==
    IF row.familyExpiresAt <= now THEN "REJECT_EXPIRED"
    ELSE IF row.revokedAt # NoTime THEN "REVOKE_FAMILY"
    ELSE IF row.expiresAt <= now THEN "REJECT_EXPIRED"
    ELSE IF successor = {} THEN "ALLOW_ROTATE"
    ELSE IF \E s \in successor : s.isCurrent /\ now - s.createdAt <= REUSE_LEEWAY
         THEN "REJECT_BENIGN_RETRY"
    ELSE "REVOKE_FAMILY"

-----------------------------------------------------------------------------
\* Requests.
\*
\*   login:   count --> [revoke --> revoking -->] mint
\*   rotate:  lock --> locked --> read --> mint | revoke --> revoking | refused
\*   others:  revoke --> revoking

NoOp == [kind |-> "none"]

Idle ==
    [pc |-> "idle", op |-> NoOp, now |-> 0, fresh |-> FALSE, successor |-> {},
     scope |-> {}, rows |-> {}]

Pcs == {"idle", "count", "lock", "locked", "read", "mint", "revoke", "revoking"}

SuccessorRead == [id : Tokens, createdAt : Time, revoked : BOOLEAN]

RequestState ==
    [pc : Pcs, op : Ops \union {NoOp}, now : Time,
     fresh : BOOLEAN,                            \* history: token current on arrival
     successor : SUBSET SuccessorRead,
     scope : SUBSET Tokens,                      \* families the UPDATE names
     rows : SUBSET Tokens]                       \* rows it found when it started

\* A rotation keeps the presented row locked from LockRow to its end.
Holds(r, t) ==
    /\ req[r].pc \in {"locked", "read", "mint", "revoke", "revoking"}
    /\ req[r].op.kind = "rotate" /\ req[r].op.token = t

LockedByOther(r, t) == \E q \in Requests \ {r} : Holds(q, t)

Init ==
    /\ tokens = [t \in {} |-> {}]
    /\ clock = 0
    /\ req = [r \in Requests |-> Idle]

\* The session a password change spares: that of the presented token, if live.
spared(token) ==
    {tokens[t].familyId : t \in {u \in DOMAIN tokens : u = token /\ Live(u, clock)}}

\* What the controllers resolve before the service's own statements.
scopeOf(o) ==
    CASE o.kind = "logout"         -> {o.familyId}
      [] o.kind = "logoutAll"      -> Tokens
      [] o.kind = "changePassword" -> Tokens \ spared(o.token)
      [] OTHER                     -> {}

entryPc(o) ==
    CASE o.kind = "login" -> "count" [] o.kind = "rotate" -> "lock" [] OTHER -> "revoke"

\* Clients only present tokens and name sessions that were handed out; anything
\* else is refused without a write.
Known(o) ==
    /\ o.kind = "rotate" => o.token \in DOMAIN tokens
    /\ o.kind = "logout" => \E t \in DOMAIN tokens : tokens[t].familyId = o.familyId
    /\ o.kind = "changePassword" => o.token \in DOMAIN tokens \union {None}

Arrive(r, o) ==
    /\ req[r].pc = "idle"
    /\ Known(o)
    /\ req' = [req EXCEPT ![r] =
                 [Idle EXCEPT !.pc = entryPc(o), !.op = o, !.now = clock,
                              !.fresh = o.kind = "rotate" /\ Current(o.token, clock),
                              !.scope = scopeOf(o)]]
    /\ UNCHANGED <<tokens, clock>>

\* Mutant: every session that is as old as the oldest is evicted.
CountFamiliesTied(r) ==
    /\ req[r].pc = "count"
    /\ req' = [req EXCEPT ![r].pc = IF decideFamilyCap(req[r].now) = {} THEN "mint" ELSE "revoke",
                          ![r].scope = decideFamilyCap(req[r].now)]
    /\ UNCHANGED <<tokens, clock>>

\* issueOnLogin counts the live sessions.
CountFamilies(r) ==
    /\ req[r].pc = "count"
    /\ \/ /\ decideFamilyCap(req[r].now) = {}
          /\ req' = [req EXCEPT ![r].pc = "mint"]
       \/ \E f \in decideFamilyCap(req[r].now) :
             req' = [req EXCEPT ![r].pc = "revoke", ![r].scope = {f}]
    /\ UNCHANGED <<tokens, clock>>

\* Mutant: the presented row is read without FOR UPDATE.
ReadRow(r) ==
    /\ req[r].pc = "lock"
    /\ req' = [req EXCEPT ![r].pc = "locked"]
    /\ UNCHANGED <<tokens, clock>>

\* SELECT ... FOR UPDATE on the presented row.
LockRow(r) ==
    /\ req[r].pc = "lock"
    /\ ~LockedByOther(r, req[r].op.token)
    /\ req' = [req EXCEPT ![r].pc = "locked"]
    /\ UNCHANGED <<tokens, clock>>

\* The row rotated from the presented one, if there is one.
ReadSuccessor(r) ==
    /\ req[r].pc = "locked"
    /\ req' = [req EXCEPT ![r].pc = "read",
                          ![r].successor =
                              {[id |-> s, createdAt |-> tokens[s].createdAt,
                                revoked |-> tokens[s].revokedAt # NoTime] :
                                 s \in SuccessorsOf(req[r].op.token)}]
    /\ UNCHANGED <<tokens, clock>>

\* The grandchild is a read of its own; with it the decision is complete.
reuseAction(r) ==
    decideReuse(req[r].now, tokens[req[r].op.token],
        {[createdAt |-> s.createdAt, isCurrent |-> ~s.revoked /\ SuccessorsOf(s.id) = {}] :
            s \in req[r].successor})

\* Mutant: a refused rotation is tried again on the server.
DecideRetries(r) ==
    /\ req[r].pc = "read"
    /\ req' = [req EXCEPT ![r].successor = {},
                          ![r].pc = CASE reuseAction(r) = "ALLOW_ROTATE"  -> "mint"
                                      [] reuseAction(r) = "REVOKE_FAMILY" -> "revoke"
                                      [] OTHER -> "lock"]
    /\ UNCHANGED <<tokens, clock>>

\* Mutant: an answer that is neither is not handled.
DecideFallsThrough(r) ==
    /\ req[r].pc = "read"
    /\ req' = [req EXCEPT ![r].pc = CASE reuseAction(r) = "ALLOW_ROTATE"  -> "mint"
                                      [] reuseAction(r) = "REVOKE_FAMILY" -> "revoke"
                                      [] OTHER -> reuseAction(r)]
    /\ UNCHANGED <<tokens, clock>>

Decide(r) ==
    /\ req[r].pc = "read"
    /\ req' = [req EXCEPT ![r] =
                 IF reuseAction(r) = "ALLOW_ROTATE" THEN [@ EXCEPT !.pc = "mint"]
                 ELSE IF reuseAction(r) = "REVOKE_FAMILY"
                 THEN [@ EXCEPT !.pc = "revoke",
                                !.scope = {tokens[req[r].op.token].familyId}]
                 ELSE Idle]
    /\ UNCHANGED <<tokens, clock>>

-----------------------------------------------------------------------------
\* Writes.  What a transaction wrote is visible when it commits.

Insert(table, id, row) ==
    [t \in DOMAIN table \union {id} |-> IF t = id THEN row ELSE table[t]]

\* The dates of a token minted by a request that came in at now; createdAt is
\* set by the database, any time until the commit.
newToken(family, from, familyEnd, now, createdAt) ==
    [familyId |-> family, rotatedFrom |-> from, createdAt |-> createdAt,
     expiresAt |-> now + REFRESH_TOKEN_TTL, familyExpiresAt |-> familyEnd,
     revokedAt |-> NoTime]

successorOf(t, now, createdAt) ==
    newToken(tokens[t].familyId, t, tokens[t].familyExpiresAt, now, createdAt)

newRow(r, id, createdAt) ==
    IF req[r].op.kind = "rotate" THEN successorOf(req[r].op.token, req[r].now, createdAt)
    ELSE newToken(id, None, req[r].now + FAMILY_LIFETIME, req[r].now, createdAt)

\* INSERT and commit, on top of what the same transaction revoked.
InsertInto(r, table) ==
    \E id \in Tokens \ DOMAIN tokens : \E createdAt \in req[r].now .. clock :
        tokens' = Insert(table, id, newRow(r, id, createdAt))

Mint(r) ==
    /\ req[r].pc = "mint"
    /\ InsertInto(r, tokens)
    /\ req' = [req EXCEPT ![r] = Idle]
    /\ UNCHANGED clock

\* An updateMany starts: these rows are in its snapshot.  A statement of its own
\* reads the clock for its date, the transactions of a login and of a rotation
\* use the time the request came in.
StartRevoke(r) ==
    /\ req[r].pc = "revoke"
    /\ req' = [req EXCEPT ![r].pc = "revoking",
                          ![r].now = IF req[r].op.kind \in {"login", "rotate"} THEN @ ELSE clock,
                          ![r].rows = {t \in DOMAIN tokens :
                                         /\ tokens[t].familyId \in req[r].scope
                                         /\ tokens[t].revokedAt = NoTime}]
    /\ UNCHANGED <<tokens, clock>>

\* The condition is tested again on a row that had to be waited for.
revoked(r) ==
    [t \in DOMAIN tokens |->
        IF t \in req[r].rows /\ tokens[t].revokedAt = NoTime
        THEN [tokens[t] EXCEPT !.revokedAt = req[r].now] ELSE tokens[t]]

\* It ends when no other transaction holds one of its rows; the login that made
\* room for itself mints in the same transaction.
FinishRevoke(r) ==
    /\ req[r].pc = "revoking"
    /\ \A t \in req[r].rows : ~LockedByOther(r, t)
    /\ IF req[r].op.kind = "login" THEN InsertInto(r, revoked(r))
       ELSE tokens' = revoked(r)
    /\ req' = [req EXCEPT ![r] = Idle]
    /\ UNCHANGED clock

\* Transaction timeout, deadlock victim, lost connection or crash.
Abort(r) ==
    /\ req[r].pc # "idle"
    /\ req' = [req EXCEPT ![r] = Idle]
    /\ UNCHANGED <<tokens, clock>>

PassTime ==
    /\ clock < MaxTime
    /\ \A r \in Requests : req[r].pc # "idle" => clock - req[r].now < MaxLag
    /\ clock' = clock + 1
    /\ UNCHANGED <<tokens, req>>

Step(r) ==
    \/ CountFamilies(r) \/ LockRow(r) \/ ReadSuccessor(r) \/ Decide(r)
    \/ Mint(r) \/ StartRevoke(r) \/ FinishRevoke(r) \/ Abort(r)

Next ==
    \/ \E r \in Requests : Step(r) \/ \E o \in Ops : Arrive(r, o)
    \/ PassTime

Spec == Init /\ [][Next]_vars

\* A request in flight goes on until it is answered or its transaction ends.
FairSpec == Spec /\ \A r \in Requests : WF_vars(Step(r))

-----------------------------------------------------------------------------
\* Type correctness of the rows and the requests.
TypeOK ==
    /\ DOMAIN tokens \subseteq Tokens
    /\ tokens \in [DOMAIN tokens -> Row]
    /\ clock \in Time
    /\ req \in [Requests -> RequestState]

\* A session is one chain: it never has two tokens that nothing was rotated
\* from, however many requests present the same token at once.  The unique index
\* on rotatedFrom never has to refuse a row.
OneTipPerFamily ==
    \A s, t \in DOMAIN tokens :
        /\ tokens[s].familyId = tokens[t].familyId
        /\ SuccessorsOf(s) = {} /\ SuccessorsOf(t) = {}
        => s = t

\* Rotating never extends a session past the lifetime fixed at its login, but
\* for the time one request takes.
SessionBounded ==
    \A t \in DOMAIN tokens :
        tokens[t].createdAt <
            tokens[tokens[t].familyId].createdAt + FAMILY_LIFETIME + MaxLag

\* The shape of a session: one chain, within the lifetime of its login.
SessionShape == OneTipPerFamily /\ SessionBounded

\* A request that presented its session's current token (a second tab, a retry
\* of a lost answer) never ends the session when it loses the race, unless the
\* session was revoked or refreshed again meanwhile.
RetryNeverBurns ==
    \A r \in Requests :
        /\ req[r].pc \in {"revoke", "revoking"}
        /\ req[r].op.kind = "rotate" /\ req[r].fresh
        => LET t == req[r].op.token
           IN  \/ tokens[t].revokedAt # NoTime
               \/ \E s \in SuccessorsOf(t) :
                     tokens[s].revokedAt # NoTime \/ SuccessorsOf(s) # {}

\* A token that has been revoked is never rotated, even by a request that read
\* it before the revocation started.
NoSuccessorOfRevoked ==
    [][\A s \in DOMAIN tokens' \ DOMAIN tokens : tokens'[s].rotatedFrom # None =>
          /\ tokens'[s].rotatedFrom \in DOMAIN tokens
          /\ tokens[tokens'[s].rotatedFrom].revokedAt = NoTime]_vars

\* A revocation is final and dated once, whoever revokes again.
RevocationFinal ==
    [][\A t \in DOMAIN tokens :
          tokens[t].revokedAt # NoTime => tokens'[t] = tokens[t]]_vars

\* Every request ends, although revocations wait for rotations and two
\* rotations may wait for each other's rows.
RequestEnds == \A r \in Requests : req[r].pc # "idle" ~> req[r].pc = "idle"

-----------------------------------------------------------------------------
\* The abstract view: a family is a session, its rows after the first its turns,
\* and it is open while the token nothing was rotated from is not revoked.
families == {tokens[t].familyId : t \in DOMAIN tokens}

rowsOf(f) == {t \in DOMAIN tokens : tokens[t].familyId = f}

Book == INSTANCE SessionBook WITH
    book <- [f \in families |->
               [turns |-> Cardinality(rowsOf(f)) - 1,
                open |-> \E t \in rowsOf(f) :
                            SuccessorsOf(t) = {} /\ tokens[t].revokedAt = NoTime,
                until |-> tokens[f].familyExpiresAt]]

\* The rows of the refresh tokens, rotated, evicted and revoked by requests that
\* race each other, keep the book of sessions: no session comes back after its
\* end, none moves its end, a refresh counts once, and a login ends at most the
\* one session it evicts.
KeepsTheBook == Book!Spec
=============================================================================
