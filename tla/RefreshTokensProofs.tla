------------------------ MODULE RefreshTokensProofs ------------------------
(***************************************************************************)
(* Theorems about RefreshTokens, for every set of tokens and requests and  *)
(* every value of the lifetimes, the leeway and the bounds.                *)
(***************************************************************************)
EXTENDS RefreshTokens, FiniteSetTheorems, TLAPS

\* Every chain starts at a row of the table and hangs together.
Rooted ==
    \A t \in DOMAIN tokens :
        /\ tokens[t].familyId \in DOMAIN tokens
        /\ tokens[t].rotatedFrom \in DOMAIN tokens \union {None}

\* A family keeps the end that was fixed at its login.
OneEnd ==
    \A t \in DOMAIN tokens :
        /\ tokens[t].familyExpiresAt = tokens[tokens[t].familyId].familyExpiresAt
        /\ tokens[t].familyExpiresAt <= tokens[tokens[t].familyId].createdAt + FAMILY_LIFETIME

\* No two transactions hold the same row.
RowLocks ==
    \A q, r \in Requests : \A t \in Tokens : Holds(q, t) /\ Holds(r, t) => q = r

\* What a request in flight knows, and may rely on until it commits.
InFlight(r) ==
    req[r].pc # "idle" =>
        /\ req[r].op \in Ops
        /\ req[r].now <= clock /\ clock <= req[r].now + MaxLag
        /\ req[r].pc = "count" => req[r].op.kind = "login"
        /\ req[r].pc \in {"lock", "locked", "read"} => req[r].op.kind = "rotate"
        /\ req[r].pc = "mint" => req[r].op.kind \in {"login", "rotate"}
        /\ req[r].op.kind = "rotate" => req[r].op.token \in DOMAIN tokens

\* The successor that was read is still the successor.
ReadStands(r) ==
    req[r].pc = "read" =>
        /\ req[r].successor = {} => SuccessorsOf(req[r].op.token) = {}
        /\ \A x \in req[r].successor :
              /\ x.id \in SuccessorsOf(req[r].op.token)
              /\ x.createdAt = tokens[x.id].createdAt
              /\ x.revoked => tokens[x.id].revokedAt # NoTime

\* A rotation about to mint holds an unrevoked token without successor, in a
\* family that had not ended when the request came in.
MayMint(r) ==
    req[r].pc = "mint" /\ req[r].op.kind = "rotate" =>
        /\ SuccessorsOf(req[r].op.token) = {}
        /\ tokens[req[r].op.token].revokedAt = NoTime
        /\ req[r].now < tokens[req[r].op.token].familyExpiresAt

\* If its token was current on arrival, a successor can only be younger than
\* one request.
Fresh(r) ==
    req[r].pc # "idle" /\ req[r].op.kind = "rotate" /\ req[r].fresh =>
        /\ req[r].now < tokens[req[r].op.token].expiresAt
        /\ \A s \in SuccessorsOf(req[r].op.token) :
              req[r].now <= tokens[s].createdAt + MaxLag

\* The inductive invariant.
IInv ==
    /\ TypeOK
    /\ Rooted
    /\ OneEnd
    /\ OneTipPerFamily
    /\ SessionBounded
    /\ RowLocks
    /\ \A r \in Requests :
          InFlight(r) /\ ReadStands(r) /\ MayMint(r) /\ Fresh(r)
    /\ RetryNeverBurns

-----------------------------------------------------------------------------
\* The fields of an operation, by its kind.
LEMMA OpFields ==
    ASSUME NEW o \in Ops
    PROVE  /\ o.kind \in AllKinds
           /\ o.kind = "rotate" => o.token \in Tokens
           /\ o.kind = "logout" => o.familyId \in Tokens
  BY DEF Ops, AllKinds

\* How a step that commits changes the table: rows keep everything but a null
\* revokedAt, rows held by other transactions do not change at all, ...
Kept(r) ==
    \A t \in DOMAIN tokens :
        /\ t \in DOMAIN tokens'
        /\ tokens'[t].familyId = tokens[t].familyId
        /\ tokens'[t].rotatedFrom = tokens[t].rotatedFrom
        /\ tokens'[t].createdAt = tokens[t].createdAt
        /\ tokens'[t].expiresAt = tokens[t].expiresAt
        /\ tokens'[t].familyExpiresAt = tokens[t].familyExpiresAt
        /\ tokens[t].revokedAt # NoTime \/ LockedByOther(r, t) => tokens'[t] = tokens[t]

\* ... and at most one row is new: the root of a family ...
NewRoot(r, s) ==
    /\ tokens'[s].familyId = s
    /\ tokens'[s].rotatedFrom = None
    /\ tokens'[s].familyExpiresAt = req[r].now + FAMILY_LIFETIME

\* ... or the successor of the token the request holds.
NewSuccessor(r, s) ==
    /\ req[r].pc = "mint" /\ req[r].op.kind = "rotate"
    /\ tokens'[s].familyId = tokens[req[r].op.token].familyId
    /\ tokens'[s].rotatedFrom = req[r].op.token
    /\ tokens'[s].familyExpiresAt = tokens[req[r].op.token].familyExpiresAt

Commits(r) ==
    /\ req[r].pc # "idle"
    /\ req' = [req EXCEPT ![r] = Idle]
    /\ clock' = clock
    /\ DOMAIN tokens' \subseteq Tokens
    /\ tokens' \in [DOMAIN tokens' -> Row]
    /\ Kept(r)
    /\ \A s \in DOMAIN tokens' \ DOMAIN tokens :
          /\ tokens'[s].createdAt \in req[r].now .. clock
          /\ NewRoot(r, s) \/ NewSuccessor(r, s)
          /\ \A t \in DOMAIN tokens' \ DOMAIN tokens : s = t

\* Revoking keeps the table typed and touches nothing else.
LEMMA RevokedTable ==
    ASSUME IInv, NEW r \in Requests, req[r].pc = "revoking",
           \A t \in req[r].rows : ~LockedByOther(r, t)
    PROVE  /\ DOMAIN revoked(r) = DOMAIN tokens
           /\ revoked(r) \in [DOMAIN tokens -> Row]
           /\ \A t \in DOMAIN tokens :
                 /\ revoked(r)[t].familyId = tokens[t].familyId
                 /\ revoked(r)[t].rotatedFrom = tokens[t].rotatedFrom
                 /\ revoked(r)[t].createdAt = tokens[t].createdAt
                 /\ revoked(r)[t].expiresAt = tokens[t].expiresAt
                 /\ revoked(r)[t].familyExpiresAt = tokens[t].familyExpiresAt
                 /\ tokens[t].revokedAt # NoTime \/ LockedByOther(r, t) =>
                       revoked(r)[t] = tokens[t]
<1>1. req[r].now \in Time
  BY DEF IInv, TypeOK, RequestState
<1>2. tokens \in [DOMAIN tokens -> Row]
  BY DEF IInv, TypeOK
<1>3. ASSUME NEW t \in DOMAIN tokens
      PROVE  /\ revoked(r)[t] \in Row
             /\ revoked(r)[t].familyId = tokens[t].familyId
             /\ revoked(r)[t].rotatedFrom = tokens[t].rotatedFrom
             /\ revoked(r)[t].createdAt = tokens[t].createdAt
             /\ revoked(r)[t].expiresAt = tokens[t].expiresAt
             /\ revoked(r)[t].familyExpiresAt = tokens[t].familyExpiresAt
             /\ tokens[t].revokedAt # NoTime \/ LockedByOther(r, t) =>
                   revoked(r)[t] = tokens[t]
  BY <1>1, <1>2, <1>3 DEF revoked, Row
<1>4. DOMAIN revoked(r) = DOMAIN tokens
  BY DEF revoked
<1>5. revoked(r) \in [DOMAIN tokens -> Row]
  BY <1>3 DEF revoked
<1> QED
  BY <1>3, <1>4, <1>5

\* What a mint inserts.
LEMMA NewRowFacts ==
    ASSUME IInv, NEW r \in Requests, req[r].pc # "idle",
           req[r].op.kind \in {"login", "rotate"},
           NEW id \in Tokens, NEW c \in req[r].now .. clock
    PROVE  /\ newRow(r, id, c) \in Row
           /\ newRow(r, id, c).createdAt = c
           /\ req[r].op.kind = "login" =>
                 /\ newRow(r, id, c).familyId = id
                 /\ newRow(r, id, c).rotatedFrom = None
                 /\ newRow(r, id, c).familyExpiresAt = req[r].now + FAMILY_LIFETIME
           /\ req[r].op.kind = "rotate" =>
                 /\ newRow(r, id, c).familyId = tokens[req[r].op.token].familyId
                 /\ newRow(r, id, c).rotatedFrom = req[r].op.token
                 /\ newRow(r, id, c).familyExpiresAt = tokens[req[r].op.token].familyExpiresAt
<1>1. /\ req[r].now \in Nat /\ clock \in Nat
      /\ req[r].op.kind = "rotate" =>
            req[r].op.token \in DOMAIN tokens /\ tokens[req[r].op.token] \in Row
      /\ DOMAIN tokens \subseteq Tokens
  BY DEF IInv, TypeOK, RequestState, Time, InFlight
<1> QED
  BY <1>1, TokensAssumption DEF newRow, successorOf, newToken, Row, Time

\* Both committing actions change the table in the way of Commits.
LEMMA MintCommits ==
    ASSUME IInv, NEW r \in Requests, Mint(r)
    PROVE  Commits(r)
<1>1. /\ req[r].pc = "mint" /\ req[r].op.kind \in {"login", "rotate"}
      /\ tokens \in [DOMAIN tokens -> Row]
      /\ DOMAIN tokens \subseteq Tokens
      /\ req' = [req EXCEPT ![r] = Idle] /\ clock' = clock
  BY DEF Mint, IInv, TypeOK, InFlight
<1>2. PICK id \in Tokens \ DOMAIN tokens, c \in req[r].now .. clock :
          tokens' = Insert(tokens, id, newRow(r, id, c))
  BY DEF Mint, InsertInto
<1>3. /\ DOMAIN tokens' = DOMAIN tokens \union {id}
      /\ tokens'[id] = newRow(r, id, c)
      /\ \A t \in DOMAIN tokens : tokens'[t] = tokens[t]
  BY <1>2 DEF Insert
<1>4. tokens' \in [DOMAIN tokens' -> Row]
  BY <1>1, <1>2, NewRowFacts DEF Insert
<1>5. /\ tokens'[id].createdAt \in req[r].now .. clock
      /\ NewRoot(r, id) \/ NewSuccessor(r, id)
  BY <1>1, <1>3, NewRowFacts DEF NewRoot, NewSuccessor
<1>6. Kept(r)
  BY <1>3 DEF Kept
<1> QED
  BY <1>1, <1>3, <1>4, <1>5, <1>6 DEF Commits

\* The same of a revocation, with or without the mint of a login.
LEMMA FinishRevokeCommits ==
    ASSUME IInv, NEW r \in Requests, FinishRevoke(r)
    PROVE  Commits(r)
<1>1. /\ req[r].pc = "revoking"
      /\ \A t \in req[r].rows : ~LockedByOther(r, t)
      /\ req' = [req EXCEPT ![r] = Idle] /\ clock' = clock
      /\ DOMAIN tokens \subseteq Tokens
  BY DEF FinishRevoke, IInv, TypeOK
<1> DEFINE table == revoked(r)
<1>2. /\ DOMAIN table = DOMAIN tokens
      /\ table \in [DOMAIN tokens -> Row]
      /\ \A t \in DOMAIN tokens :
                 /\ table[t].familyId = tokens[t].familyId
                 /\ table[t].rotatedFrom = tokens[t].rotatedFrom
                 /\ table[t].createdAt = tokens[t].createdAt
                 /\ table[t].expiresAt = tokens[t].expiresAt
                 /\ table[t].familyExpiresAt = tokens[t].familyExpiresAt
                 /\ tokens[t].revokedAt # NoTime \/ LockedByOther(r, t) =>
                       table[t] = tokens[t]
  BY <1>1, RevokedTable
<1>3. CASE req[r].op.kind = "login"
  <2>1. PICK id \in Tokens \ DOMAIN tokens, c \in req[r].now .. clock :
            tokens' = Insert(table, id, newRow(r, id, c))
    BY <1>3 DEF FinishRevoke, InsertInto
  <2> HIDE DEF table
  <2>2. /\ DOMAIN tokens' = DOMAIN tokens \union {id}
        /\ tokens'[id] = newRow(r, id, c)
        /\ \A t \in DOMAIN tokens : tokens'[t] = table[t]
    BY <1>2, <2>1 DEF Insert
  <2>3. tokens' \in [DOMAIN tokens' -> Row]
    BY <1>1, <1>2, <1>3, <2>1, NewRowFacts DEF Insert
  <2>4. tokens'[id].createdAt \in req[r].now .. clock /\ NewRoot(r, id)
    BY <1>1, <1>3, <2>2, NewRowFacts DEF NewRoot
  <2>5. Kept(r)
    BY <1>2, <2>2 DEF Kept
  <2> QED
    BY <1>1, <2>2, <2>3, <2>4, <2>5 DEF Commits
<1>4. CASE req[r].op.kind # "login"
  <2>1. tokens' = table
    BY <1>4 DEF FinishRevoke
  <2> HIDE DEF table
  <2>2. Kept(r)
    BY <1>2, <2>1 DEF Kept
  <2> QED
    BY <1>1, <1>2, <2>1, <2>2 DEF Commits
<1> QED
  BY <1>3, <1>4

-----------------------------------------------------------------------------
\* A commit adds successors only to the token its request holds.
LEMMA SuccessorsAfter ==
    ASSUME IInv, NEW r \in Requests, Commits(r), NEW t \in DOMAIN tokens
    PROVE  /\ SuccessorsOf(t) \subseteq SuccessorsOf(t)'
           /\ \A s \in SuccessorsOf(t)' \ SuccessorsOf(t) :
                 s \notin DOMAIN tokens /\ NewSuccessor(r, s) /\ req[r].op.token = t
<1>1. t # None
  BY TokensAssumption DEF IInv, TypeOK
<1>2. SuccessorsOf(t) \subseteq SuccessorsOf(t)'
  BY DEF Commits, Kept, SuccessorsOf
<1>3. ASSUME NEW s \in SuccessorsOf(t)', s \notin SuccessorsOf(t)
      PROVE  s \notin DOMAIN tokens /\ NewSuccessor(r, s) /\ req[r].op.token = t
  <2>1. s \in DOMAIN tokens' /\ tokens'[s].rotatedFrom = t
    BY <1>3 DEF SuccessorsOf
  <2>2. s \notin DOMAIN tokens
    BY <1>3, <2>1 DEF SuccessorsOf, Commits, Kept
  <2>3. NewSuccessor(r, s)
    BY <1>1, <2>1, <2>2 DEF Commits, NewRoot
  <2> QED
    BY <2>1, <2>2, <2>3 DEF NewSuccessor
<1> QED
  BY <1>2, <1>3

\* Nothing another transaction holds changes under it.
LEMMA HeldRowsStay ==
    ASSUME IInv, NEW r \in Requests, Commits(r),
           NEW q \in Requests, q # r, NEW t \in DOMAIN tokens, Holds(q, t)
    PROVE  tokens'[t] = tokens[t] /\ SuccessorsOf(t)' = SuccessorsOf(t)
<1>1. tokens'[t] = tokens[t]
  BY DEF Commits, Kept, LockedByOther
<1>2. ASSUME NEW s \in SuccessorsOf(t)', s \notin SuccessorsOf(t)
      PROVE  FALSE
  <2>1. NewSuccessor(r, s) /\ req[r].op.token = t
    BY <1>2, SuccessorsAfter
  <2>2. Holds(r, t) /\ t \in Tokens
    BY <2>1 DEF NewSuccessor, Holds, IInv, TypeOK
  <2> QED
    BY <2>2 DEF IInv, RowLocks
<1> QED
  BY <1>1, <1>2, SuccessorsAfter

\* A commit keeps chains whole and families within their lifetime.
LEMMA CommitKeepsChains ==
    ASSUME IInv, NEW r \in Requests, Commits(r)
    PROVE  TypeOK' /\ Rooted' /\ OneEnd' /\ OneTipPerFamily' /\ SessionBounded'
<1>1. TypeOK'
  <2>1. Idle \in RequestState
    BY DEF Idle, RequestState, Pcs, NoOp, Time
  <2> QED
    BY <2>1 DEF Commits, IInv, TypeOK
<1>2. /\ req[r].now \in Nat /\ clock \in Nat /\ MaxLag \in Nat
      /\ FAMILY_LIFETIME \in Nat /\ FAMILY_LIFETIME > 0
      /\ clock <= req[r].now + MaxLag
  BY TokensAssumption DEF Commits, IInv, TypeOK, RequestState, Time, InFlight
<1>3. ASSUME NEW s \in DOMAIN tokens', s \notin DOMAIN tokens, NewSuccessor(r, s)
      PROVE  /\ req[r].op.token \in DOMAIN tokens
             /\ SuccessorsOf(req[r].op.token) = {}
             /\ req[r].now < tokens[req[r].op.token].familyExpiresAt
  BY <1>3 DEF NewSuccessor, IInv, InFlight, MayMint
<1>4. Rooted'
  BY <1>3 DEF Commits, Kept, NewRoot, NewSuccessor, IInv, Rooted
<1>5. \A t \in DOMAIN tokens : tokens[t].createdAt \in Nat /\ tokens[t].familyExpiresAt \in Nat
  BY DEF IInv, TypeOK, Row, Time
<1>6. ASSUME NEW t \in DOMAIN tokens'
      PROVE  /\ tokens'[t].familyExpiresAt = tokens'[tokens'[t].familyId].familyExpiresAt
             /\ tokens'[t].familyExpiresAt <=
                  tokens'[tokens'[t].familyId].createdAt + FAMILY_LIFETIME
             /\ tokens'[t].createdAt <
                  tokens'[tokens'[t].familyId].createdAt + FAMILY_LIFETIME + MaxLag
  <2>1. CASE t \in DOMAIN tokens
    BY <2>1 DEF Commits, Kept, IInv, Rooted, OneEnd, SessionBounded
  <2>2. CASE t \notin DOMAIN tokens /\ NewRoot(r, t)
    BY <1>2, <1>6, <2>2 DEF NewRoot, Commits
  <2>3. CASE t \notin DOMAIN tokens /\ NewSuccessor(r, t)
    <3> DEFINE p == req[r].op.token
               f == tokens[p].familyId
    <3>1. /\ p \in DOMAIN tokens /\ f \in DOMAIN tokens
          /\ tokens[p].familyExpiresAt = tokens[f].familyExpiresAt
          /\ tokens[p].familyExpiresAt <= tokens[f].createdAt + FAMILY_LIFETIME
          /\ req[r].now < tokens[p].familyExpiresAt
      BY <1>3, <2>3, <1>6 DEF IInv, Rooted, OneEnd
    <3>2. /\ tokens'[t].familyId = f
          /\ tokens'[t].familyExpiresAt = tokens[p].familyExpiresAt
          /\ tokens'[f].familyExpiresAt = tokens[f].familyExpiresAt
          /\ tokens'[f].createdAt = tokens[f].createdAt
          /\ tokens'[t].createdAt \in req[r].now .. clock
      BY <3>1, <2>3, <1>6 DEF NewSuccessor, Commits, Kept
    <3>3. /\ tokens[f].createdAt \in Nat /\ tokens[p].familyExpiresAt \in Nat
      BY <3>1, <1>5
    <3> HIDE DEF p, f
    <3> QED
      BY <1>2, <3>1, <3>2, <3>3
  <2> QED
    BY <1>6, <2>1, <2>2, <2>3 DEF Commits
<1>7. OneTipPerFamily'
  <2> SUFFICES ASSUME NEW s \in DOMAIN tokens', NEW t \in DOMAIN tokens',
                      tokens'[s].familyId = tokens'[t].familyId,
                      SuccessorsOf(s)' = {}, SuccessorsOf(t)' = {},
                      s # t
               PROVE  FALSE
    BY DEF OneTipPerFamily
  <2>1. CASE s \in DOMAIN tokens /\ t \in DOMAIN tokens
    <3>1. SuccessorsOf(s) = {} /\ SuccessorsOf(t) = {}
      BY <2>1, SuccessorsAfter
    <3>2. tokens[s].familyId = tokens[t].familyId
      BY <2>1 DEF Commits, Kept
    <3> QED
      BY <2>1, <3>1, <3>2 DEF IInv, OneTipPerFamily
  <2>2. ASSUME NEW u \in DOMAIN tokens', NEW v \in DOMAIN tokens,
               u \notin DOMAIN tokens, tokens'[u].familyId = tokens'[v].familyId,
               SuccessorsOf(v)' = {}
        PROVE  FALSE
    <3>1. tokens'[v].familyId = tokens[v].familyId /\ tokens[v].familyId \in DOMAIN tokens
      BY DEF Commits, Kept, IInv, Rooted
    <3>2. NewSuccessor(r, u)
      BY <2>2, <3>1 DEF Commits, NewRoot
    <3>3. /\ req[r].op.token \in DOMAIN tokens
          /\ SuccessorsOf(req[r].op.token) = {}
          /\ tokens[req[r].op.token].familyId = tokens[v].familyId
          /\ SuccessorsOf(v) = {}
      BY <1>3, <2>2, <3>1, <3>2, SuccessorsAfter DEF NewSuccessor
    <3>4. v = req[r].op.token
      BY <3>3 DEF IInv, OneTipPerFamily
    <3>5. u \in SuccessorsOf(v)'
      BY <2>2, <3>2, <3>4 DEF NewSuccessor, SuccessorsOf
    <3> QED
      BY <2>2, <3>5
  <2>3. s \in DOMAIN tokens \/ t \in DOMAIN tokens
    BY DEF Commits
  <2> QED
    BY <2>1, <2>2, <2>3
<1> QED
  BY <1>1, <1>4, <1>6, <1>7 DEF OneEnd, SessionBounded

\* The requests that go on after somebody else's commit know what they knew.
LEMMA CommitKeepsRequests ==
    ASSUME IInv, NEW r \in Requests, Commits(r), NEW q \in Requests
    PROVE  InFlight(q)' /\ ReadStands(q)' /\ MayMint(q)' /\ Fresh(q)'
<1>1. CASE q = r
  <2>1. req'[q].pc = "idle"
    BY <1>1 DEF Commits, IInv, TypeOK, Idle
  <2> QED
    BY <2>1 DEF InFlight, ReadStands, MayMint, Fresh
<1>2. CASE q # r
  <2>1. req'[q] = req[q] /\ clock' = clock
    BY <1>2 DEF Commits, IInv, TypeOK
  <2>2. DOMAIN tokens \subseteq DOMAIN tokens'
    BY DEF Commits, Kept
  <2>3. InFlight(q)'
    BY <2>1, <2>2 DEF InFlight, IInv
  <2>4. req[q].pc # "idle" /\ req[q].op.kind = "rotate" => req[q].op.token \in DOMAIN tokens
    BY DEF IInv, InFlight
  <2>5. req[q].pc = "read" => req[q].op.kind = "rotate"
    BY DEF IInv, InFlight
  <2>6. ReadStands(q)'
    <3> SUFFICES ASSUME req[q].pc = "read"
                 PROVE  ReadStands(q)'
      BY <2>1 DEF ReadStands
    <3>1. PICK t \in DOMAIN tokens : t = req[q].op.token
      BY <2>4, <2>5
    <3>2. Holds(q, t)
      BY <2>5, <3>1 DEF Holds
    <3>3. SuccessorsOf(t)' = SuccessorsOf(t)
      BY <1>2, <3>2, HeldRowsStay
    <3>4. /\ req[q].successor = {} => SuccessorsOf(t) = {}
          /\ \A x \in req[q].successor :
                /\ x.id \in SuccessorsOf(t) /\ x.createdAt = tokens[x.id].createdAt
                /\ x.revoked => tokens[x.id].revokedAt # NoTime
      BY <3>1 DEF IInv, ReadStands
    <3>5. ASSUME NEW x \in req[q].successor
          PROVE  /\ x.id \in SuccessorsOf(t)'
                 /\ x.createdAt = tokens'[x.id].createdAt
                 /\ x.revoked => tokens'[x.id].revokedAt # NoTime
      <4>1. x.id \in DOMAIN tokens
        BY <3>4 DEF SuccessorsOf
      <4> QED
        BY <3>3, <3>4, <4>1 DEF Commits, Kept
    <3>6. req'[q].successor = req[q].successor /\ req'[q].op.token = t
      BY <2>1, <3>1
    <3>7. req[q].successor = {} => SuccessorsOf(t)' = {}
      BY <3>3, <3>4
    <3> QED
      BY <3>5, <3>6, <3>7 DEF ReadStands, SuccessorsOf
  <2>7. MayMint(q)'
    <3> SUFFICES ASSUME req[q].pc = "mint", req[q].op.kind = "rotate"
                 PROVE  MayMint(q)'
      BY <2>1 DEF MayMint
    <3>1. PICK t \in DOMAIN tokens : t = req[q].op.token
      BY <2>4
    <3>2. Holds(q, t)
      BY <3>1 DEF Holds
    <3>3. tokens'[t] = tokens[t] /\ SuccessorsOf(t)' = SuccessorsOf(t)
      BY <1>2, <3>2, HeldRowsStay
    <3>4. /\ SuccessorsOf(t) = {} /\ tokens[t].revokedAt = NoTime
          /\ req[q].now < tokens[t].familyExpiresAt
      BY <3>1 DEF IInv, MayMint
    <3> QED
      BY <2>1, <3>1, <3>3, <3>4 DEF MayMint, SuccessorsOf
  <2>8. Fresh(q)'
    <3> SUFFICES ASSUME req[q].pc # "idle", req[q].op.kind = "rotate", req[q].fresh
                 PROVE  Fresh(q)'
      BY <2>1 DEF Fresh
    <3>1. PICK t \in DOMAIN tokens : t = req[q].op.token
      BY <2>4
    <3>2. /\ req[q].now < tokens[t].expiresAt
          /\ \A s \in SuccessorsOf(t) : req[q].now <= tokens[s].createdAt + MaxLag
      BY <3>1 DEF IInv, Fresh
    <3>3. ASSUME NEW s \in SuccessorsOf(t)'
          PROVE  req[q].now <= tokens'[s].createdAt + MaxLag
      <4>1. CASE s \in SuccessorsOf(t)
        <5>1. s \in DOMAIN tokens
          BY <4>1 DEF SuccessorsOf
        <5> QED
          BY <3>2, <4>1, <5>1 DEF Commits, Kept
      <4>2. CASE s \notin SuccessorsOf(t)
        <5>1. s \in DOMAIN tokens'
          BY <3>3 DEF SuccessorsOf
        <5>2. s \notin DOMAIN tokens
          BY <3>3, <4>2, SuccessorsAfter
        <5>3. tokens'[s].createdAt \in req[r].now .. clock
          BY <5>1, <5>2 DEF Commits
        <5>4. req[q].now <= clock /\ clock <= req[r].now + MaxLag
          BY DEF IInv, InFlight, Commits
        <5>5. req[q].now \in Nat /\ req[r].now \in Nat /\ clock \in Nat /\ MaxLag \in Nat
          BY TokensAssumption DEF IInv, TypeOK, RequestState, Time
        <5> QED
          BY <5>3, <5>4, <5>5
      <4> QED
        BY <4>1, <4>2
    <3>4. req[q].now < tokens'[t].expiresAt
      BY <3>2 DEF Commits, Kept
    <3> QED
      BY <2>1, <3>1, <3>3, <3>4 DEF Fresh, SuccessorsOf
  <2> QED
    BY <2>3, <2>6, <2>7, <2>8
<1> QED
  BY <1>1, <1>2

\* A commit keeps the whole invariant.
LEMMA CommitKeepsIInv ==
    ASSUME IInv, NEW r \in Requests, Commits(r)
    PROVE  IInv'
<1>1. \A q \in Requests : req'[q] = IF q = r THEN Idle ELSE req[q]
  BY DEF Commits, IInv, TypeOK
<1>2. RowLocks'
  BY <1>1 DEF IInv, RowLocks, Holds, Idle
<1>3. ASSUME NEW q \in Requests, req'[q].pc \in {"revoke", "revoking"},
             req'[q].op.kind = "rotate", req'[q].fresh
      PROVE  \/ tokens'[req'[q].op.token].revokedAt # NoTime
             \/ \E s \in SuccessorsOf(req[q].op.token)' :
                   tokens'[s].revokedAt # NoTime \/ SuccessorsOf(s)' # {}
  <2>1. q # r /\ req'[q] = req[q]
    BY <1>1, <1>3 DEF Idle
  <2>2. PICK t \in DOMAIN tokens : t = req[q].op.token
    BY <1>3, <2>1 DEF IInv, InFlight
  <2>3. \/ tokens[t].revokedAt # NoTime
        \/ \E s \in SuccessorsOf(t) : tokens[s].revokedAt # NoTime \/ SuccessorsOf(s) # {}
    BY <1>3, <2>1, <2>2 DEF IInv, RetryNeverBurns
  <2>4. CASE tokens[t].revokedAt # NoTime
    BY <2>1, <2>2, <2>4 DEF Commits, Kept
  <2>5. ASSUME NEW s \in SuccessorsOf(t), tokens[s].revokedAt # NoTime \/ SuccessorsOf(s) # {}
        PROVE  s \in SuccessorsOf(t)' /\ (tokens'[s].revokedAt # NoTime \/ SuccessorsOf(s)' # {})
    <3>1. s \in DOMAIN tokens
      BY DEF SuccessorsOf
    <3>2. s \in SuccessorsOf(t)' /\ SuccessorsOf(s) \subseteq SuccessorsOf(s)'
      BY <3>1, SuccessorsAfter
    <3> QED
      BY <2>5, <3>1, <3>2 DEF Commits, Kept
  <2>6. SuccessorsOf(req[q].op.token)' = SuccessorsOf(t)'
    BY <2>1, <2>2 DEF SuccessorsOf
  <2> QED
    BY <2>1, <2>2, <2>3, <2>4, <2>5, <2>6
<1>4. RetryNeverBurns'
  BY <1>3 DEF RetryNeverBurns
<1> QED
  BY <1>2, <1>4, CommitKeepsChains, CommitKeepsRequests DEF IInv

-----------------------------------------------------------------------------
\* RetryNeverBurns, of one request.
NeverBurns(r) ==
    req[r].pc \in {"revoke", "revoking"} /\ req[r].op.kind = "rotate" /\ req[r].fresh =>
        \/ tokens[req[r].op.token].revokedAt # NoTime
        \/ \E s \in SuccessorsOf(req[r].op.token) :
              tokens[s].revokedAt # NoTime \/ SuccessorsOf(s) # {}

\* A step that commits nothing has to account for its own request only.
LEMMA QuietStep ==
    ASSUME IInv, NEW r \in Requests, UNCHANGED <<tokens, clock>>,
           req' \in [Requests -> RequestState],
           \A q \in Requests \ {r} : req'[q] = req[q],
           \A t \in Tokens : Holds(r, t)' => Holds(r, t) \/ ~LockedByOther(r, t),
           InFlight(r)', ReadStands(r)', MayMint(r)', Fresh(r)', NeverBurns(r)'
    PROVE  IInv'
<1>1. TypeOK' /\ Rooted' /\ OneEnd' /\ OneTipPerFamily' /\ SessionBounded'
  BY DEF IInv, TypeOK, Rooted, OneEnd, OneTipPerFamily, SessionBounded, SuccessorsOf
<1>2. RowLocks'
  <2> SUFFICES ASSUME NEW p \in Requests, NEW q \in Requests, NEW t \in Tokens,
                      Holds(p, t)', Holds(q, t)', p # q
               PROVE  FALSE
    BY DEF RowLocks
  <2>1. \A u \in Requests \ {r} : Holds(u, t)' => Holds(u, t)
    BY DEF Holds
  <2>2. Holds(r, t)' => Holds(r, t) \/ \A u \in Requests \ {r} : ~Holds(u, t)
    BY DEF LockedByOther
  <2>3. \A u, v \in Requests : Holds(u, t) /\ Holds(v, t) => u = v
    BY DEF IInv, RowLocks
  <2> QED
    BY <2>1, <2>2, <2>3
<1>3. ASSUME NEW q \in Requests
      PROVE  InFlight(q)' /\ ReadStands(q)' /\ MayMint(q)' /\ Fresh(q)' /\ NeverBurns(q)'
  <2>1. CASE q = r
    BY <2>1
  <2>2. CASE q # r
    <3>1. req'[q] = req[q]
      BY <2>2
    <3>2. InFlight(q) /\ ReadStands(q) /\ MayMint(q) /\ Fresh(q) /\ NeverBurns(q)
      BY DEF IInv, RetryNeverBurns, NeverBurns
    <3> QED
      BY <3>1, <3>2 DEF InFlight, ReadStands, MayMint, Fresh, NeverBurns, SuccessorsOf
  <2> QED
    BY <2>1, <2>2
<1>4. RetryNeverBurns'
  BY <1>3 DEF RetryNeverBurns, NeverBurns
<1> QED
  BY <1>1, <1>2, <1>3, <1>4 DEF IInv

\* Replacing the record of one request leaves the others as they are.
LEMMA OneRequestMoves ==
    ASSUME req \in [Requests -> RequestState], NEW r \in Requests,
           NEW new \in RequestState, req' = [req EXCEPT ![r] = new]
    PROVE  /\ req' \in [Requests -> RequestState] /\ req'[r] = new
           /\ \A q \in Requests \ {r} : req'[q] = req[q]
OBVIOUS

\* A request comes in.
LEMMA ArriveKeepsIInv ==
    ASSUME IInv, NEW r \in Requests, NEW o \in Ops, Arrive(r, o)
    PROVE  IInv'
<1> DEFINE current == o.kind = "rotate" /\ Current(o.token, clock)
           new == [Idle EXCEPT !.pc = entryPc(o), !.op = o, !.now = clock,
                               !.fresh = current, !.scope = scopeOf(o)]
<1>1. /\ req' = [req EXCEPT ![r] = new] /\ UNCHANGED <<tokens, clock>>
      /\ req \in [Requests -> RequestState] /\ clock \in Nat
      /\ o.kind = "rotate" => o.token \in DOMAIN tokens
  BY DEF Arrive, Known, IInv, TypeOK, Time
<1>2. scopeOf(o) \subseteq Tokens
  BY OpFields DEF scopeOf, AllKinds
<1>3. \/ o.kind = "login" /\ entryPc(o) = "count"
      \/ o.kind = "rotate" /\ entryPc(o) = "lock"
      \/ o.kind \notin {"login", "rotate"} /\ entryPc(o) = "revoke"
  BY OpFields DEF entryPc, AllKinds
<1>4. current \in BOOLEAN /\ entryPc(o) \in Pcs
  BY <1>3 DEF Pcs
<1>5. /\ new.pc = entryPc(o) /\ new.op = o /\ new.now = clock
      /\ new.fresh = current
      /\ new \in RequestState
  <2> HIDE DEF current
  <2> QED
    BY <1>1, <1>2, <1>4 DEF Idle, RequestState, Time
<1> HIDE DEF new
<1>6. /\ req' \in [Requests -> RequestState] /\ req'[r] = new
      /\ \A q \in Requests \ {r} : req'[q] = req[q]
  BY <1>1, <1>5
<1>7. \A t \in Tokens : ~Holds(r, t)'
  BY <1>3, <1>5, <1>6 DEF Holds
<1>8. InFlight(r)' /\ ReadStands(r)' /\ MayMint(r)' /\ NeverBurns(r)'
  BY <1>1, <1>3, <1>5, <1>6, TokensAssumption
     DEF InFlight, ReadStands, MayMint, NeverBurns
<1>9. Fresh(r)'
  BY <1>1, <1>5, <1>6 DEF Fresh, Current, Live, SuccessorsOf
<1> QED
  BY <1>1, <1>6, <1>7, <1>8, <1>9, QuietStep

\* The login has counted the sessions.
LEMMA CountFamiliesKeepsIInv ==
    ASSUME IInv, NEW r \in Requests, CountFamilies(r)
    PROVE  IInv'
<1>1. /\ req[r].pc = "count" /\ req[r].op.kind = "login"
      /\ req \in [Requests -> RequestState] /\ UNCHANGED <<tokens, clock>>
  BY DEF CountFamilies, IInv, TypeOK, InFlight
<1>2. liveFamilies(req[r].now) \subseteq Tokens
  BY DEF liveFamilies, IInv, TypeOK, Row
<1>3. \A f \in decideFamilyCap(req[r].now) : f \in Tokens
  BY <1>2 DEF decideFamilyCap
<1>4. /\ req' \in [Requests -> RequestState]
      /\ \A q \in Requests \ {r} : req'[q] = req[q]
      /\ req'[r].op = req[r].op /\ req'[r].now = req[r].now
      /\ req'[r].pc \in {"mint", "revoke"}
  <2>1. CASE req' = [req EXCEPT ![r].pc = "mint"]
    BY <1>1, <2>1 DEF RequestState, Pcs
  <2>2. ASSUME NEW f \in decideFamilyCap(req[r].now),
               req' = [req EXCEPT ![r].pc = "revoke", ![r].scope = {f}]
        PROVE  <1>4!:
    <3> DEFINE new == [req[r] EXCEPT !.pc = "revoke", !.scope = {f}]
    <3>1. req[r] \in RequestState /\ {f} \in SUBSET Tokens
      BY <1>1, <1>3
    <3>2. new \in RequestState
      BY <3>1 DEF RequestState, Pcs
    <3>3. new.op = req[r].op /\ new.now = req[r].now /\ new.pc = "revoke"
      BY <3>1 DEF RequestState
    <3>4. req' = [req EXCEPT ![r] = new]
      BY <1>1, <2>2
    <3> HIDE DEF new
    <3> QED
      BY <1>1, <3>2, <3>3, <3>4, OneRequestMoves
  <2> QED
    BY <2>1, <2>2 DEF CountFamilies
<1>5. \A t \in Tokens : ~Holds(r, t)'
  BY <1>1, <1>4 DEF Holds
<1>6. InFlight(r)' /\ ReadStands(r)' /\ MayMint(r)' /\ Fresh(r)' /\ NeverBurns(r)'
  BY <1>1, <1>4 DEF IInv, InFlight, ReadStands, MayMint, Fresh, NeverBurns
<1> QED
  BY <1>1, <1>4, <1>5, <1>6, QuietStep

\* The presented row is locked when nobody holds it.
LEMMA LockRowKeepsIInv ==
    ASSUME IInv, NEW r \in Requests, LockRow(r)
    PROVE  IInv'
<1>1. /\ req[r].pc = "lock" /\ req[r].op.kind = "rotate"
      /\ req \in [Requests -> RequestState] /\ UNCHANGED <<tokens, clock>>
      /\ req' = [req EXCEPT ![r].pc = "locked"]
  BY DEF LockRow, IInv, TypeOK, InFlight
<1>2. /\ req' \in [Requests -> RequestState]
      /\ \A q \in Requests \ {r} : req'[q] = req[q]
      /\ req'[r].op = req[r].op /\ req'[r].now = req[r].now
      /\ req'[r].fresh = req[r].fresh /\ req'[r].pc = "locked"
  BY <1>1 DEF RequestState, Pcs
<1>3. \A t \in Tokens : Holds(r, t)' => ~LockedByOther(r, t)
  BY <1>2 DEF Holds, LockRow
<1>4. InFlight(r)' /\ ReadStands(r)' /\ MayMint(r)' /\ Fresh(r)' /\ NeverBurns(r)'
  BY <1>1, <1>2 DEF IInv, InFlight, ReadStands, MayMint, Fresh, NeverBurns, SuccessorsOf
<1> QED
  BY <1>1, <1>2, <1>3, <1>4, QuietStep

\* The successor is read under the lock.
LEMMA ReadSuccessorKeepsIInv ==
    ASSUME IInv, NEW r \in Requests, ReadSuccessor(r)
    PROVE  IInv'
<1> DEFINE found == {[id |-> s, createdAt |-> tokens[s].createdAt,
                      revoked |-> tokens[s].revokedAt # NoTime] :
                         s \in SuccessorsOf(req[r].op.token)}
<1>1. /\ req[r].pc = "locked" /\ req[r].op.kind = "rotate"
      /\ req \in [Requests -> RequestState] /\ UNCHANGED <<tokens, clock>>
      /\ req' = [req EXCEPT ![r].pc = "read", ![r].successor = found]
  BY DEF ReadSuccessor, IInv, TypeOK, InFlight
<1>2. /\ found \in SUBSET SuccessorRead
      /\ found = {} => SuccessorsOf(req[r].op.token) = {}
      /\ \A x \in found : /\ x.id \in SuccessorsOf(req[r].op.token)
                          /\ x.createdAt = tokens[x.id].createdAt
                          /\ x.revoked => tokens[x.id].revokedAt # NoTime
  <2>1. ASSUME NEW x \in found
        PROVE  /\ x \in SuccessorRead /\ x.id \in SuccessorsOf(req[r].op.token)
               /\ x.createdAt = tokens[x.id].createdAt
               /\ x.revoked => tokens[x.id].revokedAt # NoTime
    <3>1. PICK s \in SuccessorsOf(req[r].op.token) :
              x = [id |-> s, createdAt |-> tokens[s].createdAt,
                   revoked |-> tokens[s].revokedAt # NoTime]
      OBVIOUS
    <3>2. s \in Tokens /\ tokens[s].createdAt \in Time
      BY DEF SuccessorsOf, IInv, TypeOK, Row
    <3>3. x.id = s /\ x.createdAt = tokens[s].createdAt
      BY <3>1
    <3>4. x.revoked = (tokens[s].revokedAt # NoTime)
      BY <3>1
    <3>5. x \in SuccessorRead
      BY <3>1, <3>2 DEF SuccessorRead
    <3> QED
      BY <3>3, <3>4, <3>5
  <2>2. found = {} => SuccessorsOf(req[r].op.token) = {}
    OBVIOUS
  <2> HIDE DEF found
  <2> QED
    BY <2>1, <2>2
<1> HIDE DEF found
<1>3. /\ req' \in [Requests -> RequestState]
      /\ \A q \in Requests \ {r} : req'[q] = req[q]
      /\ req'[r].op = req[r].op /\ req'[r].now = req[r].now
      /\ req'[r].fresh = req[r].fresh /\ req'[r].pc = "read"
      /\ req'[r].successor = found
  <2> DEFINE new == [req[r] EXCEPT !.pc = "read", !.successor = found]
  <2>1. req[r] \in RequestState
    BY <1>1
  <2>2. new \in RequestState
    BY <1>2, <2>1 DEF RequestState, Pcs
  <2>3. /\ new.op = req[r].op /\ new.now = req[r].now /\ new.fresh = req[r].fresh
        /\ new.pc = "read" /\ new.successor = found
    BY <2>1 DEF RequestState
  <2>4. req' = [req EXCEPT ![r] = new]
    BY <1>1
  <2> HIDE DEF new
  <2> QED
    BY <1>1, <2>2, <2>3, <2>4, OneRequestMoves
<1>4. \A t \in Tokens : Holds(r, t)' => Holds(r, t)
  BY <1>1, <1>3 DEF Holds
<1>5. ReadStands(r)'
  BY <1>1, <1>2, <1>3 DEF ReadStands, SuccessorsOf
<1>6. InFlight(r)' /\ MayMint(r)' /\ Fresh(r)' /\ NeverBurns(r)'
  BY <1>1, <1>3 DEF IInv, InFlight, MayMint, Fresh, NeverBurns, SuccessorsOf
<1> QED
  BY <1>1, <1>3, <1>4, <1>5, <1>6, QuietStep

\* A request that ends without a write leaves the rest alone.
LEMMA EndKeepsIInv ==
    ASSUME IInv, NEW r \in Requests, req' = [req EXCEPT ![r] = Idle],
           UNCHANGED <<tokens, clock>>
    PROVE  IInv'
<1>1. Idle \in RequestState /\ Idle.pc = "idle"
  BY DEF Idle, RequestState, Pcs, NoOp, Time
<1>2. /\ req' \in [Requests -> RequestState]
      /\ \A q \in Requests \ {r} : req'[q] = req[q]
      /\ req'[r].pc = "idle"
  BY <1>1 DEF IInv, TypeOK
<1>3. \A t \in Tokens : ~Holds(r, t)'
  BY <1>2 DEF Holds
<1>4. InFlight(r)' /\ ReadStands(r)' /\ MayMint(r)' /\ Fresh(r)' /\ NeverBurns(r)'
  BY <1>2 DEF InFlight, ReadStands, MayMint, Fresh, NeverBurns
<1> QED
  BY <1>2, <1>3, <1>4, QuietStep

\* What the decision tells about the presented token t of request r.
LEMMA ReuseDecided ==
    ASSUME IInv, NEW r \in Requests, req[r].pc = "read",
           NEW t \in DOMAIN tokens, t = req[r].op.token
    PROVE  /\ reuseAction(r) = "ALLOW_ROTATE" =>
                 /\ SuccessorsOf(t) = {}
                 /\ tokens[t].revokedAt = NoTime
                 /\ req[r].now < tokens[t].familyExpiresAt
           /\ reuseAction(r) = "REVOKE_FAMILY" /\ req[r].fresh =>
                 \/ tokens[t].revokedAt # NoTime
                 \/ \E s \in SuccessorsOf(t) :
                       tokens[s].revokedAt # NoTime \/ SuccessorsOf(s) # {}
<1> DEFINE facts == {[createdAt |-> s.createdAt,
                      isCurrent |-> ~s.revoked /\ SuccessorsOf(s.id) = {}] :
                         s \in req[r].successor}
           now == req[r].now
<1>1. reuseAction(r) = decideReuse(now, tokens[t], facts)
  BY DEF reuseAction
<1>2. /\ now \in Nat /\ tokens[t].expiresAt \in Nat /\ tokens[t].familyExpiresAt \in Nat
      /\ MaxLag \in Nat /\ REUSE_LEEWAY \in Nat /\ MaxLag <= REUSE_LEEWAY
  BY TokensAssumption DEF IInv, TypeOK, RequestState, Row, Time
<1>3. /\ req[r].successor = {} => SuccessorsOf(t) = {}
      /\ \A x \in req[r].successor :
            /\ x.id \in SuccessorsOf(t) /\ x.createdAt = tokens[x.id].createdAt
            /\ x.revoked => tokens[x.id].revokedAt # NoTime
  BY DEF IInv, ReadStands
<1>4. facts = {} => req[r].successor = {}
  OBVIOUS
<1>5. req[r].op.kind = "rotate"
  BY DEF IInv, InFlight
<1>6. req[r].fresh =>
        /\ now < tokens[t].expiresAt
        /\ \A s \in SuccessorsOf(t) : now <= tokens[s].createdAt + MaxLag
  BY <1>5 DEF IInv, Fresh
<1>7. ASSUME reuseAction(r) = "ALLOW_ROTATE"
      PROVE  facts = {} /\ tokens[t].revokedAt = NoTime /\ now < tokens[t].familyExpiresAt
  <2> HIDE DEF facts, now
  <2> QED
    BY <1>1, <1>2, <1>7 DEF decideReuse
<1>8. ASSUME reuseAction(r) = "REVOKE_FAMILY", req[r].fresh, tokens[t].revokedAt = NoTime
      PROVE  \E s \in SuccessorsOf(t) : tokens[s].revokedAt # NoTime \/ SuccessorsOf(s) # {}
  <2>1. /\ facts # {}
        /\ \A f \in facts : ~(f.isCurrent /\ now - f.createdAt <= REUSE_LEEWAY)
    <3> HIDE DEF facts, now
    <3> QED
      BY <1>1, <1>2, <1>6, <1>8 DEF decideReuse
  <2>2. PICK x \in req[r].successor : TRUE
    BY <2>1
  <2>3. x.id \in SuccessorsOf(t) /\ x.createdAt \in Nat
    BY <1>3 DEF SuccessorsOf, IInv, TypeOK, Row, Time
  <2>4. now - x.createdAt <= REUSE_LEEWAY
    BY <1>2, <1>3, <1>6, <1>8, <2>3
  <2> DEFINE isCurrent == ~x.revoked /\ SuccessorsOf(x.id) = {}
             f == [createdAt |-> x.createdAt, isCurrent |-> isCurrent]
  <2>5. f \in facts
    OBVIOUS
  <2>6. f.isCurrent = isCurrent /\ f.createdAt = x.createdAt
    <3> HIDE DEF isCurrent
    <3> QED OBVIOUS
  <2>7. ~isCurrent
    <3> HIDE DEF isCurrent, f, facts
    <3> QED
      BY <2>1, <2>4, <2>5, <2>6
  <2> QED
    BY <1>3, <2>3, <2>7
<1> QED
  BY <1>3, <1>4, <1>7, <1>8

\* The three ways a rotation goes on.
LEMMA DecideKeepsIInv ==
    ASSUME IInv, NEW r \in Requests, Decide(r)
    PROVE  IInv'
<1>1. /\ req[r].pc = "read" /\ req[r].op.kind = "rotate"
      /\ req \in [Requests -> RequestState] /\ UNCHANGED <<tokens, clock>>
      /\ req[r].op.token \in DOMAIN tokens
  BY DEF Decide, IInv, TypeOK, InFlight
<1>2. PICK t \in DOMAIN tokens : t = req[r].op.token
  BY <1>1
<1>3. tokens[t].familyId \in Tokens
  BY DEF IInv, TypeOK, Row
<1>4. ASSUME req' \in [Requests -> RequestState],
             \A q \in Requests \ {r} : req'[q] = req[q],
             req'[r].op = req[r].op, req'[r].now = req[r].now,
             req'[r].fresh = req[r].fresh, req'[r].pc \in {"mint", "revoke"},
             MayMint(r)', NeverBurns(r)'
      PROVE  IInv'
  <2>1. \A u \in Tokens : Holds(r, u)' => Holds(r, u)
    BY <1>1, <1>4 DEF Holds
  <2>2. InFlight(r)' /\ ReadStands(r)' /\ Fresh(r)'
    BY <1>1, <1>4 DEF IInv, InFlight, ReadStands, Fresh, SuccessorsOf
  <2> QED
    BY <1>1, <1>4, <2>1, <2>2, QuietStep
<1>5. CASE reuseAction(r) = "ALLOW_ROTATE"
  <2>1. req' = [req EXCEPT ![r] = [req[r] EXCEPT !.pc = "mint"]]
    BY <1>5 DEF Decide
  <2>2. /\ req' \in [Requests -> RequestState]
        /\ \A q \in Requests \ {r} : req'[q] = req[q]
        /\ req'[r].op = req[r].op /\ req'[r].now = req[r].now
        /\ req'[r].fresh = req[r].fresh /\ req'[r].pc = "mint"
    BY <1>1, <2>1 DEF RequestState, Pcs
  <2>3. /\ SuccessorsOf(t) = {} /\ tokens[t].revokedAt = NoTime
        /\ req[r].now < tokens[t].familyExpiresAt
    BY <1>1, <1>2, <1>5, ReuseDecided
  <2>4. MayMint(r)' /\ NeverBurns(r)'
    BY <1>1, <1>2, <2>2, <2>3 DEF MayMint, NeverBurns, SuccessorsOf
  <2> QED
    BY <1>4, <2>2, <2>4
<1>6. CASE reuseAction(r) = "REVOKE_FAMILY"
  <2>1. req' = [req EXCEPT ![r] = [req[r] EXCEPT !.pc = "revoke",
                                                 !.scope = {tokens[t].familyId}]]
    BY <1>2, <1>6 DEF Decide
  <2>2. /\ req' \in [Requests -> RequestState]
        /\ \A q \in Requests \ {r} : req'[q] = req[q]
        /\ req'[r].op = req[r].op /\ req'[r].now = req[r].now
        /\ req'[r].fresh = req[r].fresh /\ req'[r].pc = "revoke"
    <3> DEFINE new == [req[r] EXCEPT !.pc = "revoke", !.scope = {tokens[t].familyId}]
    <3>1. req[r] \in RequestState /\ {tokens[t].familyId} \in SUBSET Tokens
      BY <1>1, <1>3
    <3>2. new \in RequestState
      BY <3>1 DEF RequestState, Pcs
    <3>3. /\ new.op = req[r].op /\ new.now = req[r].now /\ new.fresh = req[r].fresh
          /\ new.pc = "revoke"
      BY <3>1 DEF RequestState
    <3> HIDE DEF new
    <3> QED
      BY <1>1, <2>1, <3>2, <3>3, OneRequestMoves DEF new
  <2>3. req[r].fresh =>
            \/ tokens[t].revokedAt # NoTime
            \/ \E s \in SuccessorsOf(t) : tokens[s].revokedAt # NoTime \/ SuccessorsOf(s) # {}
    BY <1>1, <1>2, <1>6, ReuseDecided
  <2>4. MayMint(r)' /\ NeverBurns(r)'
    BY <1>1, <1>2, <2>2, <2>3 DEF MayMint, NeverBurns, SuccessorsOf
  <2> QED
    BY <1>4, <2>2, <2>4
<1>7. CASE reuseAction(r) \notin {"ALLOW_ROTATE", "REVOKE_FAMILY"}
  BY <1>7, EndKeepsIInv DEF Decide
<1> QED
  BY <1>5, <1>6, <1>7

\* An UPDATE that starts has written nothing yet.
LEMMA StartRevokeKeepsIInv ==
    ASSUME IInv, NEW r \in Requests, StartRevoke(r)
    PROVE  IInv'
<1> DEFINE found == {t \in DOMAIN tokens : /\ tokens[t].familyId \in req[r].scope
                                          /\ tokens[t].revokedAt = NoTime}
           date == IF req[r].op.kind \in {"login", "rotate"} THEN req[r].now ELSE clock
<1>1. /\ req[r].pc = "revoke" /\ found \subseteq Tokens
      /\ req \in [Requests -> RequestState] /\ UNCHANGED <<tokens, clock>>
      /\ req' = [req EXCEPT ![r].pc = "revoking", ![r].now = date, ![r].rows = found]
  BY DEF StartRevoke, IInv, TypeOK
<1>2. /\ date \in Time /\ date <= clock /\ clock <= date + MaxLag
      /\ req[r].op.kind = "rotate" => date = req[r].now
  BY <1>1, TokensAssumption DEF IInv, TypeOK, RequestState, InFlight, Time
<1> HIDE DEF found, date
<1>3. /\ req' \in [Requests -> RequestState]
      /\ \A q \in Requests \ {r} : req'[q] = req[q]
      /\ req'[r].op = req[r].op /\ req'[r].now = date
      /\ req'[r].fresh = req[r].fresh /\ req'[r].pc = "revoking"
  <2> DEFINE new == [req[r] EXCEPT !.pc = "revoking", !.now = date, !.rows = found]
  <2>1. /\ new \in RequestState /\ new.op = req[r].op /\ new.now = date
        /\ new.fresh = req[r].fresh /\ new.pc = "revoking"
    <3>1. req[r] \in RequestState
      BY <1>1
    <3>2. new \in RequestState
      BY <1>1, <1>2, <3>1 DEF RequestState, Pcs
    <3>3. new.op = req[r].op /\ new.fresh = req[r].fresh
      BY <3>1 DEF RequestState
    <3>4. new.now = date /\ new.pc = "revoking"
      BY <3>1 DEF RequestState
    <3> QED
      BY <3>2, <3>3, <3>4
  <2>2. req' = [req EXCEPT ![r] = new]
    BY <1>1
  <2> HIDE DEF new
  <2> QED
    BY <1>1, <2>1, <2>2, OneRequestMoves
<1>4. \A t \in Tokens : Holds(r, t)' => Holds(r, t)
  BY <1>1, <1>3 DEF Holds
<1>5. InFlight(r)' /\ ReadStands(r)' /\ MayMint(r)'
  BY <1>1, <1>2, <1>3 DEF IInv, InFlight, ReadStands, MayMint
<1>6. Fresh(r)'
  BY <1>1, <1>2, <1>3 DEF IInv, Fresh, SuccessorsOf
<1>7. NeverBurns(r)'
  BY <1>1, <1>3 DEF IInv, NeverBurns, RetryNeverBurns, SuccessorsOf
<1> QED
  BY <1>1, <1>3, <1>4, <1>5, <1>6, <1>7, QuietStep

\* Time passes no faster than the requests in flight end.
LEMMA PassTimeKeepsIInv ==
    ASSUME IInv, PassTime
    PROVE  IInv'
<1>1. /\ UNCHANGED <<tokens, req>> /\ clock' = clock + 1 /\ clock \in Nat
      /\ \A r \in Requests : req[r].pc # "idle" => clock - req[r].now < MaxLag
      /\ \A r \in Requests : req[r].now \in Nat
      /\ MaxLag \in Nat
  BY TokensAssumption DEF PassTime, IInv, TypeOK, RequestState, Time
<1>2. TypeOK' /\ Rooted' /\ OneEnd' /\ OneTipPerFamily' /\ SessionBounded'
  BY <1>1 DEF IInv, TypeOK, Rooted, OneEnd, OneTipPerFamily, SessionBounded, SuccessorsOf, Time
<1>3. RowLocks' /\ RetryNeverBurns'
  BY <1>1 DEF IInv, RowLocks, Holds, RetryNeverBurns, SuccessorsOf
<1>4. ASSUME NEW r \in Requests
      PROVE  InFlight(r)' /\ ReadStands(r)' /\ MayMint(r)' /\ Fresh(r)'
  <2>1. InFlight(r)'
    BY <1>1 DEF IInv, InFlight
  <2> QED
    BY <1>1, <2>1 DEF IInv, ReadStands, MayMint, Fresh, SuccessorsOf
<1> QED
  BY <1>2, <1>3, <1>4 DEF IInv

-----------------------------------------------------------------------------
\* A step of the system keeps the invariant, and is a commit of some request
\* unless it leaves the table alone.
LEMMA NextKeepsIInv ==
    ASSUME IInv, [Next]_vars
    PROVE  IInv' /\ (UNCHANGED tokens \/ \E r \in Requests : Commits(r))
<1>1. ASSUME NEW r \in Requests, Step(r)
      PROVE  IInv' /\ (UNCHANGED tokens \/ Commits(r))
  <2>1. CASE CountFamilies(r)
    BY <2>1, CountFamiliesKeepsIInv DEF CountFamilies
  <2>2. CASE LockRow(r)
    BY <2>2, LockRowKeepsIInv DEF LockRow
  <2>3. CASE ReadSuccessor(r)
    BY <2>3, ReadSuccessorKeepsIInv DEF ReadSuccessor
  <2>4. CASE Decide(r)
    BY <2>4, DecideKeepsIInv DEF Decide
  <2>5. CASE Mint(r)
    BY <2>5, MintCommits, CommitKeepsIInv
  <2>6. CASE StartRevoke(r)
    BY <2>6, StartRevokeKeepsIInv DEF StartRevoke
  <2>7. CASE FinishRevoke(r)
    BY <2>7, FinishRevokeCommits, CommitKeepsIInv
  <2>8. CASE Abort(r)
    BY <2>8, EndKeepsIInv DEF Abort
  <2> QED
    BY <1>1, <2>1, <2>2, <2>3, <2>4, <2>5, <2>6, <2>7, <2>8 DEF Step
<1>2. ASSUME NEW r \in Requests, NEW o \in Ops, Arrive(r, o)
      PROVE  IInv' /\ UNCHANGED tokens
  BY <1>2, ArriveKeepsIInv DEF Arrive
<1>3. CASE PassTime
  BY <1>3, PassTimeKeepsIInv DEF PassTime
<1>4. CASE UNCHANGED vars
  BY <1>4 DEF vars, IInv, TypeOK, Rooted, OneEnd, OneTipPerFamily, SessionBounded, RowLocks,
              Holds, InFlight, ReadStands, MayMint, Fresh, RetryNeverBurns, SuccessorsOf
<1> QED
  BY <1>1, <1>2, <1>3, <1>4 DEF Next

\* The empty table satisfies the invariant.
LEMMA InitIInv == Init => IInv
<1> SUFFICES ASSUME Init PROVE IInv
  OBVIOUS
<1>1. /\ DOMAIN tokens = {} /\ tokens \in [DOMAIN tokens -> Row] /\ clock = 0
      /\ \A r \in Requests : req[r] = Idle /\ req[r].pc = "idle"
      /\ req \in [Requests -> RequestState]
  <2>1. Idle \in RequestState /\ Idle.pc = "idle"
    BY DEF Idle, RequestState, Pcs, NoOp, Time
  <2> QED
    BY <2>1 DEF Init
<1>2. TypeOK /\ Rooted /\ OneEnd /\ OneTipPerFamily /\ SessionBounded
  BY <1>1 DEF TypeOK, Rooted, OneEnd, OneTipPerFamily, SessionBounded, Time
<1>3. RowLocks /\ RetryNeverBurns
  BY <1>1 DEF RowLocks, Holds, RetryNeverBurns
<1>4. \A r \in Requests : InFlight(r) /\ ReadStands(r) /\ MayMint(r) /\ Fresh(r)
  BY <1>1 DEF InFlight, ReadStands, MayMint, Fresh
<1> QED
  BY <1>2, <1>3, <1>4 DEF IInv

\* The inductive invariant holds of every state rotations, logins and
\* revocations can reach together.
THEOREM Invariant == Spec => []IInv
<1>1. IInv /\ [Next]_vars => IInv'
  BY NextKeepsIInv
<1> QED
  BY <1>1, InitIInv, PTL DEF Spec

\* Rows and requests are always of their type.
THEOREM TypeCorrect == Spec => []TypeOK
<1>1. IInv => TypeOK
  BY DEF IInv
<1> QED
  BY <1>1, Invariant, PTL

\* A session never splits in two, and never outlives what its login allowed:
\* rotate in RefreshTokenService.
THEOREM SessionsSound == Spec => []SessionShape
<1>1. IInv => SessionShape
  BY DEF IInv, SessionShape
<1> QED
  BY <1>1, Invariant, PTL

\* The leeway of decideReuse is enough for every request that presented its
\* session's current token.
THEOREM RetriesForgiven == Spec => []RetryNeverBurns
<1>1. IInv => RetryNeverBurns
  BY DEF IInv
<1> QED
  BY <1>1, Invariant, PTL

\* Revocations are final, and revoked tokens are never rotated.
THEOREM RevocationsSound == Spec => NoSuccessorOfRevoked /\ RevocationFinal
<1>1. ASSUME IInv, [Next]_vars
      PROVE  /\ [\A s \in DOMAIN tokens' \ DOMAIN tokens : tokens'[s].rotatedFrom # None =>
                   /\ tokens'[s].rotatedFrom \in DOMAIN tokens
                   /\ tokens[tokens'[s].rotatedFrom].revokedAt = NoTime]_vars
             /\ [\A t \in DOMAIN tokens :
                   tokens[t].revokedAt # NoTime => tokens'[t] = tokens[t]]_vars
  <2>1. CASE UNCHANGED tokens
    BY <2>1
  <2>2. ASSUME NEW r \in Requests, Commits(r)
        PROVE  /\ \A s \in DOMAIN tokens' \ DOMAIN tokens : tokens'[s].rotatedFrom # None =>
                     /\ tokens'[s].rotatedFrom \in DOMAIN tokens
                     /\ tokens[tokens'[s].rotatedFrom].revokedAt = NoTime
               /\ \A t \in DOMAIN tokens :
                     tokens[t].revokedAt # NoTime => tokens'[t] = tokens[t]
    <3>1. ASSUME NEW s \in DOMAIN tokens' \ DOMAIN tokens, tokens'[s].rotatedFrom # None
          PROVE  /\ tokens'[s].rotatedFrom \in DOMAIN tokens
                 /\ tokens[tokens'[s].rotatedFrom].revokedAt = NoTime
      BY <1>1, <2>2, <3>1 DEF Commits, NewRoot, NewSuccessor, IInv, InFlight, MayMint
    <3>2. \A t \in DOMAIN tokens : tokens[t].revokedAt # NoTime => tokens'[t] = tokens[t]
      BY <2>2 DEF Commits, Kept
    <3> QED
      BY <3>1, <3>2
  <2> QED
    BY <1>1, <2>1, <2>2, NextKeepsIInv
<1> QED
  BY <1>1, Invariant, PTL DEF Spec, NoSuccessorOfRevoked, RevocationFinal
-----------------------------------------------------------------------------
\* The refinement of SessionBook.  On top of IInv: the table is finite, and a
\* login that makes room for itself names one session and found rows of no other.
OneScope(r) ==
    req[r].op.kind = "login" =>
        /\ req[r].pc = "revoke" => \E f \in Tokens : req[r].scope = {f}
        /\ req[r].pc = "revoking" =>
              \E f \in Tokens : \A t \in req[r].rows :
                  t \in DOMAIN tokens /\ tokens[t].familyId = f

BookInv == IsFiniteSet(DOMAIN tokens) /\ \A r \in Requests : OneScope(r)

\* What another request is told to revoke does not depend on this step.
LEMMA OtherScopesStand ==
    ASSUME IInv, BookInv, NEW r \in Requests, NEW q \in Requests, q # r,
           req'[q] = req[q], UNCHANGED tokens \/ Commits(r)
    PROVE  OneScope(q)'
<1>1. \A t \in DOMAIN tokens : t \in DOMAIN tokens' /\ tokens'[t].familyId = tokens[t].familyId
  BY DEF Commits, Kept
<1> QED
  BY <1>1 DEF BookInv, OneScope

\* Every step of a request keeps its own scope to one session, if it is a login.
LEMMA StepKeepsScope ==
    ASSUME IInv, BookInv, NEW r \in Requests, Step(r)
    PROVE  OneScope(r)'
<1>1. /\ req \in [Requests -> RequestState] /\ Idle.pc = "idle"
      /\ req[r] \in RequestState
  BY DEF IInv, TypeOK, Idle
<1>2. CASE CountFamilies(r)
  <2>1. \A f \in decideFamilyCap(req[r].now) : f \in Tokens
    BY DEF decideFamilyCap, liveFamilies, IInv, TypeOK, Row
  <2>2. CASE req' = [req EXCEPT ![r].pc = "mint"]
    BY <1>1, <2>2 DEF OneScope, RequestState
  <2>3. ASSUME NEW f \in Tokens,
               req' = [req EXCEPT ![r].pc = "revoke", ![r].scope = {f}]
        PROVE  OneScope(r)'
    <3>1. req'[r].pc = "revoke" /\ req'[r].scope = {f}
      BY <1>1, <2>3 DEF RequestState
    <3> QED
      BY <3>1 DEF OneScope
  <2> QED
    BY <1>2, <2>1, <2>2, <2>3 DEF CountFamilies
<1>3. CASE LockRow(r) \/ ReadSuccessor(r)
  <2>1. req'[r].pc \in {"locked", "read"}
    BY <1>1, <1>3 DEF LockRow, ReadSuccessor, RequestState
  <2> QED
    BY <2>1 DEF OneScope
<1>4. CASE Decide(r)
  <2>1. req[r].op.kind = "rotate"
    BY <1>4 DEF Decide, IInv, InFlight
  <2>2. req'[r].pc = "idle" \/ req'[r].op = req[r].op
    BY <1>1, <1>4 DEF Decide, RequestState
  <2> QED
    BY <2>1, <2>2 DEF OneScope
<1>5. CASE Mint(r) \/ FinishRevoke(r) \/ Abort(r)
  <2>1. req'[r].pc = "idle"
    BY <1>1, <1>5 DEF Mint, FinishRevoke, Abort
  <2> QED
    BY <2>1 DEF OneScope
<1>6. CASE StartRevoke(r)
  <2> DEFINE found == {t \in DOMAIN tokens : /\ tokens[t].familyId \in req[r].scope
                                            /\ tokens[t].revokedAt = NoTime}
             new == [req[r] EXCEPT !.pc = "revoking", !.rows = found,
                        !.now = IF req[r].op.kind \in {"login", "rotate"}
                                THEN req[r].now ELSE clock]
  <2>1. req' = [req EXCEPT ![r] = new] /\ req[r].pc = "revoke" /\ UNCHANGED tokens
    BY <1>6 DEF StartRevoke
  <2>2. new.op = req[r].op /\ new.pc = "revoking" /\ new.rows = found
    BY <1>1 DEF RequestState
  <2>3. req'[r] = new
    <3> HIDE DEF new
    <3> QED
      BY <1>1, <2>1
  <2>4. req'[r].op = req[r].op /\ req'[r].pc = "revoking" /\ req'[r].rows = found
    <3> HIDE DEF new, found
    <3> QED
      BY <2>2, <2>3
  <2>5. req[r].op.kind = "login" => \E f \in Tokens : req[r].scope = {f}
    BY <2>1 DEF BookInv, OneScope
  <2> QED
    BY <2>1, <2>4, <2>5 DEF OneScope
<1> QED
  BY <1>2, <1>3, <1>4, <1>5, <1>6 DEF Step

\* One row at most is new, so the table stays finite.
LEMMA TableStaysFinite ==
    ASSUME IsFiniteSet(DOMAIN tokens), NEW r \in Requests, Commits(r)
    PROVE  IsFiniteSet(DOMAIN tokens')
<1>1. CASE DOMAIN tokens' \subseteq DOMAIN tokens
  <2>1. DOMAIN tokens' = DOMAIN tokens
    BY <1>1 DEF Commits, Kept
  <2> QED
    BY <2>1
<1>2. ASSUME NEW s \in DOMAIN tokens', s \notin DOMAIN tokens
      PROVE  IsFiniteSet(DOMAIN tokens')
  <2>1. DOMAIN tokens' = DOMAIN tokens \union {s}
    BY <1>2 DEF Commits, Kept
  <2>2. IsFiniteSet(DOMAIN tokens \union {s})
    BY FS_AddElement
  <2> QED
    BY <2>1, <2>2
<1> QED
  BY <1>1, <1>2

\* The addition to the invariant is inductive too.
LEMMA NextKeepsBookInv ==
    ASSUME IInv, BookInv, [Next]_vars
    PROVE  BookInv'
<1>1. IsFiniteSet(DOMAIN tokens')
  BY NextKeepsIInv, TableStaysFinite DEF BookInv
<1>2. ASSUME NEW r \in Requests, Step(r), NEW q \in Requests
      PROVE  OneScope(q)'
  <2>1. UNCHANGED tokens \/ Commits(r)
    BY <1>2, MintCommits, FinishRevokeCommits
       DEF Step, CountFamilies, LockRow, ReadSuccessor, Decide, StartRevoke, Abort
  <2>2. q # r => req'[q] = req[q]
    BY <1>2 DEF Step, CountFamilies, LockRow, ReadSuccessor, Decide, StartRevoke, Abort,
                Mint, FinishRevoke, IInv, TypeOK
  <2> QED
    BY <1>2, <2>1, <2>2, StepKeepsScope, OtherScopesStand
<1>3. ASSUME NEW r \in Requests, NEW o \in Ops, Arrive(r, o), NEW q \in Requests
      PROVE  OneScope(q)'
  <2>1. UNCHANGED tokens /\ (q # r => req'[q] = req[q])
    BY <1>3 DEF Arrive, IInv, TypeOK
  <2>2. ASSUME q = r
        PROVE  OneScope(q)'
    <3> DEFINE current == o.kind = "rotate" /\ Current(o.token, clock)
               new == [Idle EXCEPT !.pc = entryPc(o), !.op = o, !.now = clock,
                                   !.fresh = current, !.scope = scopeOf(o)]
    <3>1. req'[q] = new
      BY <1>3, <2>2 DEF Arrive, IInv, TypeOK
    <3>2. new.op = o /\ new.pc = entryPc(o)
      <4> HIDE DEF current
      <4> QED
        BY DEF Idle
    <3>3. o.kind = "login" => new.pc = "count"
      <4> HIDE DEF new
      <4> QED
        BY <3>2 DEF entryPc
    <3> HIDE DEF new
    <3> QED
      BY <3>1, <3>2, <3>3 DEF OneScope
  <2> QED
    BY <1>3, <2>1, <2>2, OtherScopesStand
<1>4. CASE PassTime \/ UNCHANGED vars
  BY <1>4 DEF PassTime, vars, BookInv, OneScope
<1>5. CASE Next
  <2>1. CASE PassTime
    BY <1>1, <1>4, <2>1 DEF BookInv
  <2>2. CASE \E r \in Requests : Step(r) \/ \E o \in Ops : Arrive(r, o)
    BY <1>1, <1>2, <1>3, <2>2 DEF BookInv
  <2> QED
    BY <1>5, <2>1, <2>2 DEF Next
<1> QED
  BY <1>4, <1>5, <1>1 DEF BookInv
-----------------------------------------------------------------------------
\* An entry of the book, and when a session is open.
IsOpen(f) == \E t \in rowsOf(f) : SuccessorsOf(t) = {} /\ tokens[t].revokedAt = NoTime

Entry(f) ==
    [turns |-> Cardinality(rowsOf(f)) - 1, open |-> IsOpen(f),
     until |-> tokens[f].familyExpiresAt]

\* Closing an entry, and one turn more, field by field.
Booked(turns, open, until) == [turns |-> turns, open |-> open, until |-> until]

LEMMA EntryClosed ==
    ASSUME NEW turns, NEW until
    PROVE  Booked(turns, FALSE, until) = [Booked(turns, TRUE, until) EXCEPT !.open = FALSE]
<1> DEFINE shape == [turns : {turns}, open : BOOLEAN, until : {until}]
           x == Booked(turns, TRUE, until)
           y == Booked(turns, FALSE, until)
           closed == [x EXCEPT !.open = FALSE]
<1>1. x \in shape /\ y \in shape /\ x.turns = turns /\ x.until = until
  BY DEF Booked
<1>2. y.open = FALSE /\ y.turns = turns /\ y.until = until
  BY DEF Booked
<1> HIDE DEF x, y
<1>3. closed \in shape
  BY <1>1
<1>4. closed.open = FALSE /\ closed.turns = turns /\ closed.until = until
  BY <1>1
<1> HIDE DEF closed
<1>5. y = closed
  BY <1>1, <1>2, <1>3, <1>4
<1> QED
  BY <1>5 DEF closed, x, y

LEMMA EntryTurned ==
    ASSUME NEW n \in Nat, NEW until,
           NEW x, x = [turns |-> n - 1, open |-> TRUE, until |-> until],
           NEW y, y = [turns |-> (n + 1) - 1, open |-> TRUE, until |-> until]
    PROVE  x.open /\ y = [x EXCEPT !.turns = @ + 1]
<1> DEFINE k == x.turns + 1
           turned == [x EXCEPT !.turns = k]
<1>1. /\ x \in [turns : Int, open : BOOLEAN, until : {until}]
      /\ x.turns = n - 1 /\ x.open = TRUE /\ x.until = until
  OBVIOUS
<1>2. k \in Int /\ k = (n + 1) - 1
  BY <1>1
<1> HIDE DEF k
<1>3. turned \in [turns : Int, open : BOOLEAN, until : {until}]
  BY <1>1, <1>2
<1>4. turned.open = TRUE /\ turned.turns = k /\ turned.until = until
  BY <1>1
<1>5. /\ y \in [turns : Int, open : BOOLEAN, until : {until}]
      /\ y.open = TRUE /\ y.turns = k /\ y.until = until
  BY <1>2
<1> HIDE DEF turned
<1>6. y = turned
  BY <1>3, <1>4, <1>5
<1> QED
  BY <1>1, <1>6 DEF turned, k

\* An entry with the same rows keeps its turns and its end, and is closed if anything.
LEMMA EntryStands ==
    ASSUME NEW f, rowsOf(f)' = rowsOf(f),
           (tokens[f].familyExpiresAt)' = tokens[f].familyExpiresAt,
           IsOpen(f)' => IsOpen(f)
    PROVE  /\ Entry(f)' = Entry(f) \/ Entry(f)' = [Entry(f) EXCEPT !.open = FALSE]
           /\ (IsOpen(f) => IsOpen(f)') => Entry(f)' = Entry(f)
<1> DEFINE turns == Cardinality(rowsOf(f)) - 1
           until == tokens[f].familyExpiresAt
<1>1. /\ Entry(f) = [turns |-> turns, open |-> IsOpen(f), until |-> until]
      /\ Entry(f)' = [turns |-> turns, open |-> IsOpen(f)', until |-> until]
  BY DEF Entry
<1>2. IsOpen(f) \in BOOLEAN /\ IsOpen(f)' \in BOOLEAN
  BY DEF IsOpen
<1> HIDE DEF turns, until
<1>3. CASE IsOpen(f)' = IsOpen(f)
  BY <1>1, <1>3
<1>4. CASE IsOpen(f)' # IsOpen(f)
  <2>1. IsOpen(f) = TRUE /\ IsOpen(f)' = FALSE
    BY <1>2, <1>4
  <2>2. /\ Entry(f) = Booked(turns, TRUE, until)
        /\ Entry(f)' = Booked(turns, FALSE, until)
    BY <1>1, <2>1 DEF Booked
  <2>3. Entry(f)' = [Entry(f) EXCEPT !.open = FALSE]
    <3> PICK n, u : n = turns /\ u = until
      OBVIOUS
    <3> DEFINE x == Booked(n, TRUE, u)
               y == Booked(n, FALSE, u)
               closed == [x EXCEPT !.open = FALSE]
    <3>1. y = closed
      BY EntryClosed
    <3>2. Entry(f) = x /\ Entry(f)' = y
      BY <2>2
    <3> HIDE DEF x, y
    <3> QED
      BY <3>1, <3>2
  <2> QED
    BY <2>1, <2>3
<1> QED
  BY <1>3, <1>4

\* The families are ids of rows.
LEMMA FamiliesRooted ==
    ASSUME IInv
    PROVE  families \subseteq DOMAIN tokens
BY DEF IInv, Rooted, families

\* A session that gets no row: the step may close it, but not open it, and one
\* whose rows do not change keeps its entry.
LEMMA SessionWithoutNewRow ==
    ASSUME IInv, NEW r \in Requests, Commits(r), NEW f \in families,
           \A s \in DOMAIN tokens' \ DOMAIN tokens : tokens'[s].familyId # f
    PROVE  /\ f \in families'
           /\ Entry(f)' = Entry(f) \/ Entry(f)' = [Entry(f) EXCEPT !.open = FALSE]
           /\ (\A t \in rowsOf(f) : tokens'[t] = tokens[t]) => Entry(f)' = Entry(f)
<1>1. f \in DOMAIN tokens
  BY FamiliesRooted
<1>2. rowsOf(f)' = rowsOf(f)
  BY DEF Commits, Kept, rowsOf
<1>3. (tokens[f].familyExpiresAt)' = tokens[f].familyExpiresAt
  BY <1>1 DEF Commits, Kept
<1>4. ASSUME NEW t \in rowsOf(f)
      PROVE  SuccessorsOf(t)' = SuccessorsOf(t)
  <2>1. t \in DOMAIN tokens /\ tokens[t].familyId = f
    BY DEF rowsOf
  <2>2. ASSUME NEW s \in SuccessorsOf(t)', s \notin SuccessorsOf(t)
        PROVE  FALSE
    <3>1. s \notin DOMAIN tokens /\ NewSuccessor(r, s) /\ req[r].op.token = t
      BY <2>1, <2>2, SuccessorsAfter
    <3>2. s \in DOMAIN tokens'
      BY DEF SuccessorsOf
    <3> QED
      BY <2>1, <3>1, <3>2 DEF NewSuccessor
  <2> QED
    BY <2>1, <2>2, SuccessorsAfter
<1>5. \A t \in rowsOf(f) : tokens'[t].revokedAt = NoTime => tokens[t].revokedAt = NoTime
  BY DEF Commits, Kept, rowsOf
<1>6. IsOpen(f)' => IsOpen(f)
  BY <1>2, <1>4, <1>5 DEF IsOpen
<1>7. (\A t \in rowsOf(f) : tokens'[t] = tokens[t]) => (IsOpen(f) => IsOpen(f)')
  BY <1>2, <1>4 DEF IsOpen
<1>8. f \in families'
  <2>1. PICK t \in DOMAIN tokens : tokens[t].familyId = f
    BY DEF families
  <2>2. t \in DOMAIN tokens' /\ tokens'[t].familyId = f
    BY <2>1 DEF Commits, Kept
  <2> QED
    BY <2>2 DEF families
<1> QED
  BY <1>2, <1>3, <1>6, <1>7, <1>8, EntryStands

\* A commit without a new row ends sessions or leaves them alone.
LEMMA NoNewRowEnds ==
    ASSUME IInv, NEW r \in Requests, Commits(r), DOMAIN tokens' \subseteq DOMAIN tokens
    PROVE  /\ families' = families
           /\ \A f \in families :
                 Entry(f)' = Entry(f) \/ Entry(f)' = [Entry(f) EXCEPT !.open = FALSE]
<1>1. families' \subseteq families
  BY DEF Commits, Kept, families
<1>2. \A f \in families :
         /\ f \in families'
         /\ Entry(f)' = Entry(f) \/ Entry(f)' = [Entry(f) EXCEPT !.open = FALSE]
  BY SessionWithoutNewRow
<1> QED
  BY <1>1, <1>2

\* A row nobody was rotated from is the open end of its session.
LEMMA NewRowIsTip ==
    ASSUME IInv, NEW r \in Requests, Commits(r),
           NEW s \in DOMAIN tokens' \ DOMAIN tokens
    PROVE  SuccessorsOf(s)' = {}
<1>1. ASSUME NEW u \in DOMAIN tokens', tokens'[u].rotatedFrom = s
      PROVE  FALSE
  <2>1. s # None
    BY TokensAssumption DEF Commits
  <2>2. CASE u \in DOMAIN tokens
    BY <1>1, <2>1, <2>2 DEF Commits, Kept, IInv, Rooted
  <2>3. CASE u \notin DOMAIN tokens
    BY <1>1, <2>1, <2>3 DEF Commits, NewRoot, NewSuccessor, IInv, InFlight
  <2> QED
    BY <2>2, <2>3
<1> QED
  BY <1>1 DEF SuccessorsOf

\* A login opens a session: a new entry, without a turn.
LEMMA RootOpens ==
    ASSUME IInv, NEW r \in Requests, Commits(r),
           NEW s \in DOMAIN tokens' \ DOMAIN tokens, NewRoot(r, s),
           tokens'[s].revokedAt = NoTime
    PROVE  /\ s \notin families
           /\ families' = families \union {s}
           /\ Entry(s)' = [turns |-> 0, open |-> TRUE, until |-> (tokens[s].familyExpiresAt)']
           /\ \A f \in families :
                 \A u \in DOMAIN tokens' \ DOMAIN tokens : tokens'[u].familyId # f
<1>1. s \notin families
  BY FamiliesRooted
<1>2. DOMAIN tokens' = DOMAIN tokens \union {s} /\ tokens'[s].familyId = s
  BY DEF Commits, Kept, NewRoot
<1>3. families' = families \union {s}
  BY <1>2 DEF Commits, Kept, families
<1>4. rowsOf(s)' = {s}
  <2>1. \A t \in DOMAIN tokens : tokens'[t].familyId # s
    BY <1>1 DEF Commits, Kept, families
  <2> QED
    BY <1>2, <2>1 DEF rowsOf
<1>5. Cardinality(rowsOf(s)') = 1
  BY <1>4, FS_Singleton
<1>6. IsOpen(s)' = TRUE
  BY <1>4, NewRowIsTip DEF IsOpen
<1>7. Entry(s)' = [turns |-> 0, open |-> TRUE, until |-> (tokens[s].familyExpiresAt)']
  <2>1. Entry(s)' = [turns |-> Cardinality(rowsOf(s)') - 1, open |-> IsOpen(s)',
                     until |-> (tokens[s].familyExpiresAt)']
    BY DEF Entry
  <2> QED
    BY <1>5, <1>6, <2>1
<1>8. \A f \in families :
         \A u \in DOMAIN tokens' \ DOMAIN tokens : tokens'[u].familyId # f
  BY <1>1, <1>2
<1> QED
  BY <1>1, <1>3, <1>7, <1>8

\* A rotation is a turn of one open session.
LEMMA SuccessorTurns ==
    ASSUME IInv, BookInv, NEW r \in Requests, Commits(r),
           NEW s \in DOMAIN tokens' \ DOMAIN tokens, NewSuccessor(r, s),
           tokens'[s].revokedAt = NoTime,
           NEW f, f = tokens[req[r].op.token].familyId
    PROVE  /\ f \in families /\ families' = families
           /\ Entry(f).open
           /\ Entry(f)' = [Entry(f) EXCEPT !.turns = @ + 1]
           /\ \A u \in DOMAIN tokens' \ DOMAIN tokens : tokens'[u].familyId = f
<1> DEFINE p == req[r].op.token
<1>1. /\ p \in DOMAIN tokens /\ SuccessorsOf(p) = {} /\ tokens[p].revokedAt = NoTime
      /\ tokens'[s].familyId = f
  BY DEF NewSuccessor, IInv, InFlight, MayMint
<1>2. DOMAIN tokens' = DOMAIN tokens \union {s}
  BY DEF Commits, Kept
<1>3. f \in families /\ f \in DOMAIN tokens
  BY <1>1, FamiliesRooted DEF families
<1>4. families' = families
  BY <1>1, <1>2, <1>3 DEF Commits, Kept, families
<1>5. IsOpen(f) = TRUE
  BY <1>1 DEF IsOpen, rowsOf
<1>6. rowsOf(f)' = rowsOf(f) \union {s} /\ s \notin rowsOf(f)
  BY <1>1, <1>2 DEF Commits, Kept, rowsOf
<1>7. IsOpen(f)' = TRUE
  BY <1>6, NewRowIsTip DEF IsOpen
<1>8. IsFiniteSet(rowsOf(f))
  BY FS_Subset DEF BookInv, rowsOf
<1>9. /\ Cardinality(rowsOf(f)') = Cardinality(rowsOf(f)) + 1
      /\ Cardinality(rowsOf(f)) \in Nat
  BY <1>6, <1>8, FS_AddElement, FS_CardinalityType
<1>10. (tokens[f].familyExpiresAt)' = tokens[f].familyExpiresAt
  BY <1>3 DEF Commits, Kept
<1>11. Entry(f).open /\ Entry(f)' = [Entry(f) EXCEPT !.turns = @ + 1]
  <2> DEFINE n == Cardinality(rowsOf(f))
             until == tokens[f].familyExpiresAt
  <2>1. Entry(f) = [turns |-> n - 1, open |-> TRUE, until |-> until]
    BY <1>5 DEF Entry
  <2>2. Entry(f)' = [turns |-> (n + 1) - 1, open |-> TRUE, until |-> until]
    BY <1>7, <1>9, <1>10 DEF Entry
  <2>3. n \in Nat
    BY <1>9
  <2> HIDE DEF n, until
  <2> QED
    BY <2>1, <2>2, <2>3, EntryTurned
<1>12. \A u \in DOMAIN tokens' \ DOMAIN tokens : tokens'[u].familyId = f
  BY <1>1, <1>2
<1> QED
  BY <1>3, <1>4, <1>11, <1>12

-----------------------------------------------------------------------------
\* The book as a function of the table, to which SessionBook is applied.
Sessions == [f \in families |-> Entry(f)]

Opens ==
    \E s \in DOMAIN Sessions' \ DOMAIN Sessions :
        /\ DOMAIN Sessions' = DOMAIN Sessions \union {s}
        /\ Sessions'[s] = [turns |-> 0, open |-> TRUE, until |-> Sessions'[s].until]
        /\ \/ \A t \in DOMAIN Sessions : Sessions'[t] = Sessions[t]
           \/ \E e \in DOMAIN Sessions :
                 /\ Sessions'[e] = [Sessions[e] EXCEPT !.open = FALSE]
                 /\ \A t \in DOMAIN Sessions \ {e} : Sessions'[t] = Sessions[t]

Refreshes ==
    \E s \in DOMAIN Sessions :
        /\ Sessions[s].open
        /\ Sessions' = [Sessions EXCEPT ![s].turns = @ + 1]

Ends ==
    /\ DOMAIN Sessions' = DOMAIN Sessions
    /\ \A s \in DOMAIN Sessions :
          Sessions'[s] \in {Sessions[s], [Sessions[s] EXCEPT !.open = FALSE]}

\* A table that does not change keeps the book.
LEMMA SameTableSameBook ==
    ASSUME UNCHANGED tokens
    PROVE  Sessions' = Sessions
BY DEF Sessions, families, Entry, IsOpen, rowsOf, SuccessorsOf

\* Entries are looked up by their session.
LEMMA Lookup ==
    /\ DOMAIN Sessions = families /\ DOMAIN Sessions' = families'
    /\ \A f \in families : Sessions[f] = Entry(f)
    /\ \A f \in families' : Sessions'[f] = Entry(f)'
BY DEF Sessions

\* A mint without eviction opens a session or is a turn of one.
LEMMA MintBooks ==
    ASSUME IInv, BookInv, NEW r \in Requests, Mint(r)
    PROVE  Opens \/ Refreshes
<1>1. Commits(r) /\ req[r].pc = "mint" /\ req[r].op.kind \in {"login", "rotate"}
  BY MintCommits DEF Mint, IInv, InFlight
<1>2. PICK id \in Tokens \ DOMAIN tokens, c \in req[r].now .. clock :
          tokens' = Insert(tokens, id, newRow(r, id, c))
  BY DEF Mint, InsertInto
<1>3. /\ id \in DOMAIN tokens' \ DOMAIN tokens
      /\ tokens'[id] = newRow(r, id, c)
      /\ \A t \in DOMAIN tokens : tokens'[t] = tokens[t]
  BY <1>2 DEF Insert
<1>4. tokens'[id].revokedAt = NoTime
  BY <1>1, <1>3 DEF newRow, newToken, successorOf
<1>5. \A f \in families : \A t \in rowsOf(f) : tokens'[t] = tokens[t]
  BY <1>3 DEF rowsOf
<1>6. CASE NewRoot(r, id)
  <2>1. /\ id \notin families /\ families' = families \union {id}
        /\ Entry(id)' = [turns |-> 0, open |-> TRUE, until |-> (tokens[id].familyExpiresAt)']
        /\ \A f \in families :
              \A u \in DOMAIN tokens' \ DOMAIN tokens : tokens'[u].familyId # f
    BY <1>1, <1>3, <1>4, <1>6, RootOpens
  <2>2. \A f \in families : Entry(f)' = Entry(f)
    BY <1>1, <1>5, <2>1, SessionWithoutNewRow
  <2>3. /\ Sessions'[id] = [turns |-> 0, open |-> TRUE, until |-> Sessions'[id].until]
        /\ \A f \in families : Sessions'[f] = Sessions[f]
    BY <2>1, <2>2, Lookup
  <2> QED
    BY <2>1, <2>3, Lookup DEF Opens
<1>7. CASE NewSuccessor(r, id)
  <2> PICK f : f = tokens[req[r].op.token].familyId
    OBVIOUS
  <2>1. /\ f \in families /\ families' = families
        /\ Entry(f).open
        /\ Entry(f)' = [Entry(f) EXCEPT !.turns = @ + 1]
        /\ \A u \in DOMAIN tokens' \ DOMAIN tokens : tokens'[u].familyId = f
    BY <1>1, <1>3, <1>4, <1>7, SuccessorTurns
  <2>2. \A g \in families \ {f} : Entry(g)' = Entry(g)
    BY <1>1, <1>5, <2>1, SessionWithoutNewRow
  <2> DEFINE turned == [Entry(f) EXCEPT !.turns = @ + 1]
  <2>3. Sessions' = [g \in families |-> IF g = f THEN turned ELSE Entry(g)]
    <3>1. Sessions' = [g \in families' |-> Entry(g)']
      BY DEF Sessions
    <3> HIDE DEF turned
    <3>2. \A g \in families : Entry(g)' = IF g = f THEN turned ELSE Entry(g)
      BY <2>1, <2>2 DEF turned
    <3> QED
      BY <2>1, <3>1, <3>2
  <2>4. Sessions' = [Sessions EXCEPT ![f].turns = @ + 1]
    BY <2>1, <2>3 DEF Sessions
  <2>5. Sessions[f].open
    BY <2>1, Lookup
  <2> QED
    BY <2>1, <2>4, <2>5, Lookup DEF Refreshes
<1> QED
  BY <1>1, <1>3, <1>6, <1>7 DEF Commits

\* A login that evicts opens a session and ends at most the one it evicts; any
\* other revocation only ends sessions.
LEMMA FinishRevokeBooks ==
    ASSUME IInv, BookInv, NEW r \in Requests, FinishRevoke(r)
    PROVE  Opens \/ Ends
<1>1. Commits(r) /\ req[r].pc = "revoking"
  BY FinishRevokeCommits DEF FinishRevoke
<1>2. CASE req[r].op.kind = "login"
  <2>1. PICK id \in Tokens \ DOMAIN tokens, c \in req[r].now .. clock :
            tokens' = Insert(revoked(r), id, newRow(r, id, c))
    BY <1>2 DEF FinishRevoke, InsertInto
  <2>2. DOMAIN revoked(r) = DOMAIN tokens
    BY DEF revoked
  <2>3. /\ id \in DOMAIN tokens' \ DOMAIN tokens
        /\ tokens'[id] = newRow(r, id, c)
        /\ \A t \in DOMAIN tokens : tokens'[t] = revoked(r)[t]
    BY <2>1, <2>2 DEF Insert
  <2>4. tokens'[id].revokedAt = NoTime
    BY <1>2, <2>3 DEF newRow, newToken
  <2>5. PICK e \in Tokens : \A t \in req[r].rows :
            t \in DOMAIN tokens /\ tokens[t].familyId = e
    BY <1>1, <1>2 DEF BookInv, OneScope
  <2>6. \A f \in families \ {e} : \A t \in rowsOf(f) : tokens'[t] = tokens[t]
    BY <2>3, <2>5 DEF rowsOf, revoked
  <2>7. NewRoot(r, id)
    BY <1>1, <2>3 DEF Commits, NewSuccessor
  <2>8. /\ id \notin families /\ families' = families \union {id}
        /\ Entry(id)' = [turns |-> 0, open |-> TRUE, until |-> (tokens[id].familyExpiresAt)']
        /\ \A f \in families :
              \A u \in DOMAIN tokens' \ DOMAIN tokens : tokens'[u].familyId # f
    BY <1>1, <2>3, <2>4, <2>7, RootOpens
  <2>9. /\ \A f \in families \ {e} : Entry(f)' = Entry(f)
        /\ e \in families =>
              Entry(e)' = Entry(e) \/ Entry(e)' = [Entry(e) EXCEPT !.open = FALSE]
    BY <1>1, <2>6, <2>8, SessionWithoutNewRow
  <2>10. /\ Sessions'[id] = [turns |-> 0, open |-> TRUE, until |-> Sessions'[id].until]
         /\ \A f \in families \ {e} : Sessions'[f] = Sessions[f]
         /\ e \in families => \/ Sessions'[e] = Sessions[e]
                              \/ Sessions'[e] = [Sessions[e] EXCEPT !.open = FALSE]
    <3>1. /\ Sessions'[id] = [turns |-> 0, open |-> TRUE, until |-> Sessions'[id].until]
          /\ \A f \in families \ {e} : Sessions'[f] = Sessions[f]
      BY <2>8, <2>9, Lookup
    <3>2. e \in families => Sessions[e] = Entry(e) /\ Sessions'[e] = Entry(e)'
      BY <2>8, Lookup
    <3> QED
      BY <2>9, <3>1, <3>2, Zenon
  <2> QED
    BY <2>8, <2>10, Lookup DEF Opens
<1>3. CASE req[r].op.kind # "login"
  <2>1. DOMAIN tokens' \subseteq DOMAIN tokens
    BY <1>3 DEF FinishRevoke, revoked
  <2> QED
    BY <1>1, <2>1, NoNewRowEnds, Lookup DEF Ends
<1> QED
  BY <1>2, <1>3

\* Every step is a step of the book, or none.
LEMMA NextBooks ==
    ASSUME IInv, BookInv, [Next]_vars
    PROVE  Ends \/ Opens \/ Refreshes \/ UNCHANGED Sessions
<1>1. ASSUME NEW r \in Requests, Step(r)
      PROVE  Ends \/ Opens \/ Refreshes \/ UNCHANGED tokens
  BY <1>1, MintBooks, FinishRevokeBooks
     DEF Step, CountFamilies, LockRow, ReadSuccessor, Decide, StartRevoke, Abort
<1>2. (\E r \in Requests : \E o \in Ops : Arrive(r, o)) => UNCHANGED tokens
  BY DEF Arrive
<1>3. PassTime \/ UNCHANGED vars => UNCHANGED tokens
  BY DEF PassTime, vars
<1>4. UNCHANGED tokens => UNCHANGED Sessions
  BY SameTableSameBook
<1> QED
  BY <1>1, <1>2, <1>3, <1>4 DEF Next

\* The refresh tokens implement the book of sessions: whatever races, no session
\* comes back or moves its end, a refresh counts once and only while the session
\* is open, and a login ends at most the one session it evicts.
THEOREM BookKept == Spec => KeepsTheBook
<1>1. Init => Book!Init /\ BookInv
  <2> SUFFICES ASSUME Init PROVE Book!Init /\ BookInv
    OBVIOUS
  <2>1. DOMAIN tokens = {} /\ \A r \in Requests : req[r] = Idle
    BY DEF Init
  <2>2. BookInv
    BY <2>1, FS_EmptySet DEF BookInv, OneScope, Idle, NoOp
  <2>3. families = {}
    BY <2>1 DEF families
  <2> QED
    BY <2>2, <2>3 DEF Book!Init
<1>2. IInv /\ BookInv /\ [Next]_vars => BookInv'
  BY NextKeepsBookInv
<1>3. ASSUME IInv, BookInv, [Next]_vars
      PROVE  [Book!Next]_(Sessions)
  <2>1. CASE Ends
    BY <2>1 DEF Ends, Book!Next, Book!End, Book!Ended, Sessions, Entry, IsOpen
  <2>2. CASE Opens
    BY <2>2 DEF Opens, Book!Next, Book!Open, Book!Ended, Sessions, Entry, IsOpen
  <2>3. CASE Refreshes
    BY <2>3 DEF Refreshes, Book!Next, Book!Refresh, Sessions, Entry, IsOpen
  <2> QED
    BY <1>3, <2>1, <2>2, <2>3, NextBooks
<1> QED
  BY <1>1, <1>2, <1>3, InitIInv, Invariant, PTL
     DEF Spec, KeepsTheBook, Book!Spec, Sessions, Entry, IsOpen
=============================================================================
