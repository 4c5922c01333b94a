------------------------- MODULE CredentialsProofs -------------------------
(***************************************************************************)
(* Theorems about Credentials, for every set of users, organizations,      *)
(* roles, passwords and requests, and every bound on the changes.          *)
(***************************************************************************)
EXTENDS Credentials, TLAPS

\* What a request carries, by handler.
Reasons ==
    {"caller_not_authorized", "target_not_active_member", "caller_is_target",
     "target_active_in_other_org", "target_is_owner"}

Creating == [pc : {"create"}, user : Users, new : Passwords]
LoggingIn ==
    [pc : {"rehash", "issue"}, user : Users, new : Passwords, at : 0..MaxChanges]
Changing ==
    [pc : {"update", "revoke"}, user : Users, new : Passwords,
     spare : SessionIds \union {None}]
Resetting ==
    [pc : {"lock", "decide", "write", "decideAgain", "commit", "revoke"},
     user : Users, caller : Users, org : Orgs, new : Passwords,
     spare : {None}, against : SUBSET Reasons]

Forms == {Idle} \union Creating \union LoggingIn \union Changing \union Resetting

\* The session that is spared is, while it lasts, one of the user's own.
SparesOwn(q, S) ==
    q.pc \in {"update", "revoke"} /\ q.spare \in DOMAIN S => S[q.spare].user = q.user

\* A reset that was decided for is about a user who exists, ...
TargetExists(q, h) == q.pc \in {"write", "decideAgain"} => h[q.user] # None

\* ... what spoke against its write all along still does, ...
StillAgainst(q, h, m) ==
    q.pc = "decideAgain" =>
        q.against \subseteq decideAdminReset(h, m, q.caller, q.org, q.user)

\* ... and nothing did when the second decision let it through.
Unopposed(q) == q.pc = "commit" => q.against = {}

Sound(q, S, h, m) ==
    SparesOwn(q, S) /\ TargetExists(q, h) /\ StillAgainst(q, h, m) /\ Unopposed(q)

\* The inductive invariant.
IInv ==
    /\ TypeOK
    /\ req \in [Requests -> Forms]
    /\ \A r \in Requests : Sound(req[r], sessions, hash, member)
    /\ OutdatedSessionsEnd

-----------------------------------------------------------------------------
\* The place a request has reached tells which handler it is in.
LEMMA FormByPlace ==
    ASSUME NEW q \in Forms
    PROVE  /\ q.pc = "create" => q \in Creating
           /\ q.pc \in {"rehash", "issue"} => q \in LoggingIn
           /\ q.pc = "update" => q \in Changing
           /\ q.pc = "revoke" => q \in Changing \union Resetting
           /\ q.pc \in {"lock", "decide", "write", "decideAgain", "commit"}
                => q \in Resetting
           /\ q # Idle => q.pc # "idle"
  BY DEF Forms, Idle, Creating, LoggingIn, Changing, Resetting

\* A reset is refused for one of five reasons.
LEMMA RefusalsTyped ==
    ASSUME NEW h, NEW m, NEW c, NEW o, NEW u
    PROVE  decideAdminReset(h, m, c, o, u) \in SUBSET Reasons
  BY DEF decideAdminReset, Reasons

\* The decision looks at a user's row only to see whether there is one.
LEMMA SameRefusals ==
    ASSUME NEW h, NEW k, NEW m, NEW c, NEW o, NEW u, h[u] # None, k[u] # None
    PROVE  decideAdminReset(h, m, c, o, u) = decideAdminReset(k, m, c, o, u)
  BY DEF decideAdminReset

\* A reset that nothing refuses is about a user who exists.
LEMMA UnrefusedTarget ==
    ASSUME NEW h, NEW m, NEW c, NEW o, NEW u, decideAdminReset(h, m, c, o, u) = {}
    PROVE  h[u] # None
  BY DEF decideAdminReset

-----------------------------------------------------------------------------
\* What a step of one request leaves to the others: users stay, a session keeps
\* its user, and a new one is none that a request means to spare.
Steady ==
    /\ \A u \in Users : hash[u] # None => hash'[u] # None
    /\ \A i \in DOMAIN sessions' :
          IF i \in DOMAIN sessions THEN sessions'[i].user = sessions[i].user
                                   ELSE i \notin Spares
    /\ member' = member

LEMMA SoundStays ==
    ASSUME IInv, Steady, NEW q \in Requests
    PROVE  Sound(req[q], sessions', hash', member')
<1> DEFINE x == req[q]
<1>1. x \in Forms /\ Sound(x, sessions, hash, member)
  BY DEF IInv
<1>2. SparesOwn(x, sessions')
  <2>1. x.pc \in {"update", "revoke"} => x.spare \in Spares
    BY DEF Spares
  <2> QED
    BY <1>1, <2>1 DEF Sound, SparesOwn, Steady
<1>3. TargetExists(x, hash')
  <2>1. x.pc \in {"write", "decideAgain"} => x.user \in Users
    BY <1>1, FormByPlace DEF Resetting
  <2> QED
    BY <1>1, <2>1 DEF Sound, TargetExists, Steady
<1>4. StillAgainst(x, hash', member')
  <2> SUFFICES ASSUME x.pc = "decideAgain"
               PROVE  x.against \subseteq decideAdminReset(hash', member', x.caller, x.org, x.user)
    BY DEF StillAgainst
  <2>1. hash[x.user] # None /\ hash'[x.user] # None
    BY <1>1, <1>3 DEF Sound, TargetExists
  <2>2. decideAdminReset(hash, member, x.caller, x.org, x.user)
        = decideAdminReset(hash', member, x.caller, x.org, x.user)
    BY <2>1, SameRefusals
  <2> QED
    BY <1>1, <2>2 DEF Sound, StillAgainst, Steady
<1> QED
  BY <1>1, <1>2, <1>3, <1>4 DEF Sound

\* One request moves, the others stand.
LEMMA OneRequestMoves ==
    ASSUME IInv, Steady, NEW r \in Requests, NEW new \in Forms,
           req' = [req EXCEPT ![r] = new],
           Sound(new, sessions', hash', member'),
           TypeOK', OutdatedSessionsEnd'
    PROVE  IInv'
<1>1. req' \in [Requests -> Forms]
  BY DEF IInv
<1>2. req'[r] = new /\ \A q \in Requests \ {r} : req'[q] = req[q]
  BY DEF IInv
<1>3. \A q \in Requests : Sound(req[q], sessions', hash', member')
  BY SoundStays
<1>4. \A q \in Requests : Sound(req'[q], sessions', hash', member')
  BY <1>2, <1>3
<1> QED
  BY <1>1, <1>4 DEF IInv

\* The sessions still owed to a revocation are owed after a step of a request
\* that is not to revoke, nor opens a session, nor changes a password.
LEMMA OwedStays ==
    ASSUME IInv, NEW r \in Requests, NEW new, req' = [req EXCEPT ![r] = new],
           req[r].pc # "revoke", UNCHANGED <<sessions, changes, lost>>
    PROVE  OutdatedSessionsEnd'
<1>1. \A q \in Requests \ {r} : req'[q] = req[q]
  BY DEF IInv
<1> QED
  BY <1>1 DEF IInv, OutdatedSessionsEnd, Ids

\* Nor does such a step end what is sound with the tables as they are.
LEMMA TablesStand ==
    ASSUME UNCHANGED <<sessions, hash, member>>
    PROVE  Steady
  BY DEF Steady

\* A request that ends carries nothing.
LEMMA IdleSound ==
    ASSUME NEW S, NEW h, NEW m
    PROVE  Idle \in Forms /\ Sound(Idle, S, h, m)
  BY DEF Forms, Idle, Sound, SparesOwn, TargetExists, StillAgainst, Unopposed

-----------------------------------------------------------------------------
\* Initially nobody is logged in and nothing is under way.
LEMMA InitIInv == Init => IInv
<1> SUFFICES ASSUME Init PROVE IInv
  OBVIOUS
<1>1. TypeOK
  <2>1. PICK p \in Passwords \ Weak : hash \in [Users -> {None, [pw |-> p, outdated |-> TRUE]}]
    BY DEF Init
  <2>2. hash \in [Users -> {None} \union [pw : Passwords, outdated : BOOLEAN]]
    <3>1. [pw |-> p, outdated |-> TRUE] \in [pw : Passwords, outdated : BOOLEAN]
      OBVIOUS
    <3>2. \A h \in {None, [pw |-> p, outdated |-> TRUE]} :
              h \in {None} \union [pw : Passwords, outdated : BOOLEAN]
      BY <3>1
    <3> QED
      BY <2>1, <3>2
  <2>3. 0 \in 0..MaxChanges
    BY CredentialsAssumption
  <2> QED
    BY <2>2, <2>3, CredentialsAssumption DEF Init, TypeOK, Ids
<1>2. \A r \in Requests : req[r] = Idle
  BY DEF Init
<1> QED
  BY <1>1, <1>2, IdleSound DEF Init, IInv, OutdatedSessionsEnd, Ids

-----------------------------------------------------------------------------
\* A step that writes no table, and revokes nothing.
LEMMA QuietStep ==
    ASSUME IInv, NEW r \in Requests, NEW new \in Forms, req[r].pc # "revoke",
           req' = [req EXCEPT ![r] = new], UNCHANGED <<Tables, member>>,
           rowLock' \in [Users -> Requests \union {None}],
           Sound(new, sessions, hash, member)
    PROVE  IInv'
<1>1. UNCHANGED <<sessions, changes, lost>> /\ UNCHANGED <<sessions, hash, member>>
  BY DEF Tables
<1>2. TypeOK'
  BY <1>1 DEF IInv, TypeOK, Ids
<1>3. Sound(new, sessions', hash', member')
  BY <1>1
<1>4. OutdatedSessionsEnd'
  BY <1>1, OwedStays
<1>5. Steady
  BY <1>1, TablesStand
<1> QED
  BY <1>2, <1>3, <1>4, <1>5, OneRequestMoves

\* A handler that starts has only read.
LEMMA StartKeepsIInv ==
    ASSUME IInv, NEW r \in Requests, NEW new \in Forms, req[r] = Idle,
           req' = [req EXCEPT ![r] = new], UNCHANGED <<Tables, Others>>,
           new.pc \in {"create", "rehash", "issue", "update", "lock"},
           SparesOwn(new, sessions)
    PROVE  IInv'
<1>1. Sound(new, sessions, hash, member)
  BY DEF Sound, TargetExists, StillAgainst, Unopposed
<1>2. req[r].pc # "revoke" /\ UNCHANGED <<Tables, member>>
  BY DEF Idle, Others
<1>3. rowLock' \in [Users -> Requests \union {None}]
  BY DEF IInv, TypeOK, Others
<1> QED
  BY <1>1, <1>2, <1>3, QuietStep

LEMMA signupKeepsIInv ==
    ASSUME IInv, NEW r \in Requests, NEW u \in Users, NEW p \in Passwords, signup(r, u, p)
    PROVE  IInv'
<1> DEFINE new == [pc |-> "create", user |-> u, new |-> p]
<1>1. new \in Forms /\ new.pc = "create" /\ SparesOwn(new, sessions)
  BY DEF Forms, Creating, SparesOwn
<1>2. req[r] = Idle /\ req' = [req EXCEPT ![r] = new] /\ UNCHANGED <<Tables, Others>>
  BY DEF signup
<1> HIDE DEF new
<1> QED
  BY <1>1, <1>2, StartKeepsIInv

LEMMA loginKeepsIInv ==
    ASSUME IInv, NEW r \in Requests, NEW u \in Users, NEW p \in Passwords, login(r, u, p)
    PROVE  IInv'
<1> DEFINE new == [pc |-> IF needsRehash(hash[u]) THEN "rehash" ELSE "issue",
                   user |-> u, new |-> p, at |-> changes[u]]
<1>1. changes[u] \in 0..MaxChanges
  BY DEF IInv, TypeOK
<1>2. new \in LoggingIn
  BY <1>1 DEF LoggingIn
<1>3. new \in Forms /\ new.pc \in {"rehash", "issue"} /\ SparesOwn(new, sessions)
  BY <1>2 DEF Forms, SparesOwn
<1>4. req[r] = Idle /\ req' = [req EXCEPT ![r] = new] /\ UNCHANGED <<Tables, Others>>
  BY DEF login
<1> HIDE DEF new
<1> QED
  BY <1>3, <1>4, StartKeepsIInv

LEMMA changePasswordKeepsIInv ==
    ASSUME IInv, NEW r \in Requests, NEW u \in Users, NEW p \in Passwords, NEW q \in Passwords,
           NEW s \in Ids \union {None}, changePassword(r, u, p, q, s)
    PROVE  IInv'
<1> DEFINE new == [pc |-> "update", user |-> u, new |-> q, spare |-> s]
<1>1. s \in SessionIds \union {None}
  BY DEF IInv, TypeOK
<1>2. new \in Changing
  BY <1>1 DEF Changing
<1>3. s \in Ids => s # None
  BY CredentialsAssumption DEF IInv, TypeOK
<1>4. SparesOwn(new, sessions)
  BY <1>3 DEF SparesOwn, changePassword, Ids
<1>5. new \in Forms /\ new.pc = "update"
  BY <1>2 DEF Forms
<1>6. req[r] = Idle /\ req' = [req EXCEPT ![r] = new] /\ UNCHANGED <<Tables, Others>>
  BY DEF changePassword
<1> HIDE DEF new
<1> QED
  BY <1>4, <1>5, <1>6, StartKeepsIInv

LEMMA adminResetKeepsIInv ==
    ASSUME IInv, NEW r \in Requests, NEW c \in Users, NEW o \in Orgs, NEW u \in Users,
           NEW p \in Passwords, adminResetPassword(r, c, o, u, p)
    PROVE  IInv'
<1> DEFINE new == [pc |-> "lock", user |-> u, caller |-> c, org |-> o, new |-> p,
                   spare |-> None, against |-> {}]
<1>1. new \in Resetting
  BY DEF Resetting
<1>2. new \in Forms /\ new.pc = "lock" /\ SparesOwn(new, sessions)
  BY <1>1 DEF Forms, SparesOwn
<1>3. req[r] = Idle /\ req' = [req EXCEPT ![r] = new] /\ UNCHANGED <<Tables, Others>>
  BY DEF adminResetPassword
<1> HIDE DEF new
<1> QED
  BY <1>2, <1>3, StartKeepsIInv

-----------------------------------------------------------------------------
\* The locks a request holds are released.
LEMMA LocksReleased ==
    ASSUME IInv, NEW r \in Requests
    PROVE  [u \in Users |-> IF rowLock[u] = r THEN None ELSE rowLock[u]]
               \in [Users -> Requests \union {None}]
  BY DEF IInv, TypeOK

LEMMA RollbackKeepsIInv ==
    ASSUME IInv, NEW r \in Requests, req[r].pc # "revoke", Rollback(r)
    PROVE  IInv'
<1>1. rowLock' \in [Users -> Requests \union {None}]
  BY LocksReleased DEF Rollback
<1>2. req' = [req EXCEPT ![r] = Idle] /\ UNCHANGED <<Tables, member>>
  BY DEF Rollback, Done
<1> QED
  BY <1>1, <1>2, IdleSound, QuietStep

LEMMA lockUserKeepsIInv ==
    ASSUME IInv, NEW r \in Requests, lockUser(r)
    PROVE  IInv'
<1> DEFINE new == [req[r] EXCEPT !.pc = "decide"]
<1>1. req[r].pc = "lock" /\ req[r] \in Resetting
  BY FormByPlace DEF lockUser, IInv
<1>2. new \in Resetting /\ new.pc = "decide"
  BY <1>1 DEF Resetting
<1>3. req' = [req EXCEPT ![r] = new]
  BY DEF lockUser, Goto, IInv
<1>4. rowLock' \in [Users -> Requests \union {None}] /\ UNCHANGED <<Tables, member>>
  BY DEF lockUser, IInv, TypeOK
<1> HIDE DEF new
<1>5. Sound(new, sessions, hash, member)
  BY <1>2 DEF Sound, SparesOwn, TargetExists, StillAgainst, Unopposed
<1>6. new \in Forms
  BY <1>2 DEF Forms
<1> QED
  BY <1>1, <1>3, <1>4, <1>5, <1>6, QuietStep

LEMMA decideKeepsIInv ==
    ASSUME IInv, NEW r \in Requests, decide(r)
    PROVE  IInv'
<1> DEFINE new == [req[r] EXCEPT !.pc = "write"]
<1>1. req[r].pc = "decide" /\ req[r] \in Resetting
  BY FormByPlace DEF decide, IInv
<1>2. CASE Rollback(r)
  BY <1>1, <1>2, RollbackKeepsIInv
<1>3. CASE Refusals(member, r) = {} /\ Goto(r, "write") /\ UNCHANGED <<Tables, Others>>
  <2>1. new \in Resetting /\ new.pc = "write" /\ new.user = req[r].user
    BY <1>1 DEF Resetting
  <2>2. req' = [req EXCEPT ![r] = new]
    BY <1>3 DEF Goto, IInv
  <2>3. hash[req[r].user] # None
    BY <1>3, UnrefusedTarget DEF Refusals
  <2> HIDE DEF new
  <2>4. Sound(new, sessions, hash, member)
    BY <2>1, <2>3 DEF Sound, SparesOwn, TargetExists, StillAgainst, Unopposed
  <2>5. rowLock' \in [Users -> Requests \union {None}] /\ UNCHANGED <<Tables, member>>
    BY <1>3 DEF IInv, TypeOK, Others
  <2>6. new \in Forms
    BY <2>1 DEF Forms
  <2> QED
    BY <1>1, <2>2, <2>4, <2>5, <2>6, QuietStep
<1> QED
  BY <1>2, <1>3 DEF decide

LEMMA writeKeepsIInv ==
    ASSUME IInv, NEW r \in Requests, write(r)
    PROVE  IInv'
<1> DEFINE against == Refusals(member, r)
           new == [req[r] EXCEPT !.pc = "decideAgain", !.against = against]
<1>1. req[r].pc = "write" /\ req[r] \in Resetting
  BY FormByPlace DEF write, IInv
<1>2. against \in SUBSET Reasons
  BY RefusalsTyped DEF Refusals
<1>3. against = decideAdminReset(hash, member, req[r].caller, req[r].org, req[r].user)
  BY DEF Refusals
<1>4. req' = [req EXCEPT ![r] = new]
  BY DEF write, IInv
<1> HIDE DEF against
<1>5. /\ new \in Resetting /\ new.pc = "decideAgain" /\ new.against = against
      /\ new.user = req[r].user /\ new.caller = req[r].caller /\ new.org = req[r].org
  BY <1>1, <1>2 DEF Resetting
<1>6. hash[req[r].user] # None
  BY <1>1 DEF IInv, Sound, TargetExists
<1> HIDE DEF new
<1>7. Sound(new, sessions, hash, member)
  BY <1>3, <1>5, <1>6 DEF Sound, SparesOwn, TargetExists, StillAgainst, Unopposed
<1>8. rowLock' \in [Users -> Requests \union {None}] /\ UNCHANGED <<Tables, member>>
  BY DEF write, IInv, TypeOK, Others
<1>9. new \in Forms
  BY <1>5 DEF Forms
<1> QED
  BY <1>1, <1>4, <1>7, <1>8, <1>9, QuietStep

\* The second decision refuses whatever stood against the write all along.
LEMMA decideAgainKeepsIInv ==
    ASSUME IInv, NEW r \in Requests, decideAgain(r)
    PROVE  IInv'
<1> DEFINE new == [req[r] EXCEPT !.pc = "commit"]
<1>1. req[r].pc = "decideAgain" /\ req[r] \in Resetting
  BY FormByPlace DEF decideAgain, IInv
<1>2. CASE Rollback(r)
  BY <1>1, <1>2, RollbackKeepsIInv
<1>3. CASE Refusals(member, r) = {} /\ Goto(r, "commit") /\ UNCHANGED <<Tables, Others>>
  <2>1. new \in Resetting /\ new.pc = "commit" /\ new.against = req[r].against
    BY <1>1 DEF Resetting
  <2>2. req' = [req EXCEPT ![r] = new]
    BY <1>3 DEF Goto, IInv
  <2>3. req[r].against = {}
    BY <1>1, <1>3 DEF Refusals, IInv, Sound, StillAgainst
  <2> HIDE DEF new
  <2>4. Sound(new, sessions, hash, member)
    BY <2>1, <2>3 DEF Sound, SparesOwn, TargetExists, StillAgainst, Unopposed
  <2>5. rowLock' \in [Users -> Requests \union {None}] /\ UNCHANGED <<Tables, member>>
    BY <1>3 DEF IInv, TypeOK, Others
  <2>6. new \in Forms
    BY <2>1 DEF Forms
  <2> QED
    BY <1>1, <2>2, <2>4, <2>5, <2>6, QuietStep
<1> QED
  BY <1>2, <1>3 DEF decideAgain

-----------------------------------------------------------------------------
\* Writing a password leaves every other User alone, and none without a row.
LEMMA HashWritten ==
    ASSUME IInv, NEW u \in Users, NEW p \in Passwords,
           hash' = [hash EXCEPT ![u] = Hash(p)]
    PROVE  /\ hash' \in [Users -> {None} \union [pw : Passwords, outdated : BOOLEAN]]
           /\ \A v \in Users : hash[v] # None => hash'[v] # None
<1> DEFINE h == Hash(p)
<1>1. h \in [pw : Passwords, outdated : BOOLEAN]
  BY DEF Hash
<1>2. h # None
  BY <1>1, CredentialsAssumption
<1>3. hash' = [hash EXCEPT ![u] = h]
  OBVIOUS
<1> HIDE DEF h
<1> QED
  BY <1>1, <1>2, <1>3 DEF IInv, TypeOK

\* A step that writes only a User's row, under a password that is not new.
LEMMA HashStep ==
    ASSUME IInv, NEW r \in Requests, NEW new \in Forms, req[r].pc # "revoke",
           req' = [req EXCEPT ![r] = new], UNCHANGED <<sessions, changes, lost, Others>>,
           hash' \in [Users -> {None} \union [pw : Passwords, outdated : BOOLEAN]],
           \A v \in Users : hash[v] # None => hash'[v] # None,
           new.pc \in {"idle", "issue"}
    PROVE  IInv'
<1>1. TypeOK'
  BY DEF IInv, TypeOK, Others, Ids
<1>2. Sound(new, sessions', hash', member')
  BY DEF Sound, SparesOwn, TargetExists, StillAgainst, Unopposed
<1>3. OutdatedSessionsEnd'
  BY OwedStays
<1>4. Steady
  BY DEF Steady, Others
<1> QED
  BY <1>1, <1>2, <1>3, <1>4, OneRequestMoves

LEMMA createKeepsIInv ==
    ASSUME IInv, NEW r \in Requests, create(r)
    PROVE  IInv'
<1>1. req[r].pc = "create" /\ req[r].user \in Users /\ req[r].new \in Passwords
  BY FormByPlace DEF create, IInv, Creating
<1>2. /\ hash' \in [Users -> {None} \union [pw : Passwords, outdated : BOOLEAN]]
      /\ \A v \in Users : hash[v] # None => hash'[v] # None
  <2>1. CASE hash' = hash
    BY <2>1 DEF IInv, TypeOK
  <2>2. CASE hash' = [hash EXCEPT ![req[r].user] = Hash(req[r].new)]
    BY <1>1, <2>2, HashWritten
  <2> QED
    BY <2>1, <2>2 DEF create
<1>3. req' = [req EXCEPT ![r] = Idle] /\ UNCHANGED <<sessions, changes, lost, Others>>
  BY DEF create, Done
<1>4. Idle \in Forms /\ Idle.pc = "idle"
  BY DEF Forms, Idle
<1> QED
  BY <1>1, <1>2, <1>3, <1>4, HashStep

LEMMA rehashKeepsIInv ==
    ASSUME IInv, NEW r \in Requests, rehash(r)
    PROVE  IInv'
<1> DEFINE new == [req[r] EXCEPT !.pc = "issue"]
<1>1. req[r].pc = "rehash" /\ req[r] \in LoggingIn
  BY FormByPlace DEF rehash, IInv
<1>2. new \in LoggingIn /\ new.pc = "issue" /\ req[r].user \in Users /\ req[r].new \in Passwords
  BY <1>1 DEF LoggingIn
<1>3. req' = [req EXCEPT ![r] = new]
  BY DEF rehash, Goto, IInv
<1> HIDE DEF new
<1>4. /\ hash' \in [Users -> {None} \union [pw : Passwords, outdated : BOOLEAN]]
      /\ \A v \in Users : hash[v] # None => hash'[v] # None
  BY <1>2, HashWritten DEF rehash
<1>5. UNCHANGED <<sessions, changes, lost, Others>>
  BY DEF rehash
<1>6. new \in Forms
  BY <1>2 DEF Forms
<1> QED
  BY <1>1, <1>2, <1>3, <1>4, <1>5, <1>6, HashStep

\* The session a login opens is marked if its password was replaced meanwhile.
LEMMA issueOnLoginKeepsIInv ==
    ASSUME IInv, NEW r \in Requests, issueOnLogin(r)
    PROVE  IInv'
<1> DEFINE u == req[r].user
           session == [user |-> u, at |-> req[r].at, late |-> changes[u] # req[r].at]
<1>1. req[r].pc = "issue" /\ u \in Users /\ req[r].at \in 0..MaxChanges
  BY FormByPlace DEF issueOnLogin, IInv, LoggingIn
<1>2. PICK s \in SessionIds \ (Ids \union Spares) :
          sessions' = [i \in Ids \union {s} |-> IF i = s THEN session ELSE sessions[i]]
  BY DEF issueOnLogin
<1>3. /\ session \in [user : Users, at : 0..MaxChanges, late : BOOLEAN]
      /\ session.user = u /\ session.at = req[r].at
      /\ session.at # changes[u] => session.late
  BY <1>1
<1>4. /\ req' = [req EXCEPT ![r] = Idle] /\ UNCHANGED <<hash, changes, lost, member, rowLock>>
  BY DEF issueOnLogin, Done, Others
<1> HIDE DEF session
<1>5. /\ DOMAIN sessions' = Ids \union {s} /\ sessions'[s] = session
      /\ \A i \in Ids : sessions'[i] = sessions[i]
  BY <1>2
<1>6. TypeOK'
  BY <1>3, <1>4, <1>5 DEF IInv, TypeOK, Ids
<1>7. OutdatedSessionsEnd'
  <2> SUFFICES ASSUME NEW i \in DOMAIN sessions',
                      sessions'[i].at < changes[sessions'[i].user],
                      ~ sessions'[i].late, sessions'[i].user \notin lost
               PROVE  \E q \in Requests : req'[q].pc = "revoke" /\ req'[q].user = sessions'[i].user
    BY <1>4 DEF OutdatedSessionsEnd, Ids
  <2>1. changes[u] \in Nat
    BY <1>1 DEF IInv, TypeOK
  <2>2. i # s
    BY <1>1, <1>3, <1>5, <2>1
  <2>3. i \in Ids /\ sessions'[i] = sessions[i]
    BY <1>5, <2>2
  <2>4. PICK q \in Requests : req[q].pc = "revoke" /\ req[q].user = sessions[i].user
    BY <2>3 DEF IInv, OutdatedSessionsEnd
  <2>5. req'[q] = req[q]
    BY <1>1, <1>4, <2>4 DEF IInv
  <2> QED
    BY <2>3, <2>4, <2>5
<1>8. Steady
  BY <1>2, <1>4, <1>5 DEF Steady, Ids
<1> QED
  BY <1>4, <1>6, <1>7, <1>8, IdleSound, OneRequestMoves

\* Whoever replaces a password goes on to revoke the sessions it opened.
LEMMA PasswordReplaced ==
    ASSUME IInv, NEW r \in Requests, NEW new \in Forms, req[r].pc # "revoke",
           req' = [req EXCEPT ![r] = new], NEW u \in Users, NEW p \in Passwords,
           new.pc = "revoke", new.user = u, SparesOwn(new, sessions),
           hash' = [hash EXCEPT ![u] = Hash(p)],
           changes[u] < MaxChanges, changes' = [changes EXCEPT ![u] = @ + 1],
           rowLock' \in [Users -> Requests \union {None}],
           UNCHANGED <<sessions, lost, member>>
    PROVE  IInv'
<1>1. /\ hash' \in [Users -> {None} \union [pw : Passwords, outdated : BOOLEAN]]
      /\ \A v \in Users : hash[v] # None => hash'[v] # None
  BY HashWritten
<1>2. changes' \in [Users -> 0..MaxChanges]
  BY CredentialsAssumption DEF IInv, TypeOK
<1>3. TypeOK'
  BY <1>1, <1>2 DEF IInv, TypeOK, Ids
<1>4. Sound(new, sessions', hash', member')
  <2>1. SparesOwn(new, sessions')
    OBVIOUS
  <2> QED
    BY <2>1 DEF Sound, TargetExists, StillAgainst, Unopposed
<1>5. OutdatedSessionsEnd'
  <2> SUFFICES ASSUME NEW i \in Ids, sessions[i].at < changes'[sessions[i].user],
                      ~ sessions[i].late, sessions[i].user \notin lost
               PROVE  \E q \in Requests : req'[q].pc = "revoke" /\ req'[q].user = sessions[i].user
    BY DEF OutdatedSessionsEnd, Ids
  <2>1. CASE sessions[i].user = u
    <3>1. req'[r] = new
      BY DEF IInv
    <3> QED
      BY <2>1, <3>1
  <2>2. CASE sessions[i].user # u
    <3>1. sessions[i].user \in Users
      BY DEF IInv, TypeOK
    <3>2. changes'[sessions[i].user] = changes[sessions[i].user]
      BY <2>2, <3>1 DEF IInv, TypeOK
    <3>3. PICK q \in Requests : req[q].pc = "revoke" /\ req[q].user = sessions[i].user
      BY <3>2 DEF IInv, OutdatedSessionsEnd
    <3>4. req'[q] = req[q]
      BY <3>3 DEF IInv
    <3> QED
      BY <3>3, <3>4
  <2> QED
    BY <2>1, <2>2
<1>6. Steady
  BY <1>1 DEF Steady
<1> QED
  BY <1>3, <1>4, <1>5, <1>6, OneRequestMoves

LEMMA updateKeepsIInv ==
    ASSUME IInv, NEW r \in Requests, update(r)
    PROVE  IInv'
<1> DEFINE q == req[r]
           new == [q EXCEPT !.pc = "revoke"]
<1>1. q.pc = "update" /\ q \in Changing /\ SparesOwn(q, sessions)
  BY FormByPlace DEF update, IInv, Sound
<1>2. /\ new \in Changing /\ new.pc = "revoke" /\ new.user = q.user /\ new.spare = q.spare
      /\ q.user \in Users /\ q.new \in Passwords
  BY <1>1 DEF Changing
<1>3. req' = [req EXCEPT ![r] = new]
  BY DEF update, Goto, IInv
<1>4. /\ hash' = [hash EXCEPT ![q.user] = Hash(q.new)] /\ changes[q.user] < MaxChanges
      /\ changes' = [changes EXCEPT ![q.user] = @ + 1]
      /\ UNCHANGED <<sessions, lost, member>> /\ rowLock' = rowLock
  BY DEF update, Others
<1> HIDE DEF new
<1>5. SparesOwn(new, sessions)
  BY <1>1, <1>2 DEF SparesOwn
<1>6. rowLock' \in [Users -> Requests \union {None}]
  BY <1>4 DEF IInv, TypeOK
<1>7. new \in Forms
  BY <1>2 DEF Forms
<1> QED
  BY <1>1, <1>2, <1>3, <1>4, <1>5, <1>6, <1>7, PasswordReplaced

LEMMA commitKeepsIInv ==
    ASSUME IInv, NEW r \in Requests, commit(r)
    PROVE  IInv'
<1> DEFINE q == req[r]
           new == [q EXCEPT !.pc = "revoke"]
<1>1. q.pc = "commit" /\ q \in Resetting
  BY FormByPlace DEF commit, IInv
<1>2. /\ new \in Resetting /\ new.pc = "revoke" /\ new.user = q.user /\ new.spare = None
      /\ q.user \in Users /\ q.new \in Passwords
  BY <1>1 DEF Resetting
<1>3. req' = [req EXCEPT ![r] = new]
  BY DEF commit, Goto, IInv
<1>4. /\ hash' = [hash EXCEPT ![q.user] = Hash(q.new)] /\ changes[q.user] < MaxChanges
      /\ changes' = [changes EXCEPT ![q.user] = @ + 1]
      /\ UNCHANGED <<sessions, lost, member>>
      /\ rowLock' = [rowLock EXCEPT ![q.user] = None]
  BY DEF commit
<1> HIDE DEF new
<1>5. SparesOwn(new, sessions)
  <2>1. None \notin DOMAIN sessions
    BY CredentialsAssumption DEF IInv, TypeOK, Ids
  <2> QED
    BY <1>2, <2>1 DEF SparesOwn
<1>6. rowLock' \in [Users -> Requests \union {None}]
  BY <1>4 DEF IInv, TypeOK
<1>7. new \in Forms
  BY <1>2 DEF Forms
<1> QED
  BY <1>1, <1>2, <1>3, <1>4, <1>5, <1>6, <1>7, PasswordReplaced

\* A revocation ends every session of its user but the one it spares, which
\* from now on counts as opened under the new password.
LEMMA revokeKeepsIInv ==
    ASSUME IInv, NEW r \in Requests, revoke(r)
    PROVE  IInv'
<1> DEFINE q == req[r]
           spared == {i \in Ids : sessions[i].user # q.user \/ i = q.spare}
           kept(i) == [sessions[i] EXCEPT !.at = IF i = q.spare THEN changes[q.user] ELSE @]
<1>1. q.pc = "revoke" /\ q.user \in Users /\ SparesOwn(q, sessions)
  <2>1. q.pc = "revoke" /\ q \in Changing \union Resetting /\ SparesOwn(q, sessions)
    BY FormByPlace DEF revoke, IInv, Sound
  <2> QED
    BY <2>1 DEF Changing, Resetting
<1>2. /\ sessions' = [i \in spared |-> kept(i)] /\ req' = [req EXCEPT ![r] = Idle]
      /\ UNCHANGED <<hash, changes, lost, member, rowLock>>
  BY DEF revoke, Done, Others
<1>3. changes[q.user] \in 0..MaxChanges
  BY <1>1 DEF IInv, TypeOK
<1>4. \A i \in Ids :
         /\ kept(i) \in [user : Users, at : 0..MaxChanges, late : BOOLEAN]
         /\ kept(i).user = sessions[i].user /\ kept(i).late = sessions[i].late
         /\ kept(i).at = IF i = q.spare THEN changes[q.user] ELSE sessions[i].at
  BY <1>3 DEF IInv, TypeOK
<1> HIDE DEF kept
<1>5. /\ DOMAIN sessions' = spared /\ spared \subseteq Ids
      /\ \A i \in spared : sessions'[i] = kept(i)
  BY <1>2
<1>6. TypeOK'
  BY <1>2, <1>4, <1>5 DEF IInv, TypeOK, Ids
<1>7. OutdatedSessionsEnd'
  <2> SUFFICES ASSUME NEW i \in DOMAIN sessions',
                      sessions'[i].at < changes[sessions'[i].user],
                      ~ sessions'[i].late, sessions'[i].user \notin lost
               PROVE  \E x \in Requests : req'[x].pc = "revoke" /\ req'[x].user = sessions'[i].user
    BY <1>2 DEF OutdatedSessionsEnd, Ids
  <2>1. i \in spared /\ i \in Ids /\ sessions'[i] = kept(i)
    BY <1>5
  <2>2. i # q.spare
    <3> SUFFICES ASSUME i = q.spare PROVE FALSE
      OBVIOUS
    <3>1. sessions[i].user = q.user
      BY <1>1, <2>1 DEF SparesOwn, Ids
    <3> QED
      BY <1>3, <1>4, <2>1, <3>1
  <2>3. sessions[i].user # q.user /\ sessions[i].at < changes[sessions[i].user]
        /\ ~ sessions[i].late /\ sessions[i].user \notin lost
    BY <1>4, <2>1, <2>2
  <2>4. PICK x \in Requests : req[x].pc = "revoke" /\ req[x].user = sessions[i].user
    BY <2>1, <2>3 DEF IInv, OutdatedSessionsEnd
  <2>5. req'[x] = req[x]
    BY <1>2, <2>3, <2>4 DEF IInv
  <2> QED
    BY <1>4, <2>1, <2>4, <2>5
<1>8. Steady
  BY <1>2, <1>4, <1>5 DEF Steady, Ids
<1> QED
  BY <1>2, <1>6, <1>7, <1>8, IdleSound, OneRequestMoves

\* A revocation that dies leaves its user among the lost.
LEMMA FailKeepsIInv ==
    ASSUME IInv, NEW r \in Requests, Fail(r)
    PROVE  IInv'
<1>1. /\ req' = [req EXCEPT ![r] = Idle] /\ UNCHANGED <<hash, sessions, changes, member>>
      /\ lost' = IF req[r].pc = "revoke" THEN lost \union {req[r].user} ELSE lost
  BY DEF Fail, Done
<1>2. rowLock' \in [Users -> Requests \union {None}]
  BY LocksReleased DEF Fail
<1>3. req[r].pc = "revoke" => req[r].user \in Users
  BY FormByPlace DEF IInv, Changing, Resetting
<1>4. TypeOK'
  BY <1>1, <1>2, <1>3 DEF IInv, TypeOK, Ids
<1>5. OutdatedSessionsEnd'
  <2> SUFFICES ASSUME NEW i \in Ids, sessions[i].at < changes[sessions[i].user],
                      ~ sessions[i].late, sessions[i].user \notin lost'
               PROVE  \E q \in Requests : req'[q].pc = "revoke" /\ req'[q].user = sessions[i].user
    BY <1>1 DEF OutdatedSessionsEnd, Ids
  <2>1. sessions[i].user \notin lost /\ (req[r].pc = "revoke" => sessions[i].user # req[r].user)
    BY <1>1
  <2>2. PICK q \in Requests : req[q].pc = "revoke" /\ req[q].user = sessions[i].user
    BY <2>1 DEF IInv, OutdatedSessionsEnd
  <2>3. req'[q] = req[q]
    BY <1>1, <2>1, <2>2 DEF IInv
  <2> QED
    BY <2>2, <2>3
<1>6. Steady
  BY <1>1, TablesStand
<1> QED
  BY <1>1, <1>4, <1>5, <1>6, IdleSound, OneRequestMoves

\* A membership that changes takes from the reasons the ones it removes.
LEMMA ChangeMemberKeepsIInv ==
    ASSUME IInv, NEW o \in Orgs, NEW u \in Users, NEW role \in RoleIds \union {"revoked"},
           ChangeMember(o, u, role)
    PROVE  IInv'
<1> DEFINE left(r) == req[r].against \intersect Refusals(member', r)
           new(r) == [req[r] EXCEPT !.against = left(r)]
<1>1. /\ UNCHANGED <<hash, sessions, changes, lost, rowLock>>
      /\ member' = [member EXCEPT ![o][u] = role]
      /\ req' = [r \in Requests |-> IF req[r].pc = "decideAgain" THEN new(r) ELSE req[r]]
  BY DEF ChangeMember, Tables
<1>2. member' \in [Orgs -> [Users -> RoleIds \union {"revoked", None}]]
  BY <1>1 DEF IInv, TypeOK
<1>3. TypeOK'
  BY <1>1, <1>2 DEF IInv, TypeOK, Ids
<1>4. ASSUME NEW r \in Requests
      PROVE  /\ req'[r] \in Forms /\ Sound(req'[r], sessions', hash', member')
             /\ req'[r].pc = req[r].pc
             /\ req[r].pc = "revoke" => req'[r].user = req[r].user
  <2>1. CASE req[r].pc # "decideAgain"
    <3>1. req'[r] = req[r] /\ req[r] \in Forms /\ Sound(req[r], sessions, hash, member)
      BY <1>1, <2>1 DEF IInv
    <3> QED
      BY <1>1, <2>1, <3>1 DEF Sound, StillAgainst, SparesOwn, TargetExists, Unopposed
  <2>2. CASE req[r].pc = "decideAgain"
    <3>1. req'[r] = new(r) /\ req[r] \in Resetting /\ Sound(req[r], sessions, hash, member)
      BY <1>1, <2>2, FormByPlace DEF IInv
    <3>2. left(r) \subseteq req[r].against
          /\ left(r) \subseteq decideAdminReset(hash, member', req[r].caller, req[r].org, req[r].user)
      BY DEF Refusals
    <3>3. left(r) \in SUBSET Reasons
      BY <3>1, <3>2 DEF Resetting
    <3> HIDE DEF left
    <3>4. /\ new(r) \in Resetting /\ new(r).pc = "decideAgain" /\ new(r).against = left(r)
          /\ new(r).user = req[r].user /\ new(r).caller = req[r].caller /\ new(r).org = req[r].org
      BY <2>2, <3>1, <3>3 DEF Resetting
    <3> HIDE DEF new
    <3>5. hash[req[r].user] # None
      BY <2>2, <3>1 DEF Sound, TargetExists
    <3>6. Sound(new(r), sessions', hash', member')
      BY <1>1, <3>2, <3>4, <3>5 DEF Sound, StillAgainst, SparesOwn, TargetExists, Unopposed
    <3>7. new(r) \in Forms
      BY <3>4 DEF Forms
    <3> QED
      BY <2>2, <3>1, <3>4, <3>6, <3>7
  <2> QED
    BY <2>1, <2>2
<1> HIDE DEF new
<1>5. req' \in [Requests -> Forms]
  <2>1. \A r \in Requests : req'[r] \in Forms
    BY <1>4
  <2>2. DOMAIN req' = Requests /\ req' = [r \in Requests |-> req'[r]]
    BY <1>1
  <2> QED
    BY <2>1, <2>2
<1>6. OutdatedSessionsEnd'
  <2>1. \A r \in Requests : req[r].pc = "revoke" => req'[r].pc = "revoke" /\ req'[r].user = req[r].user
    BY <1>4
  <2> QED
    BY <1>1, <2>1 DEF IInv, OutdatedSessionsEnd, Ids
<1> QED
  BY <1>3, <1>4, <1>5, <1>6 DEF IInv

-----------------------------------------------------------------------------
\* Nothing that depends on the state changes when nothing does.
LEMMA StutterKeepsIInv ==
    ASSUME IInv, UNCHANGED vars
    PROVE  IInv'
<1>1. TypeOK' /\ OutdatedSessionsEnd'
  BY DEF IInv, TypeOK, OutdatedSessionsEnd, Ids, vars
<1> QED
  BY <1>1 DEF IInv, vars

\* The inductive invariant holds of every reachable state.
THEOREM Invariant == Spec => []IInv
<1>1. IInv /\ [Next]_vars => IInv'
  <2> SUFFICES ASSUME IInv, [Next]_vars PROVE IInv'
    OBVIOUS
  <2>1. CASE UNCHANGED vars
    BY <2>1, StutterKeepsIInv
  <2>2. ASSUME NEW m \in Moving, NEW role \in RoleIds \union {"revoked"},
               ChangeMember(m[1], m[2], role)
        PROVE  IInv'
    <3>1. m[1] \in Orgs /\ m[2] \in Users
      BY CredentialsAssumption
    <3> QED
      BY <2>2, <3>1, ChangeMemberKeepsIInv
  <2>3. ASSUME NEW r \in Requests,
               \/ \E u \in Clients, p \in Passwords : signup(r, u, p) \/ login(r, u, p)
               \/ \E u \in Clients, p, q \in Passwords, s \in Ids \union {None} :
                     changePassword(r, u, p, q, s)
               \/ \E c \in Users, u \in Clients, o \in Orgs, p \in Passwords :
                     adminResetPassword(r, c, o, u, p)
        PROVE  IInv'
    <3>1. Clients \subseteq Users
      BY CredentialsAssumption
    <3> QED
      BY <2>3, <3>1, signupKeepsIInv, loginKeepsIInv, changePasswordKeepsIInv, adminResetKeepsIInv
  <2>4. ASSUME NEW r \in Requests,
               \/ create(r) \/ rehash(r) \/ issueOnLogin(r) \/ update(r) \/ revoke(r)
               \/ lockUser(r) \/ decide(r) \/ write(r) \/ decideAgain(r) \/ commit(r)
               \/ Fail(r)
        PROVE  IInv'
    BY <2>4, createKeepsIInv, rehashKeepsIInv, issueOnLoginKeepsIInv, updateKeepsIInv,
       revokeKeepsIInv, lockUserKeepsIInv, decideKeepsIInv, writeKeepsIInv,
       decideAgainKeepsIInv, commitKeepsIInv, FailKeepsIInv
  <2> QED
    BY <2>1, <2>2, <2>3, <2>4 DEF Next
<1> QED
  BY InitIInv, <1>1, PTL DEF Spec

\* revokeAllExceptFamily and revokeAllForUser reach every session the former
\* password had opened, whatever logins, changes and resets run beside them.
THEOREM SessionsEnd == Spec => []OutdatedSessionsEnd
  BY Invariant, PTL DEF IInv

\* The second decision of adminResetPassword sees every reason against the
\* reset that arose before the write and stands: none such survives to the commit.
THEOREM ResetsDecidedTwice == Spec => []ResetSeesMemberships
<1>1. IInv => ResetSeesMemberships
  BY DEF IInv, Sound, Unopposed, ResetSeesMemberships
<1> QED
  BY Invariant, <1>1, PTL
=============================================================================
