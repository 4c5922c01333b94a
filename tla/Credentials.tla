---------------------------- MODULE Credentials ----------------------------
(***************************************************************************)
(* AuthService of apps/api: the password of a user under signup, login     *)
(* (which rehashes), change-password and the reset by an administrator,    *)
(* and the sessions these open and end.  Each handler is a sequence of     *)
(* statements; only the reset runs in a transaction, which locks the row   *)
(* of the User.  Memberships change meanwhile.                             *)
(*                                                                         *)
(*   signup:  absent -> create                                             *)
(*   login:   (read, verify) -> rehash -> issue                            *)
(*   change:  (read, verify) -> update -> revoke                           *)
(*   reset:   (caller checked) -> lock -> decide -> write -> decideAgain   *)
(*            -> commit -> revoke                                          *)
(***************************************************************************)
EXTENDS OrgPolicy, FiniteSets

CONSTANTS
    Kinds,          \* the handlers that are called
    Users, Orgs, Passwords,
    Clients,        \* users who sign up and log in, and whose password changes
    Weak,           \* passwords the policy refuses (or could not be chosen)
    SessionIds,
    None,
    Requests,
    MemberInit,     \* memberships at the start
    Moving,         \* <<organization, user>>: the memberships that change
    MaxChanges      \* bound of the model: password changes per user

ASSUME CredentialsAssumption ==
    /\ Weak \subseteq Passwords /\ Clients \subseteq Users
    /\ MaxChanges \in Nat
    /\ None \notin Requests \union RoleIds \union SessionIds
    /\ None \notin [pw : Passwords, outdated : BOOLEAN]
    /\ MemberInit \in [Orgs -> [Users -> RoleIds \union {"revoked", None}]]
    /\ Moving \subseteq Orgs \X Users

VARIABLES
    hash,       \* User.passwordHash: the password, and whether its params are outdated
    sessions,   \* sessions that are live: id -> session
    member,     \* Membership: organization -> user -> role, "revoked" or None
    rowLock,    \* who holds the row of a User FOR UPDATE
    req,
    changes,    \* history: completed writes of a new password, per user
    lost        \* history: users whose revocation died with its process

vars == <<hash, sessions, member, rowLock, req, changes, lost>>

Idle == [pc |-> "idle"]
Ids == DOMAIN sessions

\* A familyId is never given twice: not while a request still means to spare it.
Spares == {req[r].spare : r \in {r \in Requests : req[r].pc \in {"update", "revoke"}}}

Init ==
    /\ \E p \in Passwords \ Weak :
          hash \in [Users -> {None, [pw |-> p, outdated |-> TRUE]}]
    /\ \A u \in Users : hash[u] = None => \A o \in Orgs : MemberInit[o][u] = None
    /\ sessions = <<>>
    /\ member = MemberInit
    /\ rowLock = [u \in Users |-> None]
    /\ req = [r \in Requests |-> Idle]
    /\ changes = [u \in Users |-> 0]
    /\ lost = {}

Hash(p) == [pw |-> p, outdated |-> FALSE]
verify(h, p) == h # None /\ h.pw = p
needsRehash(h) == h.outdated
checkPasswordPolicy(p) == p \notin Weak

Goto(r, pc) == req' = [req EXCEPT ![r].pc = pc]
Done(r) == req' = [req EXCEPT ![r] = Idle]
Unlocked(u) == rowLock[u] = None
Tables == <<hash, sessions, changes, lost>>
Others == <<member, rowLock>>

-----------------------------------------------------------------------------
\* signup: the policy and the look-up, then the INSERT, which the unique index
\* on the address lets succeed for one of two.
signup(r, u, p) ==
    /\ "signup" \in Kinds
    /\ req[r] = Idle
    /\ checkPasswordPolicy(p)
    /\ hash[u] = None
    /\ req' = [req EXCEPT ![r] = [pc |-> "create", user |-> u, new |-> p]]
    /\ UNCHANGED <<Tables, Others>>

create(r) ==
    LET u == req[r].user IN
    /\ req[r].pc = "create"
    /\ hash' = IF hash[u] = None THEN [hash EXCEPT ![u] = Hash(req[r].new)] ELSE hash
    /\ Done(r)
    /\ UNCHANGED <<sessions, changes, lost, Others>>

-----------------------------------------------------------------------------
\* login: the hash is read and verified (a wrong password ends the request);
\* what was read decides about the rehash.
login(r, u, p) ==
    /\ "login" \in Kinds
    /\ req[r] = Idle
    /\ verify(hash[u], p)
    /\ req' = [req EXCEPT ![r] =
            [pc |-> IF needsRehash(hash[u]) THEN "rehash" ELSE "issue",
             user |-> u, new |-> p, at |-> changes[u]]]
    /\ UNCHANGED <<Tables, Others>>

rehash(r) ==
    LET u == req[r].user IN
    /\ req[r].pc = "rehash" /\ Unlocked(u)
    /\ hash' = [hash EXCEPT ![u] = Hash(req[r].new)]
    /\ Goto(r, "issue")
    /\ UNCHANGED <<sessions, changes, lost, Others>>

\* A session remembers which password opened it, and whether that one was
\* already replaced.
issueOnLogin(r) ==
    /\ req[r].pc = "issue"
    /\ \E s \in SessionIds \ (Ids \union Spares) :
          sessions' = [i \in Ids \union {s} |->
              IF i = s THEN [user |-> req[r].user, at |-> req[r].at,
                             late |-> changes[req[r].user] # req[r].at]
                       ELSE sessions[i]]
    /\ Done(r)
    /\ UNCHANGED <<hash, changes, lost, Others>>

-----------------------------------------------------------------------------
\* change-password, with the session of the presented refresh token spared if
\* that token is live and the caller's.
changePassword(r, u, current, new, spare) ==
    /\ "change" \in Kinds
    /\ req[r] = Idle
    /\ spare # None => sessions[spare].user = u
    /\ verify(hash[u], current)
    /\ checkPasswordPolicy(new)
    /\ req' = [req EXCEPT ![r] =
            [pc |-> "update", user |-> u, new |-> new, spare |-> spare]]
    /\ UNCHANGED <<Tables, Others>>

update(r) ==
    LET u == req[r].user IN
    /\ req[r].pc = "update" /\ Unlocked(u)
    /\ changes[u] < MaxChanges
    /\ hash' = [hash EXCEPT ![u] = Hash(req[r].new)]
    /\ changes' = [changes EXCEPT ![u] = @ + 1]
    /\ Goto(r, "revoke")
    /\ UNCHANGED <<sessions, lost, Others>>

\* Mutant: a reset is thought to have a session to spare, too.
revokeOthersOnly(r) ==
    LET spared == {i \in Ids : sessions[i].user # req[r].user \/ sessions[i].at = 0} IN
    /\ req[r].pc = "revoke"
    /\ sessions' = [i \in spared |-> sessions[i]]
    /\ Done(r)
    /\ UNCHANGED <<hash, changes, lost, Others>>

\* revokeAllExceptFamily, revokeAllForUser: one UPDATE.
revoke(r) ==
    LET spared == {i \in Ids : sessions[i].user # req[r].user \/ i = req[r].spare} IN
    /\ req[r].pc = "revoke"
    /\ sessions' = [i \in spared |->
            [sessions[i] EXCEPT !.at = IF i = req[r].spare THEN changes[req[r].user] ELSE @]]
    /\ Done(r)
    /\ UNCHANGED <<hash, changes, lost, Others>>

-----------------------------------------------------------------------------
\* One membership of table m as the decision wants it.
Active(m, o, u) == m[o][u] \in RoleIds
readMembershipFacts(m, o, u) == IF Active(m, o, u) THEN roleCapabilities[m[o][u]] ELSE {}

isAdminResetCallerAuthorized(m, o, u) ==
    Active(m, o, u) /\ hasCapability(readMembershipFacts(m, o, u), "manage_members")

\* The refusals, in the order of the code; none means allowed.  The User's row
\* is in table h, the memberships are in m.
decideAdminReset(h, m, caller, o, u) ==
    LET callerFacts == readMembershipFacts(m, o, caller)
        targetFacts == readMembershipFacts(m, o, u)
    IN CASE ~ isAdminResetCallerAuthorized(m, o, caller) -> {"caller_not_authorized"}
         [] h[u] = None \/ ~ Active(m, o, u) -> {"target_not_active_member"}
         [] OTHER ->
              {x \in {"caller_is_target", "target_active_in_other_org", "target_is_owner"} :
                  \/ x = "caller_is_target" /\ caller = u
                  \/ x = "target_active_in_other_org" /\ \E p \in Orgs \ {o} : Active(m, p, u)
                  \/ /\ x = "target_is_owner"
                     /\ isOwnerRole(targetFacts)
                     /\ ~ canAssignRole(callerFacts, TRUE, FALSE)}

Refusals(m, r) == decideAdminReset(hash, m, req[r].caller, req[r].org, req[r].user)

adminResetPassword(r, caller, o, u, new) ==
    /\ "reset" \in Kinds
    /\ req[r] = Idle
    /\ checkPasswordPolicy(new)
    /\ isAdminResetCallerAuthorized(member, o, caller)
    /\ req' = [req EXCEPT ![r] =
            [pc |-> "lock", user |-> u, caller |-> caller, org |-> o, new |-> new,
             spare |-> None, against |-> {}]]
    /\ UNCHANGED <<Tables, Others>>

\* SELECT ... FOR UPDATE; an unknown user locks nothing.
lockUser(r) ==
    LET u == req[r].user IN
    /\ req[r].pc = "lock" /\ Unlocked(u)
    /\ rowLock' = [rowLock EXCEPT ![u] = r]
    /\ Goto(r, "decide")
    /\ UNCHANGED <<Tables, member>>

Rollback(r) ==
    /\ rowLock' = [u \in Users |-> IF rowLock[u] = r THEN None ELSE rowLock[u]]
    /\ Done(r)
    /\ UNCHANGED <<Tables, member>>

decide(r) ==
    /\ req[r].pc = "decide"
    /\ \/ /\ Refusals(member, r) = {}
          /\ Goto(r, "write")
          /\ UNCHANGED <<Tables, Others>>
       \/ /\ Refusals(member, r) # {}
          /\ Rollback(r)

\* The UPDATE is not visible before the commit; history: what spoke
\* against the reset when it was made, and has since.
write(r) ==
    /\ req[r].pc = "write"
    /\ req' = [req EXCEPT ![r].pc = "decideAgain",
                          ![r].against = Refusals(member, r)]
    /\ UNCHANGED <<Tables, Others>>

\* Mutant: decided once, before the write.
decideOnce(r) ==
    /\ req[r].pc = "decideAgain"
    /\ Goto(r, "commit")
    /\ UNCHANGED <<Tables, Others>>

decideAgain(r) ==
    /\ req[r].pc = "decideAgain"
    /\ \/ /\ Refusals(member, r) = {}
          /\ Goto(r, "commit")
          /\ UNCHANGED <<Tables, Others>>
       \/ /\ Refusals(member, r) # {}
          /\ Rollback(r)

commit(r) ==
    LET u == req[r].user IN
    /\ req[r].pc = "commit"
    /\ changes[u] < MaxChanges
    /\ hash' = [hash EXCEPT ![u] = Hash(req[r].new)]
    /\ changes' = [changes EXCEPT ![u] = @ + 1]
    /\ rowLock' = [rowLock EXCEPT ![u] = None]
    /\ Goto(r, "revoke")
    /\ UNCHANGED <<sessions, lost, member>>

\* lock_timeout while waiting, the timeout of the transaction, or a crash.
Fail(r) ==
    /\ req[r] # Idle
    /\ lost' = IF req[r].pc = "revoke" THEN lost \union {req[r].user} ELSE lost
    /\ rowLock' = [u \in Users |-> IF rowLock[u] = r THEN None ELSE rowLock[u]]
    /\ Done(r)
    /\ UNCHANGED <<hash, sessions, changes, member>>

-----------------------------------------------------------------------------
\* The services of the organization, seen from here.  A new row refers to the
\* User and waits for its lock; a row that is changed does not.  Some owner
\* remains (OrgRegister).
ChangeMember(o, u, role) ==
    /\ hash[u] # None /\ role # member[o][u]
    /\ member[o][u] = None => Unlocked(u) /\ role # "revoked"
    /\ member' = [member EXCEPT ![o][u] = role]
    /\ \E x \in Users : member'[o][x] \in RoleIds /\ isOwnerRole(roleCapabilities[member'[o][x]])
    /\ req' = [r \in Requests |->
            IF req[r].pc = "decideAgain"
            THEN [req[r] EXCEPT !.against = @ \intersect Refusals(member', r)] ELSE req[r]]
    /\ UNCHANGED <<Tables, rowLock>>

Next ==
    \/ \E r \in Requests :
          \/ \E u \in Clients, p \in Passwords : signup(r, u, p) \/ login(r, u, p)
          \/ \E u \in Clients, p, q \in Passwords, s \in Ids \union {None} :
                changePassword(r, u, p, q, s)
          \/ \E c \in Users, u \in Clients, o \in Orgs, p \in Passwords : adminResetPassword(r, c, o, u, p)
          \/ create(r) \/ rehash(r) \/ issueOnLogin(r) \/ update(r) \/ revoke(r)
          \/ lockUser(r) \/ decide(r) \/ write(r) \/ decideAgain(r) \/ commit(r)
          \/ Fail(r)
    \/ \E m \in Moving, role \in RoleIds \union {"revoked"} : ChangeMember(m[1], m[2], role)

Spec == Init /\ [][Next]_vars

-----------------------------------------------------------------------------
\* Type correctness.
TypeOK ==
    /\ hash \in [Users -> {None} \union [pw : Passwords, outdated : BOOLEAN]]
    /\ Ids \subseteq SessionIds
    /\ \A i \in Ids : sessions[i] \in [user : Users, at : 0..MaxChanges, late : BOOLEAN]
    /\ member \in [Orgs -> [Users -> RoleIds \union {"revoked", None}]]
    /\ rowLock \in [Users -> Requests \union {None}]
    /\ changes \in [Users -> 0..MaxChanges]
    /\ lost \subseteq Users

\* Once a change or a reset of a password is through, the sessions the former
\* password had opened are gone, the spared one excepted; what survives was
\* issued late, to a login that had verified the former password, or its
\* revocation died with its process.
OutdatedSessionsEnd ==
    \A i \in Ids :
        LET s == sessions[i] IN
        s.at < changes[s.user] =>
            \/ s.late
            \/ s.user \in lost
            \/ \E r \in Requests : req[r].pc = "revoke" /\ req[r].user = s.user

\* A reset never commits against a reason that arose before its write and has
\* stood since: the caller's or the target's role, a membership elsewhere.
ResetSeesMemberships ==
    /\ TypeOK
    /\ \A r \in Requests : req[r].pc = "commit" => req[r].against = {}

\* A login never changes which password opens the account.
RehashKeepsPassword ==
    [][\A r \in Requests, u \in Users :
          req[r].pc = "rehash" /\ req'[r].pc = "issue" /\ hash[u] # None
          => hash'[u].pw = hash[u].pw]_vars

=============================================================================
