--------------------------- MODULE OrgMembership ---------------------------
(***************************************************************************)
(* MembersService and InvitationsService of apps/api as they run: requests *)
(* of one organization in parallel, each in a READ COMMITTED transaction   *)
(* that first takes the row lock of its Organization                       *)
(* (runInOrgLockTransaction, packages/db/src/org-lock.ts).                 *)
(*                                                                         *)
(*   idle --Arrive--> waiting --AcquireLock--> locked --Decide--> writing  *)
(*                       |                       |                   |     *)
(*                  LockTimeout          Refuse / Rollback     Commit /    *)
(*                                                             Rollback    *)
(*                                                                         *)
(* Deciding and committing are separate steps, so the model tells a lock   *)
(* that covers both from one that does not.                                *)
(***************************************************************************)
EXTENDS OrgRegister

CONSTANTS
    Requests,       \* request slots of the API process
    NoRequest,      \* the lock is free
    MaxLag          \* ticks one request can last: maxWait + lock_timeout + tx timeout

ASSUME MembershipAssumption == NoRequest \notin Requests /\ MaxLag \in Nat

VARIABLES
    lock,           \* the request holding the Organization row FOR UPDATE
    req             \* what every request slot is doing

vars == <<membership, invitations, clock, retired, lock, req>>

Idle == [pc |-> "idle"]

RequestState ==
    {Idle}
    \union [pc : {"waiting", "locked"}, op : Ops, now : Time]
    \union [pc : {"writing"}, op : Ops, now : Time, at : Time, verdict : Writing]

Init ==
    /\ RegisterInit
    /\ lock = NoRequest
    /\ req = [r \in Requests |-> Idle]

-----------------------------------------------------------------------------
\* The request pipeline in front of the service, on rows read before the lock:
\* membership and manage_members for the routes of the organization, membership
\* alone for leave, a link that resolves for accept.  Invitation ids are made by
\* the database: a client can only name one that exists (an unknown id is
\* answered NOT_FOUND and writes nothing).
Admitted(o) ==
    CASE o.kind = "leave"  -> IsActive(o.actor)
      [] o.kind = "accept" -> Resolves(o.inv, o.gen)
      [] OTHER -> /\ IsActive(o.actor)
                  /\ hasCapability(capabilitiesOf(o.actor), "manage_members")
                  /\ o.kind \in {"reissueLink", "cancel"} => o.inv \in DOMAIN invitations

Arrive(r, o) ==
    /\ req[r].pc = "idle"
    /\ Admitted(o)
    /\ req' = [req EXCEPT ![r] = [pc |-> "waiting", op |-> o, now |-> clock]]
    /\ UNCHANGED <<registerVars, lock>>

\* Mutant: the transaction starts without the lock of the organization.
AcquireUnlocked(r) ==
    /\ req[r].pc = "waiting"
    /\ lock' = r
    /\ req' = [req EXCEPT ![r].pc = "locked"]
    /\ UNCHANGED registerVars

\* SELECT ... FOR UPDATE returns.
AcquireLock(r) ==
    /\ req[r].pc = "waiting"
    /\ lock = NoRequest
    /\ lock' = r
    /\ req' = [req EXCEPT ![r].pc = "locked"]
    /\ UNCHANGED registerVars

\* Mutant: SET LOCAL lock_timeout is missing, the wait has no end of its own.
NoLockTimeout(r) == req[r].pc = "waiting" /\ FALSE /\ UNCHANGED vars

\* lock_timeout, or no pooled connection within maxWait: 409 busy, no retry.
LockTimeout(r) ==
    /\ req[r].pc = "waiting"
    /\ lock # NoRequest
    /\ req' = [req EXCEPT ![r] = Idle]
    /\ UNCHANGED <<registerVars, lock>>

\* The handler reads through tx, decides, and reads the clock it will stamp.
Decide(r) ==
    /\ req[r].pc = "locked"
    /\ Verdict(req[r].op, req[r].now) \in Writing
    /\ req' = [req EXCEPT ![r] = [pc |-> "writing", op |-> req[r].op, now |-> req[r].now,
                                  at |-> clock, verdict |-> Verdict(req[r].op, req[r].now)]]
    /\ UNCHANGED <<registerVars, lock>>

\* A domain error rolls the transaction back, which releases the lock.
Refuse(r) ==
    /\ req[r].pc = "locked"
    /\ Verdict(req[r].op, req[r].now) \notin Writing
    /\ req' = [req EXCEPT ![r] = Idle]
    /\ lock' = NoRequest
    /\ UNCHANGED registerVars

Commit(r) ==
    /\ req[r].pc = "writing"
    /\ Write(req[r].op, req[r].now, req[r].at, req[r].verdict)
    /\ req' = [req EXCEPT ![r] = Idle]
    /\ lock' = NoRequest
    /\ UNCHANGED clock

\* Transaction timeout, serialization failure, lost connection or crash.
Rollback(r) ==
    /\ req[r].pc \in {"locked", "writing"}
    /\ req' = [req EXCEPT ![r] = Idle]
    /\ lock' = NoRequest
    /\ UNCHANGED registerVars

\* Time passes while requests are in flight, at most MaxLag during each.
PassTime ==
    /\ \A r \in Requests : req[r].pc # "idle" => clock - req[r].now < MaxLag
    /\ Tick
    /\ UNCHANGED <<lock, req>>

Next ==
    \/ \E r \in Requests :
          \/ \E o \in Ops : Arrive(r, o)
          \/ AcquireLock(r) \/ LockTimeout(r)
          \/ Decide(r) \/ Refuse(r)
          \/ Commit(r) \/ Rollback(r)
    \/ PassTime

Spec == Init /\ [][Next]_vars

\* A transaction ends: the handler goes on, or the transaction timeout (P2028)
\* or the lock_timeout ends it.  Nothing makes clients send requests.
Fairness ==
    \A r \in Requests :
        /\ WF_vars(AcquireLock(r) \/ LockTimeout(r))
        /\ WF_vars(Decide(r) \/ Refuse(r) \/ Rollback(r))
        /\ WF_vars(Commit(r) \/ Rollback(r))

FairSpec == Spec /\ Fairness

-----------------------------------------------------------------------------
\* Type correctness of the tables, the lock and the requests.
TypeOK ==
    /\ RegisterTypeOK
    /\ lock \in Requests \union {NoRequest}
    /\ req \in [Requests -> RequestState]

\* The lock is held by the one request whose transaction is open.
LockHeld == \A r \in Requests : req[r].pc \in {"locked", "writing"} <=> lock = r

\* What a handler decided under the lock is still the right answer when its
\* writes commit, for every operation and every concurrent request.
DecisionStillHolds ==
    \A r \in Requests : req[r].pc = "writing" =>
        Verdict(req[r].op, req[r].now) = req[r].verdict

\* Transactions are serializable: the tables only ever change as if every
\* operation had happened at one instant (the specification of OrgRegister).
Serializable == RegisterSpec

\* Pending links that would make their holder an owner.
OwnerLinks ==
    {<<i, invitations[i].gen>> : i \in
        {j \in DOMAIN invitations :
            /\ invitations[j].status = "pending"
            /\ isOwnerRole(roleCapabilities[invitations[j].roleId])}}

Committing(r) == req[r].pc = "writing" /\ req'[r] = Idle /\ tables' # tables

\* Whoever changes the set of owners, or hands out a link that grants
\* ownership, is an active owner at the instant it commits, even if a request
\* that ran meanwhile demoted or removed them (leaving and accepting act on
\* oneself).
OwnerActs ==
    \A r \in Requests :
        /\ Committing(r)
        /\ req[r].op.kind \notin {"leave", "accept"}
        /\ \/ ActiveOwners(membership') # ActiveOwners(membership)
           \/ ~ (OwnerLinks' \subseteq OwnerLinks)
        => req[r].op.actor \in ActiveOwners(membership)

\* Every step of the transactions obeys OwnerActs.
OwnershipNeedsOwner == [][OwnerActs]_vars

\* Whoever creates an invitation, hands out a new link, changes a role or removes
\* a member may manage members at the instant it commits, and not only when the
\* request came in.  Cancelling is left out: it does not read its actor again.
ManagerActs ==
    \A r \in Requests :
        Committing(r) /\ req[r].op.kind \notin {"leave", "accept", "cancel"} =>
            /\ IsActive(req[r].op.actor)
            /\ hasCapability(capabilitiesOf(req[r].op.actor), "manage_members")

\* Every step of the transactions obeys ManagerActs.
WriterStillManages == [][ManagerActs]_vars

\* Every request is answered, under any contention on the lock.
RequestAnswered == \A r \in Requests : req[r].pc # "idle" ~> req[r].pc = "idle"

\* No outcome of a request, a refusal or a crash included, leaves the
\* organization locked.
LockFreed == lock # NoRequest ~> lock = NoRequest

\* Whatever becomes of a request, it is answered and it leaves the organization
\* unlocked.
Answered == RequestAnswered /\ LockFreed

=============================================================================
