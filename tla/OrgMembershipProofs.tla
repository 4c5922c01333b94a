------------------------ MODULE OrgMembershipProofs ------------------------
(***************************************************************************)
(* The locked transactions of OrgMembership implement OrgRegister, for     *)
(* every set of users, roles, invitations and requests and every value of  *)
(* the bounds; what is proved of the register therefore holds of them.     *)
(***************************************************************************)
EXTENDS MembersScreen, OrgRegisterProofs

\* Readings of the clock never lie in the future.
ClocksBehind ==
    \A r \in Requests :
        /\ req[r].pc # "idle" => req[r].now \in 0 .. clock
        /\ req[r].pc = "writing" => req[r].at \in 0 .. clock

RequestTypeOK ==
    /\ lock \in Requests \union {NoRequest}
    /\ req \in [Requests -> RequestState]

\* The inductive invariant: the lock is what keeps a decision true until its
\* writes commit.
IInv ==
    /\ RegisterInv
    /\ RequestTypeOK
    /\ LockHeld
    /\ DecisionStillHolds
    /\ ClocksBehind

\* A handler's answer depends on the two tables and nothing else.
LEMMA VerdictReadsTables ==
    ASSUME UNCHANGED <<membership, invitations>>, NEW o, NEW now
    PROVE  Verdict(o, now)' = Verdict(o, now)
<1>1. updateRoleVerdict(o)' = updateRoleVerdict(o)
  BY DEF updateRoleVerdict, IsActive, capabilitiesOf
<1>2. revokeVerdict(o)' = revokeVerdict(o)
  BY DEF revokeVerdict, IsActive, capabilitiesOf
<1>3. leaveVerdict(o)' = leaveVerdict(o)
  BY DEF leaveVerdict, IsActive
<1>4. createVerdict(o, now)' = createVerdict(o, now)
  BY DEF createVerdict, IsActive, capabilitiesOf, PendingFor, LivePending
<1>5. reissueLinkVerdict(o, now)' = reissueLinkVerdict(o, now)
  BY DEF reissueLinkVerdict, IsActive, capabilitiesOf
<1>6. cancelVerdict(o)' = cancelVerdict(o)
  BY DEF cancelVerdict
<1>7. acceptVerdict(o, now)' = acceptVerdict(o, now)
  BY DEF acceptVerdict, Resolves
<1> QED
  BY <1>1, <1>2, <1>3, <1>4, <1>5, <1>6, <1>7 DEF Verdict

\* What a request records, by where it is.
LEMMA RequestFields ==
    ASSUME RequestTypeOK, NEW r \in Requests
    PROVE  /\ req[r].pc \in {"idle", "waiting", "locked", "writing"}
           /\ req[r].pc # "idle" => req[r].op \in Ops /\ req[r].now \in Time
           /\ req[r].pc = "writing" => req[r].at \in Time /\ req[r].verdict \in Writing
  BY DEF RequestTypeOK, RequestState, Idle

-----------------------------------------------------------------------------
\* Every step of the transactions is a step of the register or leaves it alone.
LEMMA StepRefines ==
    ASSUME IInv, [Next]_vars
    PROVE  [RegisterNext]_registerVars
<1>1. ASSUME NEW r \in Requests, Commit(r)
      PROVE  RegisterNext
  <2>1. /\ req[r].op \in Ops
        /\ req[r].verdict \in Writing
        /\ Verdict(req[r].op, req[r].now) = req[r].verdict
        /\ req[r].now \in 0 .. clock
        /\ req[r].at \in 0 .. clock
    BY <1>1, RequestFields DEF Commit, IInv, DecisionStillHolds, ClocksBehind
  <2>2. Serve(req[r].op, req[r].now, req[r].at)
    BY <1>1, <2>1 DEF Commit, Serve
  <2> QED
    BY <2>1, <2>2 DEF RegisterNext
<1>2. CASE PassTime
  BY <1>2 DEF PassTime, RegisterNext
<1>3. ASSUME NEW r \in Requests,
             \/ \E o \in Ops : Arrive(r, o)
             \/ AcquireLock(r) \/ LockTimeout(r) \/ Decide(r) \/ Refuse(r) \/ Rollback(r)
      PROVE  UNCHANGED registerVars
  BY <1>3 DEF Arrive, AcquireLock, LockTimeout, Decide, Refuse, Rollback
<1>4. CASE UNCHANGED vars
  BY <1>4 DEF vars, registerVars
<1> QED
  BY <1>1, <1>2, <1>3, <1>4 DEF Next

-----------------------------------------------------------------------------
\* A request that comes in has decided nothing and holds nothing.
LEMMA ArriveKeepsIInv ==
    ASSUME IInv, RegisterInv', NEW r \in Requests, NEW o \in Ops, Arrive(r, o)
    PROVE  IInv'
<1>1. req' = [req EXCEPT ![r] = [pc |-> "waiting", op |-> o, now |-> clock]]
  BY DEF Arrive
<1>2. UNCHANGED <<membership, invitations, clock, lock>> /\ req[r].pc = "idle"
  BY DEF Arrive, registerVars
<1>3. RequestTypeOK'
  BY <1>1, <1>2 DEF IInv, RequestTypeOK, RequestState, RegisterInv, RegisterTypeOK
<1>4. LockHeld'
  BY <1>1, <1>2 DEF IInv, RequestTypeOK, LockHeld
<1>5. DecisionStillHolds'
  BY <1>1, <1>2, VerdictReadsTables DEF IInv, RequestTypeOK, DecisionStillHolds
<1>6. ClocksBehind'
  BY <1>1, <1>2 DEF IInv, RequestTypeOK, ClocksBehind, RegisterInv, RegisterTypeOK, Time
<1> QED
  BY <1>3, <1>4, <1>5, <1>6 DEF IInv

\* Taking the free lock makes its taker the one open transaction.
LEMMA AcquireKeepsIInv ==
    ASSUME IInv, RegisterInv', NEW r \in Requests, AcquireLock(r)
    PROVE  IInv'
<1>1. req' = [req EXCEPT ![r].pc = "locked"] /\ lock' = r
  BY DEF AcquireLock
<1>2. /\ UNCHANGED <<membership, invitations, clock>>
      /\ req[r].pc = "waiting" /\ lock = NoRequest
  BY DEF AcquireLock, registerVars
<1>3. req'[r] \in [pc : {"locked"}, op : Ops, now : Time] /\ req'[r].now = req[r].now
  BY <1>1, <1>2 DEF IInv, RequestTypeOK, RequestState, Idle
<1>4. \A s \in Requests : s # r => req'[s] = req[s]
  BY <1>1 DEF IInv, RequestTypeOK
<1>5. RequestTypeOK'
  BY <1>1, <1>3 DEF IInv, RequestTypeOK, RequestState
<1>6. LockHeld'
  BY <1>1, <1>2, <1>3, <1>4, MembershipAssumption DEF IInv, LockHeld
<1>7. DecisionStillHolds'
  BY <1>2, <1>3, <1>4, VerdictReadsTables DEF IInv, DecisionStillHolds
<1>8. ClocksBehind'
  BY <1>2, <1>3, <1>4 DEF IInv, ClocksBehind
<1> QED
  BY <1>5, <1>6, <1>7, <1>8 DEF IInv

\* A decision holds at the moment it is taken.
LEMMA DecideKeepsIInv ==
    ASSUME IInv, RegisterInv', NEW r \in Requests, Decide(r)
    PROVE  IInv'
<1>1. req' = [req EXCEPT ![r] = [pc |-> "writing", op |-> req[r].op, now |-> req[r].now,
                                 at |-> clock, verdict |-> Verdict(req[r].op, req[r].now)]]
  BY DEF Decide
<1>2. /\ UNCHANGED <<membership, invitations, clock, lock>>
      /\ req[r].pc = "locked" /\ Verdict(req[r].op, req[r].now) \in Writing
  BY DEF Decide, registerVars
<1>3. req[r].op \in Ops /\ req[r].now \in Time /\ clock \in Time
  BY <1>2, RequestFields DEF IInv, RegisterInv, RegisterTypeOK
<1>4. RequestTypeOK'
  BY <1>1, <1>2, <1>3 DEF IInv, RequestTypeOK, RequestState
<1>5. LockHeld'
  BY <1>1, <1>2 DEF IInv, RequestTypeOK, LockHeld
<1>6. DecisionStillHolds'
  BY <1>1, <1>2, VerdictReadsTables DEF IInv, RequestTypeOK, DecisionStillHolds
<1>7. ClocksBehind'
  BY <1>1, <1>2, <1>3 DEF IInv, RequestTypeOK, ClocksBehind, Time
<1> QED
  BY <1>4, <1>5, <1>6, <1>7 DEF IInv

\* Leaving the lock, by a refusal, a rollback or a commit.  Only the holder of
\* the lock can have decided, so no decision is left that the step could spoil.
LEMMA ReleaseKeepsIInv ==
    ASSUME IInv, RegisterInv', NEW r \in Requests, req[r].pc \in {"locked", "writing"},
           req' = [req EXCEPT ![r] = Idle], lock' = NoRequest, clock' = clock
    PROVE  IInv'
<1>1. lock = r
  BY DEF IInv, LockHeld
<1>2. \A s \in Requests : s # r => req'[s] = req[s] /\ req[s].pc \notin {"locked", "writing"}
  BY <1>1 DEF IInv, RequestTypeOK, LockHeld
<1>3. req'[r] = Idle
  BY DEF IInv, RequestTypeOK
<1>4. RequestTypeOK'
  BY DEF IInv, RequestTypeOK, RequestState
<1>5. LockHeld'
  BY <1>2, <1>3, MembershipAssumption DEF LockHeld, Idle
<1>6. DecisionStillHolds'
  BY <1>2, <1>3 DEF DecisionStillHolds, Idle
<1>7. ClocksBehind'
  BY <1>2, <1>3 DEF IInv, ClocksBehind, Idle
<1> QED
  BY <1>4, <1>5, <1>6, <1>7 DEF IInv

\* A request that gives up waiting never held the lock.
LEMMA TimeoutKeepsIInv ==
    ASSUME IInv, RegisterInv', NEW r \in Requests, LockTimeout(r)
    PROVE  IInv'
<1>1. /\ req' = [req EXCEPT ![r] = Idle] /\ req[r].pc = "waiting"
      /\ UNCHANGED <<membership, invitations, clock, lock>>
  BY DEF LockTimeout, registerVars
<1>2. RequestTypeOK'
  BY <1>1 DEF IInv, RequestTypeOK, RequestState
<1>3. LockHeld' /\ ClocksBehind'
  BY <1>1 DEF IInv, RequestTypeOK, LockHeld, ClocksBehind, Idle
<1>4. DecisionStillHolds'
  BY <1>1, VerdictReadsTables DEF IInv, RequestTypeOK, DecisionStillHolds, Idle
<1> QED
  BY <1>2, <1>3, <1>4 DEF IInv

\* Time passes without spoiling a decision: answers use the time of arrival.
LEMMA TimeKeepsIInv ==
    ASSUME IInv, RegisterInv', clock \in Time, clock' \in {clock, clock + 1},
           UNCHANGED <<membership, invitations, lock, req>>
    PROVE  IInv'
<1>1. RequestTypeOK' /\ LockHeld'
  BY DEF IInv, RequestTypeOK, LockHeld
<1>2. DecisionStillHolds'
  BY VerdictReadsTables DEF IInv, DecisionStillHolds
<1>3. ClocksBehind'
  BY DEF IInv, ClocksBehind, Time
<1> QED
  BY <1>1, <1>2, <1>3 DEF IInv

\* Every step of the transactions keeps the invariant.
LEMMA StepKeepsIInv ==
    ASSUME IInv, [Next]_vars
    PROVE  IInv'
<1>1. RegisterInv'
  BY StepRefines, RegisterStepKeepsInv DEF IInv
<1>2. ASSUME NEW r \in Requests, NEW o \in Ops, Arrive(r, o)
      PROVE  IInv'
  BY <1>1, <1>2, ArriveKeepsIInv
<1>3. ASSUME NEW r \in Requests, AcquireLock(r)
      PROVE  IInv'
  BY <1>1, <1>3, AcquireKeepsIInv
<1>4. ASSUME NEW r \in Requests, LockTimeout(r)
      PROVE  IInv'
  BY <1>1, <1>4, TimeoutKeepsIInv
<1>5. ASSUME NEW r \in Requests, Decide(r)
      PROVE  IInv'
  BY <1>1, <1>5, DecideKeepsIInv
<1>6. ASSUME NEW r \in Requests, Refuse(r) \/ Commit(r) \/ Rollback(r)
      PROVE  IInv'
  BY <1>1, <1>6, ReleaseKeepsIInv DEF Refuse, Commit, Rollback, registerVars
<1>7. CASE PassTime \/ UNCHANGED vars
  <2>1. clock \in Time
    BY DEF IInv, RegisterInv, RegisterTypeOK
  <2> QED
    BY <1>1, <1>7, <2>1, TimeKeepsIInv DEF PassTime, Tick, tables, vars
<1> QED
  BY <1>2, <1>3, <1>4, <1>5, <1>6, <1>7 DEF Next

-----------------------------------------------------------------------------
\* The invariant holds of every behaviour of the locked transactions.
THEOREM Invariant == Spec => []IInv
<1>1. Init => IInv
  <2> SUFFICES ASSUME Init PROVE IInv
    OBVIOUS
  <2>1. RegisterInv
    BY InitEstablishesInv DEF Init
  <2>2. RequestTypeOK /\ LockHeld /\ DecisionStillHolds /\ ClocksBehind
    BY MembershipAssumption DEF Init, RequestTypeOK, RequestState, LockHeld,
                                DecisionStillHolds, ClocksBehind, Idle
  <2> QED
    BY <2>1, <2>2 DEF IInv
<1>2. IInv /\ [Next]_vars => IInv'
  BY StepKeepsIInv
<1> QED
  BY <1>1, <1>2, PTL DEF Spec

\* Type correctness of the tables, the lock and the requests.
THEOREM TypeCorrect == Spec => []TypeOK
<1>1. IInv => TypeOK
  BY DEF IInv, RegisterInv, RequestTypeOK, TypeOK
<1> QED
  BY <1>1, Invariant, PTL

\* What a handler decided under the lock still holds when it commits.
THEOREM DecisionsHold == Spec => []DecisionStillHolds
<1>1. IInv => DecisionStillHolds
  BY DEF IInv
<1> QED
  BY <1>1, Invariant, PTL

\* No interleaving of role changes, removals, departures and acceptances leaves
\* the organization without an active owner.
THEOREM OwnerAlwaysRemains == Spec => []OwnerRemains
<1>1. IInv => OwnerRemains
  BY DEF IInv, RegisterInv
<1> QED
  BY <1>1, Invariant, PTL

\* Invitations: one pending per address, none for a member, none that outlives
\* the removal of its holder.
THEOREM InvitationsSound == Spec => []InvitationsConsistent
<1>1. IInv => InvitationsConsistent
  BY DEF IInv, RegisterInv, InvitationsConsistent
<1> QED
  BY <1>1, Invariant, PTL

\* The locked transactions implement the serial register.
THEOREM Refinement == Spec => Serializable
<1>1. Init => RegisterInit
  BY DEF Init
<1>2. IInv /\ [Next]_vars => [RegisterNext]_registerVars
  BY StepRefines
<1> QED
  BY <1>1, <1>2, Invariant, PTL DEF Spec, Serializable, RegisterSpec

\* InvitationsService.accept: whoever enters consumes a live link of one's own, also
\* while links are reissued and members removed.
THEOREM EntriesSound == Spec => EntryByLiveLink
  BY Refinement, RegisterActions, PTL DEF Serializable

\* Removals and closed invitations stay as they were written, by whatever requests.
THEOREM HistoryKept == Spec => HistoryStands
  BY Refinement, RegisterActions, PTL DEF Serializable, HistoryStands

-----------------------------------------------------------------------------
\* Rows change hands only in the step that commits the request that wrote them.
LEMMA CommittingIsCommit ==
    ASSUME IInv, [Next]_vars, NEW r \in Requests, Committing(r)
    PROVE  Commit(r)
<1>1. req[r].pc = "writing" /\ req'[r].pc = "idle" /\ tables' # tables
  BY DEF Committing, Idle
<1>2. ASSUME NEW s \in Requests, Commit(s)
      PROVE  s = r
  BY <1>1, <1>2 DEF Commit, IInv, RequestTypeOK
<1>3. ASSUME NEW s \in Requests,
             \/ \E o \in Ops : Arrive(s, o)
             \/ AcquireLock(s) \/ LockTimeout(s) \/ Decide(s) \/ Refuse(s) \/ Rollback(s)
      PROVE  FALSE
  BY <1>1, <1>3 DEF Arrive, AcquireLock, LockTimeout, Decide, Refuse, Rollback,
                    registerVars, tables
<1>4. ~PassTime /\ ~UNCHANGED vars
  BY <1>1 DEF PassTime, Tick, vars, tables
<1> QED
  BY <1>2, <1>3, <1>4 DEF Next

\* What the handlers that act on others have established about their actor: it is
\* active, it may manage members, and it is an owner where ownership is touched.
LEMMA ActorAllowed ==
    ASSUME RegisterTypeOK, NEW o \in Ops, NEW now, Verdict(o, now) \in Writing,
           o.kind \notin {"leave", "accept", "cancel"}
    PROVE  /\ IsActive(o.actor)
           /\ hasCapability(capabilitiesOf(o.actor), "manage_members")
           /\ \/ isOwnerRole(capabilitiesOf(o.actor))
              \/ /\ o.kind = "updateRole"
                 /\ ~isOwnerRole(capabilitiesOf(o.target))
                 /\ ~isOwnerRole(roleCapabilities[o.role])
              \/ o.kind = "revoke" /\ ~isOwnerRole(capabilitiesOf(o.target))
              \/ o.kind = "create" /\ ~isOwnerRole(roleCapabilities[o.role])
              \/ /\ o.kind = "reissueLink"
                 /\ ~isOwnerRole(roleCapabilities[invitations[o.inv].roleId])
<1>1. o.kind \in {"updateRole", "revoke", "create", "reissueLink"}
  BY DEF Ops, MemberOps, LeaveOps, InvitationOps, AcceptOps
<1>2. CASE o.kind = "updateRole"
  BY <1>2 DEF Verdict, updateRoleVerdict, Writing, canAssignRole, hasCapability, isOwnerRole
<1>3. CASE o.kind = "revoke"
  BY <1>3 DEF Verdict, revokeVerdict, Writing, canAssignRole, hasCapability, isOwnerRole
<1>4. CASE o.kind = "create"
  BY <1>4 DEF Verdict, createVerdict, Writing, canAssignRole, hasCapability, isOwnerRole
<1>5. CASE o.kind = "reissueLink"
  BY <1>5 DEF Verdict, reissueLinkVerdict, Writing, canAssignRole, hasCapability, isOwnerRole
<1> QED
  BY <1>1, <1>2, <1>3, <1>4, <1>5

\* A change of a role that neither was nor becomes an owner's leaves the owners.
LEMMA PlainRoleChange ==
    ASSUME RegisterTypeOK, NEW o, writeRole(o), IsActive(o.target),
           ~isOwnerRole(capabilitiesOf(o.target)), ~isOwnerRole(roleCapabilities[o.role])
    PROVE  ActiveOwners(membership') = ActiveOwners(membership)
<1>1. DOMAIN membership' = DOMAIN membership
  BY DEF writeRole
<1>2. \A u \in DOMAIN membership :
        /\ membership'[u].status = membership[u].status
        /\ membership'[u].roleId = IF u = o.target THEN o.role ELSE membership[u].roleId
  BY DEF RegisterTypeOK, writeRole, MembershipRow
<1> QED
  BY <1>1, <1>2 DEF ActiveOwners, OwnerRows, capabilitiesOf

\* The removal of somebody who is no owner leaves the owners and adds no link.
LEMMA PlainRemoval ==
    ASSUME RegisterTypeOK, NEW u, NEW at, writeRevocation(u, at), IsActive(u)
    PROVE  /\ OwnerLinks' \subseteq OwnerLinks
           /\ ~isOwnerRole(capabilitiesOf(u)) =>
                 ActiveOwners(membership') = ActiveOwners(membership)
<1>1. /\ DOMAIN membership' = DOMAIN membership /\ DOMAIN invitations' = DOMAIN invitations
  BY DEF writeRevocation
<1>2. \A v \in DOMAIN membership :
        /\ membership'[v].roleId = membership[v].roleId
        /\ v # u => membership'[v].status = membership[v].status
  BY DEF RegisterTypeOK, writeRevocation, MembershipRow
<1>3. \A i \in DOMAIN invitations :
        invitations'[i].status = "pending" => invitations'[i] = invitations[i]
  BY DEF RegisterTypeOK, writeRevocation, InvitationRow
<1>4. OwnerLinks' \subseteq OwnerLinks
  BY <1>1, <1>3 DEF OwnerLinks
<1>5. ~isOwnerRole(capabilitiesOf(u)) => ActiveOwners(membership') = ActiveOwners(membership)
  <2> SUFFICES ASSUME ~isOwnerRole(capabilitiesOf(u))
               PROVE  ActiveOwners(membership') = ActiveOwners(membership)
    OBVIOUS
  <2>1. u \notin OwnerRows(membership) /\ OwnerRows(membership') = OwnerRows(membership)
    BY <1>1, <1>2 DEF OwnerRows, capabilitiesOf
  <2>2. \A v \in OwnerRows(membership) : membership'[v].status = membership[v].status
    BY <1>2, <2>1 DEF OwnerRows
  <2> QED
    BY <2>1, <2>2 DEF ActiveOwners
<1> QED
  BY <1>4, <1>5

\* A new invitation adds the one link of its role.
LEMMA PlainInvitation ==
    ASSUME NEW o, NEW now, writeInvitation(o, now), ~isOwnerRole(roleCapabilities[o.role])
    PROVE  OwnerLinks' \subseteq OwnerLinks
<1>1. PICK i \in InvIds \ DOMAIN invitations :
        invitations' = Put(invitations, i,
            [status |-> "pending", email |-> o.email, roleId |-> o.role, gen |-> 1,
             tokenIssuedAt |-> now, expiresAt |-> expiryFrom(now, o.role)])
  BY DEF writeInvitation
<1>2. /\ DOMAIN invitations' = DOMAIN invitations \union {i}
      /\ invitations'[i].roleId = o.role
      /\ \A j \in DOMAIN invitations : invitations'[j] = invitations[j]
  BY <1>1 DEF Put
<1> QED
  BY <1>2 DEF OwnerLinks

\* A new link for an invitation that grants no ownership grants none either.
LEMMA PlainNewLink ==
    ASSUME RegisterTypeOK, NEW o, NEW now, o.inv \in DOMAIN invitations,
           writeNewLink(o, now), ~isOwnerRole(roleCapabilities[invitations[o.inv].roleId])
    PROVE  OwnerLinks' \subseteq OwnerLinks
<1>1. DOMAIN invitations' = DOMAIN invitations
  BY DEF writeNewLink
<1>2. /\ \A j \in DOMAIN invitations : j # o.inv => invitations'[j] = invitations[j]
      /\ invitations'[o.inv].roleId = invitations[o.inv].roleId
  BY DEF RegisterTypeOK, writeNewLink, InvitationRow
<1> QED
  BY <1>1, <1>2 DEF OwnerLinks

\* A cancellation only takes links away.
LEMMA CancelTakesLinks ==
    ASSUME RegisterTypeOK, NEW o, o.inv \in DOMAIN invitations, writeCancel(o)
    PROVE  OwnerLinks' \subseteq OwnerLinks
<1>1. DOMAIN invitations' = DOMAIN invitations
  BY DEF writeCancel, writeInvitationStatus
<1>2. /\ \A j \in DOMAIN invitations : j # o.inv => invitations'[j] = invitations[j]
      /\ invitations'[o.inv].status = "cancelled"
  BY DEF RegisterTypeOK, writeCancel, writeInvitationStatus, InvitationRow
<1> QED
  BY <1>1, <1>2 DEF OwnerLinks

\* A committing request had its rights at the instant it commits.
LEMMA CommitObeys ==
    ASSUME IInv, NEW r \in Requests, Commit(r)
    PROVE  /\ req[r].op.kind \notin {"leave", "accept", "cancel"} =>
                 /\ IsActive(req[r].op.actor)
                 /\ hasCapability(capabilitiesOf(req[r].op.actor), "manage_members")
           /\ /\ req[r].op.kind \notin {"leave", "accept"}
              /\ \/ ActiveOwners(membership') # ActiveOwners(membership)
                 \/ ~ (OwnerLinks' \subseteq OwnerLinks)
              => req[r].op.actor \in ActiveOwners(membership)
<1> DEFINE o == req[r].op
           now == req[r].now
           at == req[r].at
<1>1. /\ o \in Ops /\ Verdict(o, now) \in Writing
      /\ Write(o, now, at, Verdict(o, now)) /\ RegisterTypeOK
  BY RequestFields DEF Commit, IInv, DecisionStillHolds, RegisterInv
<1> HIDE DEF o, now, at
<1>2. ASSUME o.kind \notin {"leave", "accept", "cancel"}
      PROVE  IsActive(o.actor) /\ hasCapability(capabilitiesOf(o.actor), "manage_members")
  BY <1>1, <1>2, ActorAllowed
<1>3. ASSUME o.kind \notin {"leave", "accept"}, o.actor \notin ActiveOwners(membership)
      PROVE  ActiveOwners(membership') = ActiveOwners(membership) /\ OwnerLinks' \subseteq OwnerLinks
  <2>1. o.kind \in {"updateRole", "revoke", "create", "reissueLink", "cancel"}
    BY <1>1, <1>3 DEF Ops, MemberOps, LeaveOps, InvitationOps, AcceptOps
  <2>2. o.kind # "cancel" => ~isOwnerRole(capabilitiesOf(o.actor))
    BY <1>2, <1>3 DEF ActiveOwners, OwnerRows, IsActive, capabilitiesOf
  <2>3. CASE o.kind = "updateRole"
    <3>1. ~isOwnerRole(capabilitiesOf(o.target)) /\ ~isOwnerRole(roleCapabilities[o.role])
      BY <1>1, <2>2, <2>3, ActorAllowed
    <3>2. writeRole(o) /\ IsActive(o.target)
      BY <1>1, <2>3, UpdateRoleAllowed DEF Write
    <3>3. OwnerLinks' = OwnerLinks
      BY <3>2 DEF writeRole, OwnerLinks
    <3> QED
      BY <1>1, <3>1, <3>2, <3>3, PlainRoleChange
  <2>4. CASE o.kind = "revoke"
    <3>1. ~isOwnerRole(capabilitiesOf(o.target))
      BY <1>1, <2>2, <2>4, ActorAllowed
    <3>2. writeRevocation(o.target, at) /\ IsActive(o.target)
      BY <1>1, <2>4, RevokeAllowed DEF Write
    <3> QED
      BY <1>1, <3>1, <3>2, PlainRemoval
  <2>5. CASE o.kind = "create"
    <3>1. ~isOwnerRole(roleCapabilities[o.role])
      BY <1>1, <2>2, <2>5, ActorAllowed
    <3>2. writeInvitation(o, now)
      BY <1>1, <2>5 DEF Write
    <3> QED
      BY <3>1, <3>2, PlainInvitation DEF writeInvitation
  <2>6. CASE o.kind = "reissueLink"
    <3>1. ~isOwnerRole(roleCapabilities[invitations[o.inv].roleId])
      BY <1>1, <2>2, <2>6, ActorAllowed
    <3>2. writeNewLink(o, now) /\ o.inv \in DOMAIN invitations
      BY <1>1, <2>6, ReissueAllowed DEF Write
    <3> QED
      BY <1>1, <3>1, <3>2, PlainNewLink DEF writeNewLink
  <2>7. CASE o.kind = "cancel"
    <3>1. writeCancel(o) /\ o.inv \in DOMAIN invitations
      BY <1>1, <2>7, CancelAllowed DEF Write
    <3> QED
      BY <1>1, <3>1, CancelTakesLinks DEF writeCancel
  <2> QED
    BY <2>1, <2>3, <2>4, <2>5, <2>6, <2>7
<1> QED
  BY <1>2, <1>3 DEF o

\* Ownership changes hands, and links that grant it are issued, only by a request
\* whose actor is an active owner at the instant it commits, whatever happened to
\* them since the pipeline admitted the request.
THEOREM OwnersRuleOwnership == Spec => OwnershipNeedsOwner
<1>1. IInv /\ [Next]_vars => [OwnerActs]_vars
  BY CommittingIsCommit, CommitObeys DEF OwnerActs
<1> QED
  BY <1>1, Invariant, PTL DEF Spec, OwnershipNeedsOwner

\* Whoever writes about other members may manage members when the write commits.
THEOREM ManagersWrite == Spec => WriterStillManages
<1>1. IInv /\ [Next]_vars => [ManagerActs]_vars
  BY CommittingIsCommit, CommitObeys DEF ManagerActs
<1> QED
  BY <1>1, Invariant, PTL DEF Spec, WriterStillManages

-----------------------------------------------------------------------------
(***************************************************************************)
(* The screens.  They decide by rules of their own, on the rows they list; *)
(* a screen and a verdict agree about the same tables.                     *)
(***************************************************************************)
\* Acting on ownership takes ownership, anything else the right to manage members.
LEMMA WhoMayAssign ==
    ASSUME NEW c \in SUBSET Capabilities, NEW t \in BOOLEAN, NEW n \in BOOLEAN
    PROVE  canAssignRole(c, t, n) <=>
              isOwnerRole(c) \/ (~t /\ ~n /\ "manage_members" \in c)
  BY DEF canAssignRole, hasCapability, isOwnerRole

\* The capabilities of a member, and who the owners are.
LEMMA RowsOfMembers ==
    ASSUME RegisterTypeOK, NEW u \in DOMAIN membership
    PROVE  /\ membership[u].roleId \in OrgRoles
           /\ capabilitiesOf(u) \in SUBSET Capabilities
           /\ u \in ActiveOwners(membership) <=>
                 membership[u].status = "active" /\ isOwnerRole(capabilitiesOf(u))
           /\ \A role \in OrgRoles :
                 /\ roleCapabilities[role] \in SUBSET Capabilities
                 /\ isOwnerRole(roleCapabilities[role]) \in BOOLEAN
           /\ isOwnerRole(capabilitiesOf(u)) \in BOOLEAN
<1>1. membership[u].roleId \in OrgRoles
  BY DEF RegisterTypeOK, MembershipRow
<1>2. \A role \in OrgRoles : roleCapabilities[role] \in SUBSET Capabilities
  BY RolesAssumption
<1> QED
  BY <1>1, <1>2 DEF capabilitiesOf, ActiveOwners, OwnerRows, isOwnerRole

\* Taking one owner away leaves none only if that one was the last.
LEMMA LastOwnerIsAlone ==
    ASSUME OwnerRemains, NEW u
    PROVE  /\ activeOwnersAfterRevoke(membership, u) = {} =>
                 ActiveOwners(membership) = {u}
           /\ \A c : activeOwnersAfterRoleChange(membership, u, c) = {} =>
                 ActiveOwners(membership) = {u}
  BY DEF OwnerRemains, activeOwnersAfterRevoke, activeOwnersAfterRoleChange

\* A change of role among members of the organization: who is refused for what.
LEMMA ChangeAnswers ==
    ASSUME RegisterInv, NEW o, o.role \in OrgRoles, IsActive(o.target), IsActive(o.actor)
    PROVE  LET mine == isOwnerRole(capabilitiesOf(o.actor))
               allowed == mine \/ /\ ~isOwnerRole(capabilitiesOf(o.target))
                                  /\ ~isOwnerRole(roleCapabilities[o.role])
                                  /\ "manage_members" \in capabilitiesOf(o.actor)
           IN  /\ ~allowed => updateRoleVerdict(o) = "FORBIDDEN"
               /\ allowed => \/ updateRoleVerdict(o) = "ok"
                             \/ /\ updateRoleVerdict(o) = "LAST_OWNER"
                                /\ ActiveOwners(membership) = {o.target}
<1> DEFINE mine == isOwnerRole(capabilitiesOf(o.actor))
           allowed == mine \/ /\ ~isOwnerRole(capabilitiesOf(o.target))
                              /\ ~isOwnerRole(roleCapabilities[o.role])
                              /\ "manage_members" \in capabilitiesOf(o.actor)
           may == canAssignRole(capabilitiesOf(o.actor), isOwnerRole(capabilitiesOf(o.target)),
                                isOwnerRole(roleCapabilities[o.role]))
           nobody == activeOwnersAfterRoleChange(membership, o.target, roleCapabilities[o.role]) = {}
<1>1. may <=> allowed
  BY RowsOfMembers, WhoMayAssign DEF RegisterInv, IsActive
<1>2. updateRoleVerdict(o) = IF ~may THEN "FORBIDDEN" ELSE IF nobody THEN "LAST_OWNER" ELSE "ok"
  BY DEF updateRoleVerdict
<1>3. nobody => ActiveOwners(membership) = {o.target}
  BY LastOwnerIsAlone DEF RegisterInv
<1> HIDE DEF may, nobody, allowed
<1>4. /\ ~allowed => updateRoleVerdict(o) = "FORBIDDEN"
      /\ allowed => \/ updateRoleVerdict(o) = "ok"
                    \/ /\ updateRoleVerdict(o) = "LAST_OWNER"
                       /\ ActiveOwners(membership) = {o.target}
  BY <1>1, <1>2, <1>3
<1> QED
  BY <1>4 DEF allowed

\* The same of a removal.
LEMMA RemovalAnswers ==
    ASSUME RegisterInv, NEW o, IsActive(o.target), IsActive(o.actor)
    PROVE  LET allowed == isOwnerRole(capabilitiesOf(o.actor))
                          \/ /\ ~isOwnerRole(capabilitiesOf(o.target))
                             /\ "manage_members" \in capabilitiesOf(o.actor)
           IN  /\ ~allowed => revokeVerdict(o) = "FORBIDDEN"
               /\ allowed => \/ revokeVerdict(o) = "ok"
                             \/ /\ revokeVerdict(o) = "LAST_OWNER"
                                /\ ActiveOwners(membership) = {o.target}
<1> DEFINE allowed == isOwnerRole(capabilitiesOf(o.actor))
                      \/ /\ ~isOwnerRole(capabilitiesOf(o.target))
                         /\ "manage_members" \in capabilitiesOf(o.actor)
           may == canAssignRole(capabilitiesOf(o.actor), isOwnerRole(capabilitiesOf(o.target)), FALSE)
           nobody == activeOwnersAfterRevoke(membership, o.target) = {}
<1>1. may <=> allowed
  BY RowsOfMembers, WhoMayAssign DEF RegisterInv, IsActive
<1>2. revokeVerdict(o) = IF ~may THEN "FORBIDDEN" ELSE IF nobody THEN "LAST_OWNER" ELSE "ok"
  BY DEF revokeVerdict
<1>3. nobody => ActiveOwners(membership) = {o.target}
  BY LastOwnerIsAlone DEF RegisterInv
<1> HIDE DEF may, nobody, allowed
<1>4. /\ ~allowed => revokeVerdict(o) = "FORBIDDEN"
      /\ allowed => \/ revokeVerdict(o) = "ok"
                    \/ /\ revokeVerdict(o) = "LAST_OWNER"
                       /\ ActiveOwners(membership) = {o.target}
  BY <1>1, <1>2, <1>3
<1> QED
  BY <1>4 DEF allowed

\* What the row of a member offers is what the server grants.
LEMMA MemberOffersStand ==
    ASSUME RegisterInv, NEW me \in Users, IsActive(me),
           can(capabilitiesOf(me), "manage_members"), NEW u \in DOMAIN membership
    PROVE  MemberOffers(me, u)
<1> DEFINE Change(role) == updateRoleVerdict(
               [kind |-> "updateRole", actor |-> me, target |-> u, role |-> role])
           removal == revokeVerdict([kind |-> "revoke", actor |-> me, target |-> u])
           departure == leaveVerdict([kind |-> "leave", actor |-> u])
           offered == rowActions(me, u)
           allowed == {"ok"} \union (IF u = me THEN {"LAST_OWNER"} ELSE {})
           mine == isOwnerRole(capabilitiesOf(me))
           theirs == isOwnerRole(capabilitiesOf(u))
<1>1. /\ RegisterTypeOK /\ me \in DOMAIN membership
      /\ mine \/ "manage_members" \in capabilitiesOf(me)
  BY DEF RegisterInv, IsActive, can, hasCapability, isOwnerRole
<1>2. offered = IF membership[u].status # "active" THEN {}
                ELSE IF u = me THEN {"changeRole", "leaveOrg"}
                ELSE IF theirs /\ ~mine THEN {"ownerOnlyNotice"}
                ELSE {"changeRole", "removeFromOrg"}
  BY DEF rowActions, memberActionsFor, toMemberRow
<1>3. offered # {} => IsActive(u)
  BY <1>2 DEF IsActive
<1>4. ActiveOwners(membership) = {u} /\ mine => u = me
  BY <1>1, RowsOfMembers DEF IsActive
<1>5. ASSUME NEW role \in OrgRoles \ {membership[u].roleId}, "changeRole" \in offered
      PROVE  IF role \in changeableTo(me, u) THEN Change(role) \in allowed
             ELSE Change(role) = "FORBIDDEN"
  <2> DEFINE o == [kind |-> "updateRole", actor |-> me, target |-> u, role |-> role]
             grants == isOwnerRole(roleCapabilities[role])
  <2>1. role \in changeableTo(me, u) <=> mine \/ ~grants
    BY <1>5 DEF changeableTo, assignableRoles, ownerRoleIds, RoleRow
  <2>2. u = me \/ mine \/ ~theirs
    BY <1>2, <1>5
  <2>3. IsActive(u) /\ o.role = role /\ o.actor = me /\ o.target = u
    BY <1>3, <1>5
  <2> HIDE DEF o
  <2>4. /\ ~(mine \/ (~theirs /\ ~grants /\ "manage_members" \in capabilitiesOf(me))) =>
              updateRoleVerdict(o) = "FORBIDDEN"
        /\ mine \/ (~theirs /\ ~grants /\ "manage_members" \in capabilitiesOf(me)) =>
              \/ updateRoleVerdict(o) = "ok"
              \/ updateRoleVerdict(o) = "LAST_OWNER" /\ ActiveOwners(membership) = {u}
    BY <2>3, ChangeAnswers
  <2>5. ActiveOwners(membership) = {u} => theirs
    BY <1>1, RowsOfMembers
  <2>6. updateRoleVerdict(o) = Change(role)
    BY DEF o
  <2> HIDE DEF Change, mine, theirs, grants, offered
  <2>7. CASE mine \/ ~grants
    <3>1. role \in changeableTo(me, u)
      BY <2>1, <2>7
    <3>2. mine \/ (~theirs /\ ~grants /\ "manage_members" \in capabilitiesOf(me))
      BY <1>1, <2>2, <2>5, <2>7, <1>4, RowsOfMembers DEF mine, theirs
    <3>3. Change(role) = "ok" \/ (Change(role) = "LAST_OWNER" /\ ActiveOwners(membership) = {u})
      BY <2>4, <2>6, <3>2
    <3>4. ActiveOwners(membership) = {u} => u = me
      BY <1>4, <2>2, <2>5
    <3> QED
      BY <3>1, <3>3, <3>4
  <2>8. CASE ~mine /\ grants
    <3>1. role \notin changeableTo(me, u)
      BY <2>1, <2>8
    <3>2. Change(role) = "FORBIDDEN"
      BY <2>4, <2>6, <2>8
    <3> QED
      BY <3>1, <3>2
  <2> QED
    BY <2>7, <2>8
<1>6. ASSUME IsActive(u)
      PROVE  /\ theirs /\ ~mine => removal = "FORBIDDEN"
             /\ ~(theirs /\ ~mine) => \/ removal = "ok"
                                     \/ ActiveOwners(membership) = {u}
  <2> DEFINE o == [kind |-> "revoke", actor |-> me, target |-> u]
  <2>1. o.actor = me /\ o.target = u
    OBVIOUS
  <2> HIDE DEF o
  <2>2. /\ ~(mine \/ (~theirs /\ "manage_members" \in capabilitiesOf(me))) =>
              revokeVerdict(o) = "FORBIDDEN"
        /\ mine \/ (~theirs /\ "manage_members" \in capabilitiesOf(me)) =>
              revokeVerdict(o) = "ok" \/ ActiveOwners(membership) = {u}
    BY <1>6, <2>1, RemovalAnswers
  <2>3. revokeVerdict(o) = removal
    BY DEF o
  <2> HIDE DEF removal, mine, theirs
  <2> QED
    BY <1>1, <2>2, <2>3
<1>7. "removeFromOrg" \in offered => removal = "ok"
  <2>1. "removeFromOrg" \in offered => u # me /\ ~(theirs /\ ~mine) /\ IsActive(u)
    BY <1>2, <1>3
  <2>2. ActiveOwners(membership) = {u} => theirs
    BY <1>1, RowsOfMembers
  <2> HIDE DEF removal, mine, theirs, offered
  <2> QED
    BY <1>4, <1>6, <2>1, <2>2
<1>8. "leaveOrg" \in offered => departure \in allowed
  BY <1>2, <1>3 DEF leaveVerdict
<1>9. "ownerOnlyNotice" \in offered =>
          removal = "FORBIDDEN" /\ \A role \in OrgRoles : Change(role) = "FORBIDDEN"
  <2>1. "ownerOnlyNotice" \in offered => theirs /\ ~mine /\ IsActive(u)
    BY <1>2, <1>3
  <2>2. ASSUME NEW role \in OrgRoles, theirs, ~mine, IsActive(u)
        PROVE  Change(role) = "FORBIDDEN"
    <3> DEFINE o == [kind |-> "updateRole", actor |-> me, target |-> u, role |-> role]
    <3>1. o.role = role /\ o.actor = me /\ o.target = u
      OBVIOUS
    <3> HIDE DEF o
    <3>2. updateRoleVerdict(o) = "FORBIDDEN"
      BY <2>2, <3>1, ChangeAnswers
    <3> QED
      BY <3>2 DEF o
  <2> HIDE DEF removal, mine, theirs, offered, Change
  <2> QED
    BY <1>6, <2>1, <2>2
<1> QED
  BY <1>5, <1>7, <1>8, <1>9 DEF MemberOffers

\* Inviting is refused as FORBIDDEN for the closed roles and no other.
LEMMA InviteOffersStand ==
    ASSUME RegisterInv, NEW me \in Users, IsActive(me),
           can(capabilitiesOf(me), "manage_members"), NEW email, NEW role \in OrgRoles
    PROVE  InviteOffers(me, email, role)
<1> DEFINE o == [kind |-> "create", actor |-> me, email |-> email, role |-> role]
           mine == isOwnerRole(capabilitiesOf(me))
           grants == isOwnerRole(roleCapabilities[role])
<1>1. canAssignRole(capabilitiesOf(me), FALSE, grants) <=> mine \/ ~grants
  <2>1. mine \/ "manage_members" \in capabilitiesOf(me)
    BY DEF can, hasCapability, isOwnerRole
  <2> QED
    BY <2>1, RowsOfMembers, WhoMayAssign DEF RegisterInv, IsActive
<1>2. role \in invitableWith(me) <=> mine \/ ~grants
  BY DEF invitableWith, assignableRoles, ownerRoleIds, RoleRow
<1>3. o.role = role /\ o.actor = me
  OBVIOUS
<1> HIDE DEF o
<1>4. createVerdict(o, clock) = "FORBIDDEN" <=> ~canAssignRole(capabilitiesOf(me), FALSE, grants)
  BY <1>3 DEF createVerdict
<1> QED
  BY <1>1, <1>2, <1>4 DEF InviteOffers, o

\* The row of an invitation, as old as it may be, and the server about its link.
LEMMA InvitationOffersStand ==
    ASSUME RegisterInv, NEW me \in Users, NEW i \in DOMAIN invitations, NEW readAt \in 0 .. clock
    PROVE  InvitationOffers(me, i, readAt)
<1> DEFINE row == toInvitationRow(i, readAt)
           stored == invitations[i]
           opens == preview(i, stored.gen, clock) = "ok"
<1>1. /\ stored.status \in {"pending", "accepted", "cancelled"} /\ stored.roleId \in OrgRoles
      /\ stored.expiresAt \in Nat /\ clock \in Nat /\ readAt \in Nat /\ readAt <= clock
  BY DEF RegisterInv, RegisterTypeOK, InvitationRow, Time
<1>2. /\ row.status = IF stored.status = "pending" /\ stored.expiresAt <= readAt
                      THEN "expired" ELSE stored.status
      /\ row.expiresAt = stored.expiresAt /\ row.roleId = stored.roleId
  BY DEF toInvitationRow, resolveInvitationStatus
<1>3. opens <=> stored.status = "pending" /\ stored.expiresAt > clock
  BY <1>1 DEF preview, Resolves, resolveInvitationStatus
<1>4. "cancel" \in invitationActions(row) =>
          cancelVerdict([kind |-> "cancel", actor |-> me, inv |-> i]) = "ok"
  BY <1>1, <1>2 DEF invitationActions, cancelVerdict
<1>5. prefilledRoles(me, row) \subseteq invitableWith(me)
  BY <1>1, <1>2 DEF prefilledRoles, invitableWith, assignableRoles
<1>6. isInvitationLinkLive(row, clock) <=> opens
  BY <1>1, <1>2, <1>3 DEF isInvitationLinkLive
<1>7. invitationStatusLabel(row, clock) = "pending" <=> opens
  BY <1>1, <1>2, <1>3 DEF invitationStatusLabel
<1> QED
  BY <1>4, <1>5, <1>6, <1>7 DEF InvitationOffers

-----------------------------------------------------------------------------
\* What the dialogs about a member say to each code.
LEMMA MemberDialogs ==
    /\ changeRoleSays("NOT_FOUND") = "gone" /\ removeSays("NOT_FOUND") = "gone"
    /\ changeRoleSays("LAST_OWNER") = "lastOwner" /\ removeSays("LAST_OWNER") = "lastOwner"
    /\ \A code \in {"FORBIDDEN", "ORG_ACCESS_DENIED"} :
          changeRoleSays(code) = "forbidden" /\ removeSays(code) = "forbidden"
  BY DEF changeRoleSays, removeSays, fromStatus, ERROR_CODES, Busy

\* A refused change of role or removal says what is so.
LEMMA MemberRefusalsExplained ==
    ASSUME RegisterInv, NEW o, o.kind \in {"updateRole", "revoke"},
           o.kind = "updateRole" => o.role \in OrgRoles
    PROVE  MemberRefusalExplained(o)
<1> DEFINE Says(code) == IF o.kind = "revoke" THEN removeSays(code) ELSE changeRoleSays(code)
           Explained(code) ==
               \/ Says(code) = "gone" /\ ~IsActive(o.target)
               \/ Says(code) = "lastOwner" /\ ActiveOwners(membership) = {o.target}
               \/ Says(code) = "forbidden" /\ o.actor \notin ActiveOwners(membership)
<1>1. ASSUME ~IsActive(o.actor) \/ ~hasCapability(capabilitiesOf(o.actor), "manage_members")
      PROVE  o.actor \notin ActiveOwners(membership)
  BY <1>1 DEF ActiveOwners, OwnerRows, IsActive, hasCapability, isOwnerRole, capabilitiesOf
<1>2. ASSUME NEW code \in gateRefusals(o)
      PROVE  Explained(code)
  <2>1. code \in {"FORBIDDEN", "ORG_ACCESS_DENIED"} /\ o.actor \notin ActiveOwners(membership)
    BY <1>1, <1>2 DEF gateRefusals
  <2> QED
    BY <2>1, MemberDialogs
<1>3. ASSUME Verdict(o, clock) # "ok"
      PROVE  Explained(Verdict(o, clock))
  <2>1. Verdict(o, clock) = IF o.kind = "revoke" THEN revokeVerdict(o) ELSE updateRoleVerdict(o)
    BY DEF Verdict
  <2>2. CASE ~IsActive(o.target)
    <3>1. Verdict(o, clock) = "NOT_FOUND"
      BY <2>1, <2>2 DEF revokeVerdict, updateRoleVerdict
    <3> QED
      BY <2>2, <3>1, MemberDialogs
  <2>3. CASE IsActive(o.target) /\ ~IsActive(o.actor)
    <3>1. Verdict(o, clock) = "ORG_ACCESS_DENIED"
      BY <2>1, <2>3 DEF revokeVerdict, updateRoleVerdict
    <3> QED
      BY <1>1, <2>3, <3>1, MemberDialogs
  <2>4. CASE IsActive(o.target) /\ IsActive(o.actor)
    <3>1. \/ /\ Verdict(o, clock) = "FORBIDDEN"
             /\ ~isOwnerRole(capabilitiesOf(o.actor))
          \/ /\ Verdict(o, clock) = "LAST_OWNER"
             /\ ActiveOwners(membership) = {o.target}
      BY <1>3, <2>1, <2>4, ChangeAnswers, RemovalAnswers
    <3>2. ~isOwnerRole(capabilitiesOf(o.actor)) => o.actor \notin ActiveOwners(membership)
      BY DEF ActiveOwners, OwnerRows, capabilitiesOf
    <3> QED
      BY <3>1, <3>2, MemberDialogs
  <2> QED
    BY <2>2, <2>3, <2>4
<1> HIDE DEF Explained
<1>4. \A code \in (gateRefusals(o) \union {Verdict(o, clock)}) \ {"ok"} : Explained(code)
  BY <1>2, <1>3
<1> QED
  BY <1>4 DEF MemberRefusalExplained, Explained

\* Leaving: whoever is out is told so, the last owner is shown the members screen.
LEMMA LeaveRefusalsExplained ==
    ASSUME RegisterInv, NEW o
    PROVE  LeaveRefusalExplained(o)
<1>1. /\ toLeaveOrgOutcome("ORG_ACCESS_DENIED") = "already-left"
      /\ toLeaveOrgOutcome("LAST_OWNER") = "blocked"
  BY DEF toLeaveOrgOutcome, fromStatus, ERROR_CODES, Busy
<1>2. CASE leaveVerdict(o) = "ok"
  BY <1>2 DEF LeaveRefusalExplained
<1>3. CASE leaveVerdict(o) = "ORG_ACCESS_DENIED"
  <2>1. ~IsActive(o.actor)
    BY <1>3 DEF leaveVerdict
  <2> QED
    BY <1>1, <1>3, <2>1 DEF LeaveRefusalExplained
<1>4. CASE leaveVerdict(o) = "LAST_OWNER"
  <2>1. ActiveOwners(membership) = {o.actor}
    BY <1>4, LastOwnerIsAlone DEF leaveVerdict, RegisterInv
  <2>2. can(capabilitiesOf(o.actor), "manage_members")
    BY <2>1 DEF ActiveOwners, OwnerRows, can, hasCapability, isOwnerRole, capabilitiesOf
  <2> QED
    BY <1>1, <1>4, <2>1, <2>2 DEF LeaveRefusalExplained, offerMembersLink
<1>5. leaveVerdict(o) \in {"ok", "ORG_ACCESS_DENIED", "LAST_OWNER"}
  BY DEF leaveVerdict
<1> QED
  BY <1>2, <1>3, <1>4, <1>5

\* Inviting: a conflict that has words of its own is what it says.
LEMMA InviteRefusalsExplained ==
    ASSUME NEW o, o.role \in OrgRoles
    PROVE  InviteRefusalExplained(o)
<1> DEFINE verdict == createVerdict(o, clock)
<1>1. /\ verdict \in {"ok", "ORG_ACCESS_DENIED", "FORBIDDEN", "ALREADY_MEMBER",
                      "INVITATION_PENDING", "INVITATION_LIMIT_REACHED"}
      /\ verdict = "ALREADY_MEMBER" => IsActive(o.email)
      /\ verdict = "INVITATION_PENDING" => PendingFor(o.email) # {} /\ ~IsActive(o.email)
      /\ verdict = "INVITATION_LIMIT_REACHED" => Cardinality(LivePending(clock)) >= PendingCap
  BY DEF createVerdict
<1>2. /\ \A code \in {"ok", "ORG_ACCESS_DENIED", "FORBIDDEN"} : inviteSays(code) = "generic"
      /\ inviteSays("ALREADY_MEMBER") = "alreadyMember"
      /\ inviteSays("INVITATION_PENDING") = "pending"
      /\ inviteSays("INVITATION_LIMIT_REACHED") = "limitReached"
  BY DEF inviteSays, fromStatus, ERROR_CODES, Busy
<1> HIDE DEF verdict
<1>3. LET says == inviteSays(verdict)
      IN  /\ says # "email"
          /\ says = "alreadyMember" => IsActive(o.email)
          /\ says = "pending" => PendingFor(o.email) # {} /\ ~IsActive(o.email)
          /\ says = "limitReached" => Cardinality(LivePending(clock)) >= PendingCap
  BY <1>1, <1>2
<1> QED
  BY <1>3 DEF verdict, InviteRefusalExplained

\* What the invitation screen proposes for each refusal.
LEMMA NextSteps ==
    /\ \A code \in {"INVITATION_INVALID", "INVITATION_EXPIRED", "INVITATION_CANCELLED",
                     "INVITATION_SUPERSEDED", "INVITATION_ROLE_UNAVAILABLE"} :
          toInviteError(code) = "home"
    /\ toInviteError("INVITATION_ALREADY_ACCEPTED") = "login"
    /\ toInviteError("ALREADY_MEMBER") = "enter-org"
    /\ toInviteError("INVITATION_EMAIL_MISMATCH") = "switch-account"
    /\ toInviteError(Busy) = "retry"
<1>1. \A code \in DOMAIN BY_CODE :
          toInviteError(code) = BY_CODE[code]
  BY DEF toInviteError, BY_CODE, fromStatus, ERROR_CODES, Busy
<1>2. toInviteError(Busy) = "retry"
  BY DEF toInviteError, BY_CODE, Busy
<1> QED
  BY <1>1, <1>2 DEF BY_CODE

\* Accepting: every refusal has a next step that is open, and the button agrees
\* with the preview.
LEMMA AcceptRefusalsExplained ==
    ASSUME RegisterInv, NEW o, o.inv \in DOMAIN invitations
    PROVE  AcceptRefusalExplained(o)
<1> DEFINE verdict == acceptVerdict(o, clock)
           seen == preview(o.inv, o.gen, clock)
           stored == invitations[o.inv]
           status == resolveInvitationStatus(stored, clock)
           decision == canAcceptInvitation(stored, membership, o.actor,
                                           stored.roleId \in OrgRoles, clock)
<1>1. stored.status \in {"pending", "accepted", "cancelled"}
  BY DEF RegisterInv, RegisterTypeOK, InvitationRow
<1>2. status \in {"pending", "expired", "accepted", "cancelled"}
  BY <1>1 DEF resolveInvitationStatus
<1>3. /\ status = "accepted" => decision = "already_accepted"
      /\ status \in {"expired", "cancelled"} => decision = status
      /\ status = "pending" =>
            decision \in {"role_unavailable", "ok", "already_member", "superseded"}
      /\ decision = "already_member" => IsActive(o.actor)
  BY <1>2 DEF canAcceptInvitation, IsActive
<1> HIDE DEF decision, status
<1>4. seen = IF ~Resolves(o.inv, o.gen) THEN "INVITATION_INVALID"
             ELSE CASE status = "pending"   -> "ok"
                    [] status = "expired"   -> "INVITATION_EXPIRED"
                    [] status = "cancelled" -> "INVITATION_CANCELLED"
                    [] status = "accepted"  -> "INVITATION_ALREADY_ACCEPTED"
  BY DEF preview, status
<1>5. verdict = IF ~Resolves(o.inv, o.gen) THEN "INVITATION_INVALID"
                ELSE IF decision \in {"expired", "cancelled", "already_accepted"} THEN decision
                ELSE IF o.actor # stored.email THEN "INVITATION_EMAIL_MISMATCH" ELSE decision
  BY DEF acceptVerdict, decision
<1> HIDE DEF seen, verdict, stored
<1>6. /\ seen # "ok" => errorCode(verdict) = seen
      /\ errorCode(verdict) = "ALREADY_MEMBER" => IsActive(o.actor)
      /\ errorCode(verdict) = "INVITATION_EMAIL_MISMATCH" =>
            o.actor # stored.email /\ seen = "ok"
      /\ verdict # "ok" =>
            errorCode(verdict) \in
                {"INVITATION_INVALID", "INVITATION_EXPIRED", "INVITATION_CANCELLED",
                 "INVITATION_SUPERSEDED", "INVITATION_ROLE_UNAVAILABLE",
                 "INVITATION_ALREADY_ACCEPTED", "ALREADY_MEMBER", "INVITATION_EMAIL_MISMATCH"}
  BY <1>2, <1>3, <1>4, <1>5 DEF errorCode
<1>7. /\ verdict # "ok" => toInviteError(errorCode(verdict)) # "retry"
      /\ verdict # "ok" /\ toInviteError(errorCode(verdict)) = "enter-org" => IsActive(o.actor)
      /\ verdict # "ok" /\ toInviteError(errorCode(verdict)) = "switch-account" =>
            o.actor # stored.email /\ seen = "ok"
  BY <1>6, NextSteps
<1> QED
  BY <1>6, <1>7 DEF AcceptRefusalExplained, verdict, seen, stored

\* Every screen agrees with the server about the same tables, whatever requests
\* are in flight.
LEMMA ScreensAgree ==
    ASSUME RegisterInv
    PROVE  OffersMatchVerdicts /\ RefusalsExplained
<1>1. OffersMatchVerdicts
  BY MemberOffersStand, InviteOffersStand, InvitationOffersStand DEF OffersMatchVerdicts
<1>2. BusyExplained
  <2>1. /\ changeRoleSays(Busy) = "generic" /\ removeSays(Busy) = "generic"
        /\ inviteSays(Busy) = "generic" /\ toLeaveOrgOutcome(Busy) = "retryable"
    BY DEF changeRoleSays, removeSays, inviteSays, toLeaveOrgOutcome, fromStatus,
           ERROR_CODES, Busy
  <2> QED
    BY <2>1, NextSteps DEF BusyExplained
<1>3. \A o \in [kind : {"updateRole"}, actor : Users, target : Users, role : OrgRoles]
              \union [kind : {"revoke"}, actor : Users, target : Users] :
         MemberRefusalExplained(o)
  BY MemberRefusalsExplained
<1>4. \A o \in [kind : {"create"}, actor : Users, email : Users, role : OrgRoles] :
          InviteRefusalExplained(o)
  BY InviteRefusalsExplained
<1>5. \A o \in [kind : {"accept"}, actor : Users, inv : DOMAIN invitations, gen : Gens] :
          AcceptRefusalExplained(o)
  BY AcceptRefusalsExplained
<1>6. RefusalsExplained
  BY <1>2, <1>3, <1>4, <1>5, LeaveRefusalsExplained DEF RefusalsExplained
<1> QED
  BY <1>1, <1>6

\* apps/web/src/features/org, invite: the actions, dialogs and next steps the screens
\* offer are those the services accept, and what they say of a refusal is its cause.
THEOREM ScreensHonest == Spec => []ScreenHonest
<1>1. IInv => ScreenHonest
  BY ScreensAgree DEF IInv, ScreenHonest
<1> QED
  BY <1>1, Invariant, PTL
=============================================================================
