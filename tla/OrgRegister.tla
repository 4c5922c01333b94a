---------------------------- MODULE OrgRegister ----------------------------
(***************************************************************************)
(* What the membership and invitation tables of one organization promise:  *)
(* every operation of MembersService and InvitationsService happens at one *)
(* instant, deciding on the rows it then writes.  OrgMembership shows that *)
(* the locked transactions of the code implement exactly this.             *)
(*                                                                         *)
(* Each handler is a verdict (the checks in the code's order, ending in the *)
(* error code or "ok") and a write (what it does to the rows).             *)
(***************************************************************************)
EXTENDS OrgPolicy, FiniteSets

CONSTANTS
    Kinds,          \* the operations clients call
    Users,          \* accounts, one per normalized email address
    Founder,        \* the user who created the organization
    OwnerRole,      \* the system role with full_access
    InvIds,         \* invitation ids (a bound on the invitations created)
    MaxGen,         \* bound on the links issued for one invitation
    PendingCap,     \* the cap on live pending invitations
    MaxTime         \* bound on the clock

AllKinds ==
    {"updateRole", "revoke", "leave", "create", "reissueLink", "cancel", "accept"}

ASSUME RegisterAssumption ==
    /\ Kinds \subseteq AllKinds
    /\ Founder \in Users
    /\ OwnerRole \in OrgRoles /\ isOwnerRole(roleCapabilities[OwnerRole])
    /\ MaxGen \in Nat \ {0} /\ PendingCap \in Nat /\ MaxTime \in Nat

VARIABLES
    membership,     \* table Membership: user -> row
    invitations,    \* table Invitation: id -> row
    clock,          \* wall clock of the server
    retired         \* history: links held by a member when they were removed

tables == <<membership, invitations, retired>>
registerVars == <<membership, invitations, clock, retired>>

\* A link is the bearer token of an invitation; a rotate replaces the stored
\* hash, which the model renders as the next generation number.
Gens == 1 .. MaxGen

MembershipRow ==
    [status : {"active", "revoked"}, roleId : OrgRoles, revokedAt : Time \union {NoTime}]

InvitationRow ==
    [status : {"pending", "accepted", "cancelled"}, email : Users, roleId : OrgRoles,
     gen : Gens, tokenIssuedAt : Time, expiresAt : Time]

\* The requests of the seven locked operations, by controller.
\* MembersController: the target is in the path, the role in the body.
MemberOps ==
    [kind : Kinds \intersect {"updateRole"}, actor : Users, target : Users, role : RoleIds]
    \union [kind : Kinds \intersect {"revoke"}, actor : Users, target : Users]

\* MembershipController: whoever leaves is the caller.
LeaveOps == [kind : Kinds \intersect {"leave"}, actor : Users]

\* InvitationsController
InvitationOps ==
    [kind : Kinds \intersect {"create"}, actor : Users, email : Users, role : RoleIds]
    \union [kind : Kinds \intersect {"reissueLink", "cancel"}, actor : Users, inv : InvIds]

\* InvitationRedemptionController: the caller names a link, not an organization.
AcceptOps == [kind : Kinds \intersect {"accept"}, actor : Users, inv : InvIds, gen : Gens]

Ops == MemberOps \union LeaveOps \union InvitationOps \union AcceptOps

-----------------------------------------------------------------------------
\* Reads.

\* readActiveMembership: absent and revoked rows are the same answer.
IsActive(u) == u \in DOMAIN membership /\ membership[u].status = "active"

capabilitiesOf(u) == roleCapabilities[membership[u].roleId]

\* The stored status: expiry does not matter here.
PendingFor(email) ==
    {i \in DOMAIN invitations :
        invitations[i].email = email /\ invitations[i].status = "pending"}

LivePending(now) ==
    {i \in DOMAIN invitations :
        invitations[i].status = "pending" /\ invitations[i].expiresAt > now}

\* The lookup by token hash: only the newest link of an invitation resolves.
Resolves(i, g) == i \in DOMAIN invitations /\ invitations[i].gen = g

\* Every link ever issued to an email.
LinksOf(email) ==
    {link \in (DOMAIN invitations) \X Gens :
        invitations[link[1]].email = email /\ link[2] <= invitations[link[1]].gen}

-----------------------------------------------------------------------------
\* Verdicts.

\* Mutant: the role id is not looked up in the organization.
updateRoleVerdictAnyRole(o) ==
    IF ~IsActive(o.target) THEN "NOT_FOUND"
    ELSE IF ~IsActive(o.actor) THEN "ORG_ACCESS_DENIED"
    ELSE IF ~canAssignRole(capabilitiesOf(o.actor), isOwnerRole(capabilitiesOf(o.target)),
                           isOwnerRole(roleCapabilities[o.role])) THEN "FORBIDDEN"
    ELSE IF activeOwnersAfterRoleChange(membership, o.target, roleCapabilities[o.role]) = {}
         THEN "LAST_OWNER"
    ELSE "ok"

\* PATCH /orgs/{orgId}/members/{userId}
updateRoleVerdict(o) ==
    IF ~IsActive(o.target) THEN "NOT_FOUND"
    ELSE IF ~IsActive(o.actor) THEN "ORG_ACCESS_DENIED"
    ELSE IF o.role \notin OrgRoles THEN "ROLE_INVALID"
    ELSE IF ~canAssignRole(capabilitiesOf(o.actor), isOwnerRole(capabilitiesOf(o.target)),
                           isOwnerRole(roleCapabilities[o.role])) THEN "FORBIDDEN"
    ELSE IF activeOwnersAfterRoleChange(membership, o.target, roleCapabilities[o.role]) = {}
         THEN "LAST_OWNER"
    ELSE "ok"

\* DELETE /orgs/{orgId}/members/{userId}
revokeVerdict(o) ==
    IF ~IsActive(o.target) THEN "NOT_FOUND"
    ELSE IF ~IsActive(o.actor) THEN "ORG_ACCESS_DENIED"
    ELSE IF ~canAssignRole(capabilitiesOf(o.actor), isOwnerRole(capabilitiesOf(o.target)), FALSE)
         THEN "FORBIDDEN"
    ELSE IF activeOwnersAfterRevoke(membership, o.target) = {} THEN "LAST_OWNER"
    ELSE "ok"

\* Mutant: leaving does not ask whether an owner remains.
leaveVerdictUnguarded(o) == IF IsActive(o.actor) THEN "ok" ELSE "ORG_ACCESS_DENIED"

\* DELETE /orgs/{orgId}/membership
leaveVerdict(o) ==
    IF ~IsActive(o.actor) THEN "ORG_ACCESS_DENIED"
    ELSE IF activeOwnersAfterRevoke(membership, o.actor) = {} THEN "LAST_OWNER"
    ELSE "ok"

\* Mutant: an expired invitation no longer blocks a second one.
createVerdictLiveOnly(o, now) ==
    IF o.role \notin OrgRoles THEN "ROLE_INVALID"
    ELSE IF ~IsActive(o.actor) THEN "ORG_ACCESS_DENIED"
    ELSE IF IsActive(o.email) THEN "ALREADY_MEMBER"
    ELSE IF PendingFor(o.email) \intersect LivePending(now) # {} THEN "INVITATION_PENDING"
    ELSE "ok"

\* Mutant: the role of the actor is read, whether it is still in force is not.
createVerdictStaleActor(o, now) ==
    IF o.role \notin OrgRoles THEN "ROLE_INVALID"
    ELSE IF ~canAssignRole(capabilitiesOf(o.actor), FALSE, isOwnerRole(roleCapabilities[o.role]))
         THEN "FORBIDDEN"
    ELSE IF IsActive(o.email) THEN "ALREADY_MEMBER"
    ELSE IF PendingFor(o.email) # {} THEN "INVITATION_PENDING"
    ELSE IF Cardinality(LivePending(now)) >= PendingCap THEN "INVITATION_LIMIT_REACHED"
    ELSE "ok"

\* POST /orgs/{orgId}/invitations.
\* The pending check looks at the stored status, so an expired invitation still
\* blocks; the cap counts only what is live at the instant now.
createVerdict(o, now) ==
    IF o.role \notin OrgRoles THEN "ROLE_INVALID"
    ELSE IF ~IsActive(o.actor) THEN "ORG_ACCESS_DENIED"
    ELSE IF ~canAssignRole(capabilitiesOf(o.actor), FALSE, isOwnerRole(roleCapabilities[o.role]))
         THEN "FORBIDDEN"
    ELSE IF IsActive(o.email) THEN "ALREADY_MEMBER"
    ELSE IF PendingFor(o.email) # {} THEN "INVITATION_PENDING"
    ELSE IF Cardinality(LivePending(now)) >= PendingCap THEN "INVITATION_LIMIT_REACHED"
    ELSE "ok"

\* POST /orgs/{orgId}/invitations/{invitationId}/link
reissueLinkVerdict(o, now) ==
    IF o.inv \notin DOMAIN invitations THEN "NOT_FOUND"
    ELSE IF invitations[o.inv].status # "pending" THEN "CONFLICT"
    ELSE IF resolveInvitationStatus(invitations[o.inv], now) = "expired"
         THEN "INVITATION_EXPIRED"
    ELSE IF ~IsActive(o.actor) THEN "ORG_ACCESS_DENIED"
    ELSE IF ~canAssignRole(capabilitiesOf(o.actor), FALSE,
                           isOwnerRole(roleCapabilities[invitations[o.inv].roleId]))
         THEN "FORBIDDEN"
    ELSE "ok"

\* Mutant: whatever its status, an invitation can be cancelled.
cancelVerdictAnyStatus(o) == IF o.inv \notin DOMAIN invitations THEN "NOT_FOUND" ELSE "ok"

\* DELETE /orgs/{orgId}/invitations/{invitationId}.
\* The one handler that does not read its actor again.
cancelVerdict(o) ==
    IF o.inv \notin DOMAIN invitations THEN "NOT_FOUND"
    ELSE IF invitations[o.inv].status # "pending" THEN "CONFLICT"
    ELSE "ok"

\* POST /invitations/accept.
\* The email binding sits between the stored status and the other answers.
acceptVerdict(o, now) ==
    IF ~Resolves(o.inv, o.gen) THEN "INVITATION_INVALID"
    ELSE LET invitation == invitations[o.inv]
             decision == canAcceptInvitation(invitation, membership, o.actor,
                                             invitation.roleId \in OrgRoles, now)
         IN  IF decision \in {"expired", "cancelled", "already_accepted"} THEN decision
             ELSE IF o.actor # invitation.email THEN "INVITATION_EMAIL_MISMATCH"
             ELSE decision

Verdict(o, now) ==
    CASE o.kind = "updateRole"  -> updateRoleVerdict(o)
      [] o.kind = "revoke"      -> revokeVerdict(o)
      [] o.kind = "leave"       -> leaveVerdict(o)
      [] o.kind = "create"      -> createVerdict(o, now)
      [] o.kind = "reissueLink" -> reissueLinkVerdict(o, now)
      [] o.kind = "cancel"      -> cancelVerdict(o)
      [] o.kind = "accept"      -> acceptVerdict(o, now)

\* Verdicts whose transaction commits a write; already_member is the refusal
\* that closes the invitation.
Writing == {"ok", "already_member"}

-----------------------------------------------------------------------------
\* Writes.

Put(table, key, row) ==
    [k \in DOMAIN table \union {key} |-> IF k = key THEN row ELSE table[k]]

writeRole(o) ==
    /\ membership' = [membership EXCEPT ![o.target].roleId = o.role]
    /\ UNCHANGED <<invitations, retired>>

\* Soft removal and the cancellation of the pending invitations of that email,
\* in one transaction.
writeRevocation(u, revokedAt) ==
    /\ membership' = [membership EXCEPT ![u].status = "revoked", ![u].revokedAt = revokedAt]
    /\ invitations' = [i \in DOMAIN invitations |->
                         IF i \in PendingFor(u)
                         THEN [invitations[i] EXCEPT !.status = "cancelled"]
                         ELSE invitations[i]]
    /\ retired' = retired \union LinksOf(u)

expiryFrom(now, roleId) == now + invitationTtlHours(roleCapabilities[roleId])

writeInvitation(o, now) ==
    /\ \E i \in InvIds \ DOMAIN invitations :
          invitations' = Put(invitations, i,
              [status |-> "pending", email |-> o.email, roleId |-> o.role, gen |-> 1,
               tokenIssuedAt |-> now, expiresAt |-> expiryFrom(now, o.role)])
    /\ UNCHANGED <<membership, retired>>

writeNewLink(o, now) ==
    /\ invitations[o.inv].gen < MaxGen
    /\ invitations' = [invitations EXCEPT ![o.inv].gen = @ + 1,
                                          ![o.inv].tokenIssuedAt = now,
                                          ![o.inv].expiresAt =
                                              expiryFrom(now, invitations[o.inv].roleId)]
    /\ UNCHANGED <<membership, retired>>

writeInvitationStatus(i, status) ==
    invitations' = [invitations EXCEPT ![i].status = status]

writeCancel(o) ==
    writeInvitationStatus(o.inv, "cancelled") /\ UNCHANGED <<membership, retired>>

\* Create the membership or reactivate the revoked row: the same row either way.
\* For already_member the row is left alone and the invitation closed.
writeAcceptance(o, verdict) ==
    /\ membership' =
         IF verdict = "already_member" THEN membership
         ELSE Put(membership, o.actor,
                  [status |-> "active", roleId |-> invitations[o.inv].roleId,
                   revokedAt |-> NoTime])
    /\ writeInvitationStatus(o.inv,
         IF verdict = "already_member" THEN "cancelled" ELSE "accepted")
    /\ UNCHANGED retired

Write(o, now, at, verdict) ==
    \/ o.kind = "updateRole" /\ writeRole(o)
    \/ o.kind = "revoke" /\ writeRevocation(o.target, at)
    \/ o.kind = "leave" /\ writeRevocation(o.actor, at)
    \/ o.kind = "create" /\ writeInvitation(o, now)
    \/ o.kind = "reissueLink" /\ writeNewLink(o, now)
    \/ o.kind = "cancel" /\ writeCancel(o)
    \/ o.kind = "accept" /\ writeAcceptance(o, verdict)

-----------------------------------------------------------------------------
\* A provisioned organization: its founder is the one active owner.
RegisterInit ==
    /\ membership = [u \in {Founder} |->
                        [status |-> "active", roleId |-> OwnerRole, revokedAt |-> NoTime]]
    /\ invitations = [i \in {} |-> {}]
    /\ clock = 0
    /\ retired = {}

\* A handler decides with a reading of the clock, now, taken when the request
\* came in, and stamps what it writes with a later one, at.
Serve(o, now, at) ==
    /\ Verdict(o, now) \in Writing
    /\ Write(o, now, at, Verdict(o, now))
    /\ UNCHANGED clock

Tick == clock < MaxTime /\ clock' = clock + 1 /\ UNCHANGED tables

RegisterNext ==
    \/ \E o \in Ops, now \in 0 .. clock, at \in 0 .. clock : Serve(o, now, at)
    \/ Tick

RegisterSpec == RegisterInit /\ [][RegisterNext]_registerVars
-----------------------------------------------------------------------------
\* Type correctness of the tables.
RegisterTypeOK ==
    /\ DOMAIN membership \subseteq Users
    /\ membership \in [DOMAIN membership -> MembershipRow]
    /\ DOMAIN invitations \subseteq InvIds
    /\ invitations \in [DOMAIN invitations -> InvitationRow]
    /\ clock \in Time
    /\ retired \subseteq InvIds \X Gens

\* The organization never loses its last active owner, whatever role changes,
\* removals, departures and acceptances run against each other (LAST_OWNER).
OwnerRemains == ActiveOwners(membership) # {}

\* At most one stored pending invitation per email: the partial unique index
\* behind createInvitation never has to refuse a row.
OnePendingPerEmail == \A u \in Users : \A i, j \in PendingFor(u) : i = j

\* Nobody who is an active member has a pending invitation, so accepting can
\* never reach a member's role: the already_member branch of accept is a second
\* line of defence.
NoPendingForActiveMember == \A u \in Users : IsActive(u) => PendingFor(u) = {}

\* A link that somebody held when they were removed never opens again: its
\* invitation is closed for good.
RetiredLinksDead ==
    \A link \in retired :
        link[1] \in DOMAIN invitations /\ invitations[link[1]].status # "pending"

\* Entering the organization, for the first time or again, takes a pending
\* invitation of one's own email, which that step consumes, whose role is the
\* one granted, and whose link was issued after one's last removal.
Entry ==
    \A u \in Users : ~IsActive(u) /\ IsActive(u)' =>
        \E i \in DOMAIN invitations :
            /\ invitations[i].email = u /\ invitations[i].status = "pending"
            /\ invitations'[i].status = "accepted"
            /\ membership'[u].roleId = invitations[i].roleId
            /\ <<i, invitations[i].gen>> \notin retired
            /\ u \in DOMAIN membership =>
                 membership[u].revokedAt < invitations[i].tokenIssuedAt

\* Every step of the tables obeys Entry.
EntryByLiveLink == [][Entry]_registerVars

\* A removal is written once and stays as written until the member enters
\* again: no second revoke moves revokedAt and no late role change touches it.
Removed ==
    \A u \in DOMAIN membership : membership[u].status = "revoked" =>
        IsActive(u)' \/ membership'[u] = membership[u]

\* Every step of the tables obeys Removed.
RemovalSticks == [][Removed]_registerVars

\* An accepted or cancelled invitation never changes again: no cancel of what
\* was accepted, no rotation of what was cancelled, no second acceptance.
Closed ==
    \A i \in DOMAIN invitations : invitations[i].status # "pending" =>
        invitations'[i] = invitations[i]

\* Every step of the tables obeys Closed.
ClosedStaysClosed == [][Closed]_registerVars

\* A removal and a closed invitation stand as written: nothing revises the
\* history of who was removed when and what became of a link.
HistoryStands == RemovalSticks /\ ClosedStaysClosed

\* What the three rules above say together of the tables at rest.
InvitationsConsistent ==
    /\ OnePendingPerEmail
    /\ NoPendingForActiveMember
    /\ RetiredLinksDead
=============================================================================
