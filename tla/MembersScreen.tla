--------------------------- MODULE MembersScreen ---------------------------
(***************************************************************************)
(* The screens of apps/web over the register of one organization: what the *)
(* members screen, its dialogs and the invitation screen offer their user, *)
(* and what they say when the server refuses.  The web client decides both *)
(* by rules of its own; here they meet the verdicts of the server.         *)
(***************************************************************************)
EXTENDS OrgMembership

\* The codes of a refused acceptance (ACCEPT_REFUSAL_ERRORS); the other verdicts
\* are codes already.
errorCode(verdict) ==
    CASE verdict = "expired"          -> "INVITATION_EXPIRED"
      [] verdict = "cancelled"        -> "INVITATION_CANCELLED"
      [] verdict = "already_accepted" -> "INVITATION_ALREADY_ACCEPTED"
      [] verdict = "role_unavailable" -> "INVITATION_ROLE_UNAVAILABLE"
      [] verdict = "already_member"   -> "ALREADY_MEMBER"
      [] verdict = "superseded"       -> "INVITATION_SUPERSEDED"
      [] OTHER -> verdict

\* The HTTP status of a code.
ERROR_CODES(code) ==
    CASE code = "ROLE_INVALID" -> 422
      [] code \in {"NOT_FOUND", "INVITATION_INVALID"} -> 404
      [] code \in {"FORBIDDEN", "ORG_ACCESS_DENIED", "INVITATION_EMAIL_MISMATCH"} -> 403
      [] OTHER -> 409

\* The conflict of a request that got no lock; its details give the reason.
Busy == "CONFLICT"

\* The kind of failure the web client makes of an answer.
fromStatus(code) ==
    CASE ERROR_CODES(code) = 422 -> "validation"
      [] ERROR_CODES(code) = 404 -> "not-found"
      [] ERROR_CODES(code) = 403 ->
           IF code = "ORG_ACCESS_DENIED" THEN "org-access-denied" ELSE "forbidden"
      [] ERROR_CODES(code) = 409 -> IF code = Busy THEN "busy" ELSE "conflict"

\* What the screen shows before the button that accepts: preview looks at the
\* link and its status, at nobody's account.
preview(i, g, now) ==
    IF ~Resolves(i, g) THEN "INVITATION_INVALID"
    ELSE LET status == resolveInvitationStatus(invitations[i], now)
         IN  CASE status = "pending"   -> "ok"
               [] status = "expired"   -> "INVITATION_EXPIRED"
               [] status = "cancelled" -> "INVITATION_CANCELLED"
               [] status = "accepted"  -> "INVITATION_ALREADY_ACCEPTED"

-----------------------------------------------------------------------------
\* What is offered.

\* The web client's own question about capabilities.
can(capabilities, capability) == hasCapability(capabilities, capability)

\* The row of a member as the list shows it to somebody.
toMemberRow(me, u) ==
    [isMe |-> u = me, isOwner |-> isOwnerRole(capabilitiesOf(u)), status |-> membership[u].status]

\* Mutant: an owner's row is like any other.
memberActionsForAll(myCapabilities, row) ==
    IF row.status # "active" THEN {}
    ELSE IF row.isMe THEN {"changeRole", "leaveOrg"}
    ELSE {"changeRole", "removeFromOrg"}

memberActionsFor(myCapabilities, row) ==
    IF row.status # "active" THEN {}
    ELSE IF row.isMe THEN {"changeRole", "leaveOrg"}
    ELSE IF row.isOwner /\ ~isOwnerRole(myCapabilities) THEN {"ownerOnlyNotice"}
    ELSE {"changeRole", "removeFromOrg"}

\* The buttons of a member's row.
rowActions(me, u) == memberActionsFor(capabilitiesOf(me), toMemberRow(me, u))

\* RolesService.list tells of a role whether it grants ownership, and keeps its
\* capabilities to itself.
RoleRow(role) == [id |-> role, grantsOwnership |-> isOwnerRole(roleCapabilities[role])]

\* The roles the list of roles marks as granting ownership ...
ownerRoleIds == {role \in OrgRoles : RoleRow(role).grantsOwnership}

\* ... which are closed, in both dialogs, to whoever is no owner.
assignableRoles(myCapabilities) ==
    IF isOwnerRole(myCapabilities) THEN OrgRoles ELSE OrgRoles \ ownerRoleIds

\* The roles ChangeRoleDialog lets one pick and submit: open, and not the present one.
changeableTo(me, u) == assignableRoles(capabilitiesOf(me)) \ {membership[u].roleId}

\* The roles InviteDialog lets one pick.
invitableWith(me) == assignableRoles(capabilitiesOf(me))

\* The row of an invitation, with its status at the moment the list was read.
toInvitationRow(i, readAt) ==
    [status |-> resolveInvitationStatus(invitations[i], readAt),
     roleId |-> invitations[i].roleId, expiresAt |-> invitations[i].expiresAt]

\* The badge of a row, worked out anew whenever it is drawn.
invitationStatusLabel(row, now) ==
    IF row.status = "pending" /\ row.expiresAt <= now THEN "expired" ELSE row.status

isInvitationLinkLive(row, now) == row.status = "pending" /\ row.expiresAt > now

\* The buttons of a row.
invitationActions(row) ==
    CASE row.status = "pending" -> {"reissue", "cancel"}
      [] row.status \in {"expired", "cancelled"} -> {"inviteAgain"}
      [] OTHER -> {}

\* The role InviteDialog starts with after "invite again": none it could not send.
prefilledRoles(me, row) ==
    IF row.roleId \in ownerRoleIds /\ ~isOwnerRole(capabilitiesOf(me)) THEN {} ELSE {row.roleId}

-----------------------------------------------------------------------------
\* What is said.

\* ChangeRoleDialog
changeRoleSays(code) ==
    CASE fromStatus(code) = "not-found" -> "gone"
      [] code = "LAST_OWNER" -> "lastOwner"
      [] fromStatus(code) \in {"forbidden", "org-access-denied"} -> "forbidden"
      [] fromStatus(code) = "validation" -> "roleInvalid"
      [] OTHER -> "generic"

\* RemoveMemberDialog
removeSays(code) ==
    CASE fromStatus(code) = "not-found" -> "gone"
      [] code = "LAST_OWNER" -> "lastOwner"
      [] fromStatus(code) \in {"forbidden", "org-access-denied"} -> "forbidden"
      [] OTHER -> "generic"

\* LeaveOrgDialog
toLeaveOrgOutcome(code) ==
    CASE fromStatus(code) \in {"org-access-denied", "forbidden"} -> "already-left"
      [] code = "LAST_OWNER" -> "blocked"
      [] OTHER -> "retryable"

\* Whoever may not leave is shown the way to the members screen, if it would open.
offerMembersLink(me, code) ==
    toLeaveOrgOutcome(code) = "blocked" /\ can(capabilitiesOf(me), "manage_members")

\* InviteDialog: of the refusals only a conflict has words of its own, and a
\* validation error is put under the field of the address.
inviteSays(code) ==
    CASE fromStatus(code) = "validation" -> "email"
      [] code = "ALREADY_MEMBER" -> "alreadyMember"
      [] code = "INVITATION_PENDING" -> "pending"
      [] code = "INVITATION_LIMIT_REACHED" -> "limitReached"
      [] OTHER -> "generic"

\* What the invitation screen offers next, by code.
BY_CODE ==
    [code \in {"INVITATION_INVALID", "INVITATION_EXPIRED", "INVITATION_CANCELLED",
               "INVITATION_SUPERSEDED", "INVITATION_ROLE_UNAVAILABLE",
               "INVITATION_ALREADY_ACCEPTED", "ALREADY_MEMBER", "INVITATION_EMAIL_MISMATCH"} |->
        CASE code = "INVITATION_ALREADY_ACCEPTED" -> "login"
          [] code = "ALREADY_MEMBER"              -> "enter-org"
          [] code = "INVITATION_EMAIL_MISMATCH"   -> "switch-account"
          [] OTHER                                -> "home"]

\* Mutant: a 403 is not looked up.
toInviteErrorNoForbidden(code) ==
    IF fromStatus(code) \in {"conflict", "not-found"} /\ code \in DOMAIN BY_CODE
    THEN BY_CODE[code] ELSE "retry"

toInviteError(code) ==
    IF fromStatus(code) \in {"conflict", "not-found", "forbidden"} /\ code \in DOMAIN BY_CODE
    THEN BY_CODE[code] ELSE "retry"

-----------------------------------------------------------------------------
\* A screen that is up to date offers what the server will do and withholds what
\* it would refuse.

\* A role change or removal it offers goes through, the last owner's own demotion
\* and departure excepted; a role it closes and a row it locks are refused as FORBIDDEN.
MemberOffers(me, u) ==
    LET offered == rowActions(me, u)
        Change(role) == updateRoleVerdict(
            [kind |-> "updateRole", actor |-> me, target |-> u, role |-> role])
        removal == revokeVerdict([kind |-> "revoke", actor |-> me, target |-> u])
        allowed == {"ok"} \union (IF u = me THEN {"LAST_OWNER"} ELSE {})
    IN  /\ "changeRole" \in offered =>
             \A role \in OrgRoles \ {membership[u].roleId} :
                IF role \in changeableTo(me, u)
                THEN Change(role) \in allowed ELSE Change(role) = "FORBIDDEN"
        /\ "removeFromOrg" \in offered => removal = "ok"
        /\ "leaveOrg" \in offered => leaveVerdict([kind |-> "leave", actor |-> u]) \in allowed
        /\ "ownerOnlyNotice" \in offered =>
             removal = "FORBIDDEN" /\ \A role \in OrgRoles : Change(role) = "FORBIDDEN"

\* Inviting with a role it opens, and only with such a one, is never refused for the role.
InviteOffers(me, email, role) ==
    LET verdict == createVerdict(
            [kind |-> "create", actor |-> me, email |-> email, role |-> role], clock)
    IN  verdict = "FORBIDDEN" <=> role \notin invitableWith(me)

\* Cancelling goes through, "invite again" proposes a role that can be sent, and a
\* row drawn from an older list still tells whether its link works.
InvitationOffers(me, i, readAt) ==
    LET row == toInvitationRow(i, readAt)
        opens == preview(i, invitations[i].gen, clock) = "ok"
    IN  /\ "cancel" \in invitationActions(row) =>
             cancelVerdict([kind |-> "cancel", actor |-> me, inv |-> i]) = "ok"
        /\ "inviteAgain" \in invitationActions(row) =>
             prefilledRoles(me, row) \subseteq invitableWith(me)
        /\ isInvitationLinkLive(row, clock) <=> opens
        /\ invitationStatusLabel(row, clock) = "pending" <=> opens

OffersMatchVerdicts ==
    \A me \in Users : IsActive(me) /\ can(capabilitiesOf(me), "manage_members") =>
        /\ \A u \in DOMAIN membership : MemberOffers(me, u)
        /\ \A email \in Users, role \in OrgRoles : InviteOffers(me, email, role)
        /\ \A i \in DOMAIN invitations, readAt \in 0 .. clock : InvitationOffers(me, i, readAt)

\* Whatever changed since a screen was read, what it says of a refusal is so.

\* The refusals of the pipeline in front of the handlers, on a stale screen.
gateRefusals(o) ==
    (IF IsActive(o.actor) THEN {} ELSE {"ORG_ACCESS_DENIED"})
    \union (IF IsActive(o.actor) /\ ~hasCapability(capabilitiesOf(o.actor), "manage_members")
            THEN {"FORBIDDEN"} ELSE {})

\* "gone" is said of somebody who is no member any more, "last owner" of the only
\* one, and "forbidden" to nobody who is an owner.
MemberRefusalExplained(o) ==
    LET Says(code) == IF o.kind = "revoke" THEN removeSays(code) ELSE changeRoleSays(code)
    IN  \A code \in (gateRefusals(o) \union {Verdict(o, clock)}) \ {"ok"} :
           \/ Says(code) = "gone" /\ ~IsActive(o.target)
           \/ Says(code) = "lastOwner" /\ ActiveOwners(membership) = {o.target}
           \/ Says(code) = "forbidden" /\ o.actor \notin ActiveOwners(membership)

\* The lack of a lock, and nothing else, falls through to an offer to try again.
BusyExplained ==
    /\ {changeRoleSays(Busy), removeSays(Busy), inviteSays(Busy)} = {"generic"}
    /\ toLeaveOrgOutcome(Busy) = "retryable" /\ toInviteError(Busy) = "retry"

\* "already left" is said to whoever is out, and the last owner is shown a way on.
LeaveRefusalExplained(o) ==
    leaveVerdict(o) = "ok" \/
    CASE toLeaveOrgOutcome(leaveVerdict(o)) = "already-left" -> ~IsActive(o.actor)
      [] toLeaveOrgOutcome(leaveVerdict(o)) = "blocked" ->
           /\ ActiveOwners(membership) = {o.actor}
           /\ offerMembersLink(o.actor, leaveVerdict(o))
      [] OTHER -> FALSE

InviteRefusalExplained(o) ==
    LET says == inviteSays(createVerdict(o, clock))
    IN  /\ says # "email"
        /\ says = "alreadyMember" => IsActive(o.email)
        /\ says = "pending" => PendingFor(o.email) # {} /\ ~IsActive(o.email)
        /\ says = "limitReached" => Cardinality(LivePending(clock)) >= PendingCap

\* The invitation screen names a next step that is open: entering only for a
\* member, another account only for the wrong one; and the button says no other
\* than the preview above it.
AcceptRefusalExplained(o) ==
    LET verdict == acceptVerdict(o, clock)
        next == toInviteError(errorCode(verdict))
        seen == preview(o.inv, o.gen, clock)
    IN  /\ verdict # "ok" => next # "retry"
        /\ verdict # "ok" /\ next = "enter-org" => IsActive(o.actor)
        /\ verdict # "ok" /\ next = "switch-account" =>
              o.actor # invitations[o.inv].email /\ seen = "ok"
        /\ seen # "ok" => errorCode(verdict) = seen

RefusalsExplained ==
    /\ \A o \in [kind : {"updateRole"}, actor : Users, target : Users, role : OrgRoles]
               \union [kind : {"revoke"}, actor : Users, target : Users] :
          MemberRefusalExplained(o)
    /\ BusyExplained
    /\ \A o \in [kind : {"leave"}, actor : Users] : LeaveRefusalExplained(o)
    /\ \A o \in [kind : {"create"}, actor : Users, email : Users, role : OrgRoles] :
          InviteRefusalExplained(o)
    /\ \A o \in [kind : {"accept"}, actor : Users, inv : DOMAIN invitations, gen : Gens] :
          AcceptRefusalExplained(o)

\* The screens and the server agree: on a fresh screen about what can be done, on
\* a stale one about why it was refused.  Every content of the tables is also
\* reached with no request in flight (they can all roll back), so it is enough to
\* look at the screens then.
ScreenHonest ==
    (\A r \in Requests : req[r] = Idle) => OffersMatchVerdicts /\ RefusalsExplained
=============================================================================
