----------------------------- MODULE OrgPolicy -----------------------------
(***************************************************************************)
(* The pure rules of organization membership: packages/core-domain/src/orgs *)
(* and the capability check of packages/core-domain/src/auth.  No state:   *)
(* every operator is a function of the rows it is given, as in the source. *)
(***************************************************************************)
EXTENDS Integers

CONSTANTS
    RoleIds,            \* role ids a client may send
    OrgRoles,           \* the roles that exist in this organization
    roleCapabilities,   \* capability list of every role id
    TtlElevated,        \* INVITATION_TTL_HOURS_ELEVATED, in ticks
    TtlStandard         \* INVITATION_TTL_HOURS_STANDARD, in ticks

Capabilities == {"full_access", "manage_members", "manage_org_settings"}

ASSUME RolesAssumption ==
    /\ OrgRoles \subseteq RoleIds
    /\ roleCapabilities \in [RoleIds -> SUBSET Capabilities]

ASSUME TtlAssumption == TtlElevated \in Nat /\ TtlStandard \in Nat

\* Dates are ticks of one clock; NoTime is a null date column.
NoTime == -1
Time == Nat

-----------------------------------------------------------------------------
\* full_access is a wildcard.
hasCapability(capabilities, required) ==
    "full_access" \in capabilities \/ required \in capabilities

isOwnerRole(capabilities) == "full_access" \in capabilities

isElevatedRole(capabilities) == hasCapability(capabilities, "manage_members")

\* Mutant: only granting ownership is protected, not acting on an owner.
canAssignRoleGrantOnly(actorCapabilities, targetIsOwner, newRoleIsOwner) ==
    hasCapability(actorCapabilities,
        IF newRoleIsOwner THEN "full_access" ELSE "manage_members")

\* Touching ownership, in either direction, takes full_access; any other
\* membership change takes manage_members.
canAssignRole(actorCapabilities, targetIsOwner, newRoleIsOwner) ==
    hasCapability(actorCapabilities,
        IF targetIsOwner \/ newRoleIsOwner THEN "full_access" ELSE "manage_members")

invitationTtlHours(capabilities) ==
    IF isElevatedRole(capabilities) THEN TtlElevated ELSE TtlStandard

-----------------------------------------------------------------------------
\* The membership table m is a partial function from users to rows.
OwnerRows(m) == {u \in DOMAIN m : isOwnerRole(roleCapabilities[m[u].roleId])}

ActiveOwners(m) == {u \in OwnerRows(m) : m[u].status = "active"}

\* What activeOwnersAfter computes for kind = "revoke" ...
activeOwnersAfterRevoke(m, userId) == ActiveOwners(m) \ {userId}

\* ... and for kind = "role_change": a demoted owner leaves the set, a promoted
\* user enters it unless the table already lists them as an inactive owner.
activeOwnersAfterRoleChange(m, userId, newCapabilities) ==
    LET stays == {u \in ActiveOwners(m) : u = userId => isOwnerRole(newCapabilities)}
        joins == {u \in {userId} : u \notin OwnerRows(m) /\ isOwnerRole(newCapabilities)}
    IN  stays \union joins

-----------------------------------------------------------------------------
\* "expired" is derived from the clock, never stored; the boundary is closed.
resolveInvitationStatus(invitation, now) ==
    IF invitation.status = "pending" /\ invitation.expiresAt <= now
    THEN "expired" ELSE invitation.status

\* Mutant: when the link was issued does not matter.
canAcceptInvitationAnyAge(invitation, m, userId, roleExistsInOrg, now) ==
    LET status == resolveInvitationStatus(invitation, now)
    IN  IF status = "accepted" THEN "already_accepted"
        ELSE IF status # "pending" THEN status
        ELSE IF ~roleExistsInOrg THEN "role_unavailable"
        ELSE IF userId \notin DOMAIN m THEN "ok"
        ELSE IF m[userId].status = "active" THEN "already_member"
        ELSE "ok"

\* The decision of core-domain, on the facts the service read: the invitation
\* row, the table m and the acceptor userId.  A link issued at or before the
\* removal of its holder is superseded, and so is a revoked row without a date.
canAcceptInvitation(invitation, m, userId, roleExistsInOrg, now) ==
    LET status == resolveInvitationStatus(invitation, now)
    IN  IF status = "accepted" THEN "already_accepted"
        ELSE IF status # "pending" THEN status
        ELSE IF ~roleExistsInOrg THEN "role_unavailable"
        ELSE IF userId \notin DOMAIN m THEN "ok"
        ELSE IF m[userId].status = "active" THEN "already_member"
        ELSE IF m[userId].revokedAt = NoTime THEN "superseded"
        ELSE IF m[userId].revokedAt >= invitation.tokenIssuedAt THEN "superseded"
        ELSE "ok"
=============================================================================
