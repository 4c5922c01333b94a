------------------------- MODULE OrgRegisterProofs -------------------------
(***************************************************************************)
(* Theorems about OrgRegister, for every set of users, roles and           *)
(* invitations and every value of the bounds.                              *)
(***************************************************************************)
EXTENDS OrgRegister, TLAPS

\* The inductive invariant of the register.
RegisterInv ==
    /\ RegisterTypeOK
    /\ OwnerRemains
    /\ OnePendingPerEmail
    /\ NoPendingForActiveMember
    /\ RetiredLinksDead

\* What the handlers' checks leave established when they let a write happen.
LEMMA UpdateRoleAllowed ==
    ASSUME NEW o \in Ops, NEW now, o.kind = "updateRole", Verdict(o, now) \in Writing
    PROVE  /\ IsActive(o.target)
           /\ o.role \in OrgRoles
           /\ activeOwnersAfterRoleChange(membership, o.target, roleCapabilities[o.role]) # {}
  BY DEF Verdict, updateRoleVerdict, Writing

\* A removal that goes ahead has an active target and leaves an owner.
LEMMA RevokeAllowed ==
    ASSUME NEW o \in Ops, NEW now, o.kind = "revoke", Verdict(o, now) \in Writing
    PROVE  IsActive(o.target) /\ activeOwnersAfterRevoke(membership, o.target) # {}
  BY DEF Verdict, revokeVerdict, Writing

\* A departure that goes ahead is of an active member and leaves an owner.
LEMMA LeaveAllowed ==
    ASSUME NEW o \in Ops, NEW now, o.kind = "leave", Verdict(o, now) \in Writing
    PROVE  IsActive(o.actor) /\ activeOwnersAfterRevoke(membership, o.actor) # {}
  BY DEF Verdict, leaveVerdict, Writing

\* A new invitation is for an address that is no member and has none pending.
LEMMA CreateAllowed ==
    ASSUME NEW o \in Ops, NEW now, o.kind = "create", Verdict(o, now) \in Writing
    PROVE  o.role \in OrgRoles /\ ~IsActive(o.email) /\ PendingFor(o.email) = {}
  BY DEF Verdict, createVerdict, Writing

\* A link is only ever reissued for a pending invitation.
LEMMA ReissueAllowed ==
    ASSUME NEW o \in Ops, NEW now, o.kind = "reissueLink", Verdict(o, now) \in Writing
    PROVE  o.inv \in DOMAIN invitations /\ invitations[o.inv].status = "pending"
  BY DEF Verdict, reissueLinkVerdict, Writing

\* Only a pending invitation is cancelled.
LEMMA CancelAllowed ==
    ASSUME NEW o \in Ops, NEW now, o.kind = "cancel", Verdict(o, now) \in Writing
    PROVE  o.inv \in DOMAIN invitations /\ invitations[o.inv].status = "pending"
  BY DEF Verdict, cancelVerdict, Writing

\* The acceptor is the invitee, the invitation is pending, and they are no
\* active member unless the answer is already_member; somebody who was removed
\* enters by a link issued later.
LEMMA AcceptAllowed ==
    ASSUME RegisterTypeOK,
           NEW o \in Ops, NEW now, o.kind = "accept", Verdict(o, now) \in Writing
    PROVE  /\ o.inv \in DOMAIN invitations
           /\ invitations[o.inv].status = "pending"
           /\ invitations[o.inv].email = o.actor
           /\ Verdict(o, now) = "ok" => ~IsActive(o.actor)
           /\ Verdict(o, now) = "already_member" => IsActive(o.actor)
           /\ Verdict(o, now) = "ok" /\ o.actor \in DOMAIN membership =>
                 membership[o.actor].revokedAt < invitations[o.inv].tokenIssuedAt
<1> DEFINE i == invitations[o.inv]
           decision == canAcceptInvitation(i, membership, o.actor, i.roleId \in OrgRoles, now)
<1>1. acceptVerdict(o, now) \in {"ok", "already_member"}
  BY DEF Verdict, Writing
<1>2. Resolves(o.inv, o.gen)
  BY <1>1 DEF acceptVerdict
<1>3. i.status \in {"pending", "accepted", "cancelled"}
  BY <1>2 DEF Resolves, RegisterTypeOK, InvitationRow
<1>4. /\ decision \in {"ok", "already_member"}
      /\ o.actor = i.email
      /\ acceptVerdict(o, now) = decision
  BY <1>1, <1>2 DEF acceptVerdict
<1>5. i.status = "pending"
  BY <1>3, <1>4 DEF canAcceptInvitation, resolveInvitationStatus
<1>6. /\ decision = "ok" => ~IsActive(o.actor)
      /\ decision = "already_member" => IsActive(o.actor)
  BY <1>4, <1>5 DEF canAcceptInvitation, resolveInvitationStatus, IsActive
<1>7. Verdict(o, now) = decision
  BY <1>4 DEF Verdict
<1>8. ASSUME decision = "ok", o.actor \in DOMAIN membership
      PROVE  membership[o.actor].revokedAt < i.tokenIssuedAt
  <2>1. ~ (membership[o.actor].revokedAt >= i.tokenIssuedAt)
    BY <1>5, <1>8 DEF canAcceptInvitation, resolveInvitationStatus
  <2>2. membership[o.actor].revokedAt \in Int /\ i.tokenIssuedAt \in Int
    BY <1>2, <1>8 DEF Resolves, RegisterTypeOK, MembershipRow, InvitationRow, Time, NoTime
  <2> QED
    BY <2>1, <2>2
<1> QED
  BY <1>2, <1>4, <1>5, <1>6, <1>7, <1>8 DEF Resolves

-----------------------------------------------------------------------------
\* Each write keeps the invariant, given what its handler has established.
LEMMA RoleWriteKeepsInv ==
    ASSUME RegisterInv, NEW o, o.target \in Users, o.role \in OrgRoles, IsActive(o.target),
           activeOwnersAfterRoleChange(membership, o.target, roleCapabilities[o.role]) # {},
           writeRole(o), UNCHANGED clock
    PROVE  RegisterInv'
<1>1. RegisterTypeOK'
  BY DEF RegisterInv, RegisterTypeOK, writeRole, MembershipRow, IsActive
<1>2. \A u \in DOMAIN membership :
        /\ membership'[u].status = membership[u].status
        /\ membership'[u].roleId = IF u = o.target THEN o.role ELSE membership[u].roleId
  BY DEF RegisterInv, RegisterTypeOK, writeRole, MembershipRow
<1>3. DOMAIN membership' = DOMAIN membership
  BY DEF writeRole
<1>4. OwnerRemains'
  <2>1. PICK u \in activeOwnersAfterRoleChange(membership, o.target, roleCapabilities[o.role]) :
          TRUE
    OBVIOUS
  <2>2. u \in ActiveOwners(membership')
    BY <2>1, <1>2, <1>3
       DEF activeOwnersAfterRoleChange, ActiveOwners, OwnerRows, isOwnerRole, IsActive
  <2> QED
    BY <2>2 DEF OwnerRemains
<1>5. \A u : IsActive(u)' => IsActive(u)
  BY <1>2, <1>3 DEF IsActive
<1>6. invitations' = invitations /\ retired' = retired
  BY DEF writeRole
<1>7. OnePendingPerEmail' /\ NoPendingForActiveMember' /\ RetiredLinksDead'
  BY <1>5, <1>6 DEF RegisterInv, OnePendingPerEmail, NoPendingForActiveMember, RetiredLinksDead,
                    PendingFor
<1> QED
  BY <1>1, <1>4, <1>7 DEF RegisterInv

\* Removing a member whose removal leaves an owner keeps the invariant.
LEMMA RevocationKeepsInv ==
    ASSUME RegisterInv, NEW u \in Users, NEW at \in Time, IsActive(u),
           activeOwnersAfterRevoke(membership, u) # {},
           writeRevocation(u, at), UNCHANGED clock
    PROVE  RegisterInv'
<1>1. /\ DOMAIN membership' = DOMAIN membership
      /\ DOMAIN invitations' = DOMAIN invitations
  BY DEF writeRevocation
<1>2. \A v \in DOMAIN membership :
        /\ v # u => membership'[v] = membership[v]
        /\ v = u => /\ membership'[v].status = "revoked"
                    /\ membership'[v].roleId = membership[v].roleId
                    /\ membership'[v].revokedAt = at
                    /\ membership'[v] \in MembershipRow
  BY DEF RegisterInv, RegisterTypeOK, writeRevocation, MembershipRow
<1>3. \A i \in DOMAIN invitations :
        /\ invitations'[i] \in InvitationRow
        /\ invitations'[i].email = invitations[i].email
        /\ invitations'[i].status = IF i \in PendingFor(u) THEN "cancelled"
                                    ELSE invitations[i].status
  BY DEF RegisterInv, RegisterTypeOK, writeRevocation, InvitationRow
<1>4. RegisterTypeOK'
  <2>1. membership' \in [DOMAIN membership' -> MembershipRow]
    BY <1>1, <1>2 DEF RegisterInv, RegisterTypeOK, writeRevocation
  <2>2. invitations' \in [DOMAIN invitations' -> InvitationRow]
    BY <1>1, <1>3 DEF writeRevocation
  <2>3. LinksOf(u) \subseteq InvIds \X Gens
    BY DEF LinksOf, RegisterInv, RegisterTypeOK
  <2>4. retired' \subseteq InvIds \X Gens
    BY <2>3 DEF RegisterInv, RegisterTypeOK, writeRevocation
  <2> QED
    BY <1>1, <2>1, <2>2, <2>4 DEF RegisterInv, RegisterTypeOK
<1>5. OwnerRemains'
  BY <1>1, <1>2 DEF OwnerRemains, activeOwnersAfterRevoke, ActiveOwners, OwnerRows
<1>6. \A v : IsActive(v)' => IsActive(v)
  BY <1>1, <1>2 DEF IsActive
<1>7. \A v : PendingFor(v)' \subseteq PendingFor(v)
  BY <1>1, <1>3 DEF PendingFor
<1>8. OnePendingPerEmail' /\ NoPendingForActiveMember'
  BY <1>6, <1>7 DEF RegisterInv, OnePendingPerEmail, NoPendingForActiveMember
<1>9. RetiredLinksDead'
  <2> SUFFICES ASSUME NEW link \in retired'
               PROVE  /\ link[1] \in DOMAIN invitations'
                      /\ invitations'[link[1]].status # "pending"
    BY DEF RetiredLinksDead
  <2>1. CASE link \in retired
    BY <2>1, <1>1, <1>3 DEF RegisterInv, RetiredLinksDead
  <2>2. CASE link \in LinksOf(u)
    BY <2>2, <1>1, <1>3 DEF LinksOf, PendingFor
  <2> QED
    BY <2>1, <2>2 DEF writeRevocation
<1> QED
  BY <1>4, <1>5, <1>8, <1>9 DEF RegisterInv

\* An expiry date is a date.
LEMMA ExpiryIsTime ==
    ASSUME NEW now \in Time, NEW role \in OrgRoles
    PROVE  expiryFrom(now, role) \in Time
  BY TtlAssumption DEF expiryFrom, invitationTtlHours, Time

\* Storing a new pending invitation keeps the invariant.
LEMMA InvitationKeepsInv ==
    ASSUME RegisterInv, NEW o, NEW now \in Time, o.email \in Users, o.role \in OrgRoles,
           ~IsActive(o.email), PendingFor(o.email) = {}, 1 \in Gens,
           writeInvitation(o, now), UNCHANGED clock
    PROVE  RegisterInv'
<1> DEFINE row == [status |-> "pending", email |-> o.email, roleId |-> o.role, gen |-> 1,
                   tokenIssuedAt |-> now, expiresAt |-> expiryFrom(now, o.role)]
<1>1. PICK new \in InvIds \ DOMAIN invitations : invitations' = Put(invitations, new, row)
  BY DEF writeInvitation
<1>2. row \in InvitationRow
  BY ExpiryIsTime DEF InvitationRow
<1>3. /\ DOMAIN invitations' = DOMAIN invitations \union {new}
      /\ invitations'[new] = row
      /\ \A i \in DOMAIN invitations : invitations'[i] = invitations[i]
      /\ invitations' \in [DOMAIN invitations' -> InvitationRow]
  BY <1>1, <1>2 DEF Put, RegisterInv, RegisterTypeOK
<1>4. membership' = membership /\ retired' = retired
  BY DEF writeInvitation
<1>5. RegisterTypeOK'
  BY <1>3, <1>4 DEF RegisterInv, RegisterTypeOK
<1>6. /\ \A u : u # o.email => PendingFor(u)' = PendingFor(u)
      /\ PendingFor(o.email)' = {new}
  BY <1>3 DEF PendingFor
<1>7. OwnerRemains'
  BY <1>4 DEF RegisterInv, OwnerRemains
<1>8. OnePendingPerEmail'
  BY <1>6 DEF RegisterInv, OnePendingPerEmail
<1>9. NoPendingForActiveMember'
  BY <1>4, <1>6 DEF RegisterInv, NoPendingForActiveMember, IsActive
<1>10. RetiredLinksDead'
  BY <1>3, <1>4 DEF RegisterInv, RetiredLinksDead
<1> QED
  BY <1>5, <1>7, <1>8, <1>9, <1>10 DEF RegisterInv

\* Rotating the link of a pending invitation keeps the invariant.
LEMMA NewLinkKeepsInv ==
    ASSUME RegisterInv, NEW o, NEW now \in Time, o.inv \in DOMAIN invitations,
           invitations[o.inv].status = "pending",
           writeNewLink(o, now), UNCHANGED clock
    PROVE  RegisterInv'
<1>1. expiryFrom(now, invitations[o.inv].roleId) \in Time
  BY ExpiryIsTime DEF RegisterInv, RegisterTypeOK, InvitationRow
<1>2. invitations[o.inv].gen + 1 \in Gens
  BY RegisterAssumption DEF RegisterInv, RegisterTypeOK, InvitationRow, writeNewLink, Gens
<1>3. /\ DOMAIN invitations' = DOMAIN invitations
      /\ \A i \in DOMAIN invitations :
            /\ invitations'[i] \in InvitationRow
            /\ invitations'[i].status = invitations[i].status
            /\ invitations'[i].email = invitations[i].email
      /\ invitations' \in [DOMAIN invitations -> InvitationRow]
  BY <1>1, <1>2 DEF RegisterInv, RegisterTypeOK, InvitationRow, writeNewLink
<1>4. membership' = membership /\ retired' = retired
  BY DEF writeNewLink
<1>5. RegisterTypeOK'
  BY <1>3, <1>4 DEF RegisterInv, RegisterTypeOK
<1>6. \A u : PendingFor(u)' = PendingFor(u)
  BY <1>3 DEF PendingFor
<1>7. OwnerRemains' /\ OnePendingPerEmail' /\ NoPendingForActiveMember' /\ RetiredLinksDead'
  BY <1>3, <1>4, <1>6 DEF RegisterInv, OwnerRemains, OnePendingPerEmail,
                          NoPendingForActiveMember, RetiredLinksDead, IsActive
<1> QED
  BY <1>5, <1>7 DEF RegisterInv

\* Closing an invitation changes its status and nothing else.
LEMMA ClosingInvitation ==
    ASSUME RegisterTypeOK, NEW id \in DOMAIN invitations,
           NEW status \in {"accepted", "cancelled"}, writeInvitationStatus(id, status)
    PROVE  /\ DOMAIN invitations' = DOMAIN invitations
           /\ invitations' \in [DOMAIN invitations -> InvitationRow]
           /\ invitations'[id].status = status
           /\ \A i \in DOMAIN invitations : i # id => invitations'[i] = invitations[i]
           /\ invitations'[id].email = invitations[id].email
           /\ \A u : PendingFor(u)' = PendingFor(u) \ {id}
<1>1. /\ DOMAIN invitations' = DOMAIN invitations
      /\ invitations' \in [DOMAIN invitations -> InvitationRow]
      /\ invitations'[id].status = status
      /\ \A i \in DOMAIN invitations : i # id => invitations'[i] = invitations[i]
      /\ invitations'[id].email = invitations[id].email
  BY DEF RegisterTypeOK, InvitationRow, writeInvitationStatus
<1>2. \A u : PendingFor(u)' = PendingFor(u) \ {id}
  BY <1>1 DEF PendingFor
<1> QED
  BY <1>1, <1>2

\* Cancelling an invitation keeps the invariant.
LEMMA CancelKeepsInv ==
    ASSUME RegisterInv, NEW id \in DOMAIN invitations, writeInvitationStatus(id, "cancelled"),
           UNCHANGED <<membership, retired, clock>>
    PROVE  RegisterInv'
<1>1. RegisterTypeOK'
  BY ClosingInvitation DEF RegisterInv, RegisterTypeOK
<1>2. OwnerRemains'
  BY DEF RegisterInv, OwnerRemains
<1>3. OnePendingPerEmail' /\ NoPendingForActiveMember'
  BY ClosingInvitation DEF RegisterInv, OnePendingPerEmail, NoPendingForActiveMember, IsActive
<1>4. RetiredLinksDead'
  BY ClosingInvitation DEF RegisterInv, RetiredLinksDead
<1> QED
  BY <1>1, <1>2, <1>3, <1>4 DEF RegisterInv

\* Accepting, by somebody new or somebody removed, keeps the invariant.
LEMMA AcceptanceKeepsInv ==
    ASSUME RegisterInv, NEW o, o.actor \in Users, o.inv \in PendingFor(o.actor),
           ~IsActive(o.actor), writeAcceptance(o, "ok"), UNCHANGED clock
    PROVE  RegisterInv'
<1> DEFINE row == [status |-> "active", roleId |-> invitations[o.inv].roleId,
                   revokedAt |-> NoTime]
<1>1. o.inv \in DOMAIN invitations /\ writeInvitationStatus(o.inv, "accepted")
  BY DEF PendingFor, writeAcceptance
<1>2. row \in MembershipRow
  BY <1>1 DEF RegisterInv, RegisterTypeOK, MembershipRow, InvitationRow
<1>3. membership' = Put(membership, o.actor, row) /\ retired' = retired
  BY DEF writeAcceptance
<1>4. /\ DOMAIN membership' = DOMAIN membership \union {o.actor}
      /\ membership'[o.actor] = row
      /\ \A u \in DOMAIN membership : u # o.actor => membership'[u] = membership[u]
      /\ membership' \in [DOMAIN membership' -> MembershipRow]
  BY <1>2, <1>3 DEF Put, RegisterInv, RegisterTypeOK
<1>5. RegisterTypeOK'
  BY <1>1, <1>3, <1>4, ClosingInvitation DEF RegisterInv, RegisterTypeOK
<1>6. OwnerRemains'
  BY <1>4 DEF RegisterInv, OwnerRemains, ActiveOwners, OwnerRows, IsActive
<1>7. OnePendingPerEmail'
  BY <1>1, ClosingInvitation DEF RegisterInv, OnePendingPerEmail
<1>8. NoPendingForActiveMember'
  <2> SUFFICES ASSUME NEW u \in Users, IsActive(u)' PROVE PendingFor(u)' = {}
    BY DEF NoPendingForActiveMember
  <2>1. PendingFor(u)' = PendingFor(u) \ {o.inv}
    BY <1>1, ClosingInvitation DEF RegisterInv
  <2>2. CASE u = o.actor
    BY <2>1, <2>2 DEF RegisterInv, OnePendingPerEmail
  <2>3. CASE u # o.actor
    BY <2>1, <2>3, <1>4 DEF RegisterInv, NoPendingForActiveMember, IsActive
  <2> QED
    BY <2>2, <2>3
<1>9. RetiredLinksDead'
  BY <1>1, <1>3, ClosingInvitation DEF RegisterInv, RetiredLinksDead
<1> QED
  BY <1>5, <1>6, <1>7, <1>8, <1>9 DEF RegisterInv

-----------------------------------------------------------------------------
\* A provisioned organization satisfies the invariant.
LEMMA InitEstablishesInv ==
    ASSUME RegisterInit
    PROVE  RegisterInv
<1>1. RegisterTypeOK
  BY RegisterAssumption DEF RegisterInit, RegisterTypeOK, MembershipRow, Time
<1>2. Founder \in ActiveOwners(membership)
  BY RegisterAssumption DEF RegisterInit, ActiveOwners, OwnerRows
<1>3. OwnerRemains
  BY <1>2 DEF OwnerRemains
<1>4. \A u : PendingFor(u) = {}
  BY DEF RegisterInit, PendingFor
<1>5. OnePendingPerEmail /\ NoPendingForActiveMember /\ RetiredLinksDead
  BY <1>4 DEF RegisterInit, OnePendingPerEmail, NoPendingForActiveMember, RetiredLinksDead
<1> QED
  BY <1>1, <1>3, <1>5 DEF RegisterInv

\* One served request, whatever its kind and however old its reading of the
\* clock, keeps the invariant.
LEMMA ServeKeepsInv ==
    ASSUME RegisterInv, NEW o \in Ops, NEW now \in Time, NEW at \in Time, Serve(o, now, at)
    PROVE  RegisterInv'
<1>1. Verdict(o, now) \in Writing /\ Write(o, now, at, Verdict(o, now)) /\ UNCHANGED clock
  BY DEF Serve
<1>2. CASE o.kind = "updateRole" /\ writeRole(o)
  BY <1>1, <1>2, UpdateRoleAllowed, RoleWriteKeepsInv DEF Ops, MemberOps, LeaveOps, InvitationOps, AcceptOps
<1>3. CASE o.kind = "revoke" /\ writeRevocation(o.target, at)
  BY <1>1, <1>3, RevokeAllowed, RevocationKeepsInv DEF Ops, MemberOps, LeaveOps, InvitationOps, AcceptOps
<1>4. CASE o.kind = "leave" /\ writeRevocation(o.actor, at)
  BY <1>1, <1>4, LeaveAllowed, RevocationKeepsInv DEF Ops, MemberOps, LeaveOps, InvitationOps, AcceptOps
<1>5. CASE o.kind = "create" /\ writeInvitation(o, now)
  <2>1. 1 \in Gens
    BY RegisterAssumption DEF Gens
  <2> QED
    BY <1>1, <1>5, <2>1, CreateAllowed, InvitationKeepsInv DEF Ops, MemberOps, LeaveOps, InvitationOps, AcceptOps
<1>6. CASE o.kind = "reissueLink" /\ writeNewLink(o, now)
  BY <1>1, <1>6, ReissueAllowed, NewLinkKeepsInv
<1>7. CASE o.kind = "cancel" /\ writeCancel(o)
  BY <1>1, <1>7, CancelAllowed, CancelKeepsInv DEF writeCancel
<1>8. CASE o.kind = "accept" /\ writeAcceptance(o, Verdict(o, now))
  <2>1. /\ o.inv \in PendingFor(o.actor)
        /\ Verdict(o, now) = "ok" => ~IsActive(o.actor)
        /\ Verdict(o, now) = "already_member" => IsActive(o.actor)
    BY <1>1, <1>8, AcceptAllowed DEF PendingFor, RegisterInv
  <2>2. o.actor \in Users
    BY DEF Ops, MemberOps, LeaveOps, InvitationOps, AcceptOps
  <2>3. Verdict(o, now) = "ok"
    BY <1>1, <2>1, <2>2 DEF Writing, RegisterInv, NoPendingForActiveMember
  <2> QED
    BY <1>1, <1>8, <2>1, <2>2, <2>3, AcceptanceKeepsInv
<1> QED
  BY <1>1, <1>2, <1>3, <1>4, <1>5, <1>6, <1>7, <1>8 DEF Write

\* The passing of time keeps the invariant: nothing in it depends on the clock.
LEMMA TickKeepsInv ==
    ASSUME RegisterInv, Tick
    PROVE  RegisterInv'
  BY DEF RegisterInv, Tick, tables, RegisterTypeOK, Time, OwnerRemains, OnePendingPerEmail,
         NoPendingForActiveMember, RetiredLinksDead, PendingFor, IsActive

\* Every step of the register keeps the invariant.
LEMMA RegisterStepKeepsInv ==
    ASSUME RegisterInv, [RegisterNext]_registerVars
    PROVE  RegisterInv'
<1>1. ASSUME NEW o \in Ops, NEW now \in 0 .. clock, NEW at \in 0 .. clock, Serve(o, now, at)
      PROVE  RegisterInv'
  <2>1. now \in Time /\ at \in Time
    BY DEF RegisterInv, RegisterTypeOK, Time
  <2> QED
    BY <1>1, <2>1, ServeKeepsInv
<1>2. CASE Tick
  BY <1>2, TickKeepsInv
<1>3. CASE UNCHANGED registerVars
  BY <1>3 DEF registerVars, RegisterInv, RegisterTypeOK, OwnerRemains, OnePendingPerEmail,
              NoPendingForActiveMember, RetiredLinksDead, PendingFor, IsActive
<1> QED
  BY <1>1, <1>2, <1>3 DEF RegisterNext

\* The rows are well typed, an owner remains, no address has two pending
\* invitations, no member has one, and no link outlives a removal: together
\* these are inductive over the serial operations of the two services.
THEOREM RegisterInvariant == RegisterSpec => []RegisterInv
<1>1. RegisterInit => RegisterInv
  BY InitEstablishesInv
<1>2. RegisterInv /\ [RegisterNext]_registerVars => RegisterInv'
  BY RegisterStepKeepsInv
<1> QED
  BY <1>1, <1>2, PTL DEF RegisterSpec

-----------------------------------------------------------------------------
\* Every served request obeys all three.
LEMMA ServeObeys ==
    ASSUME RegisterInv, NEW o \in Ops, NEW now, NEW at, Serve(o, now, at)
    PROVE  Entry /\ Removed /\ Closed
<1>1. Verdict(o, now) \in Writing /\ Write(o, now, at, Verdict(o, now))
  BY DEF Serve
<1>2. CASE o.kind = "updateRole" /\ writeRole(o)
  <2>1. IsActive(o.target)
    BY <1>1, <1>2, UpdateRoleAllowed
  <2> QED
    BY <1>2, <2>1 DEF Entry, Removed, Closed, writeRole, IsActive, RegisterInv, RegisterTypeOK,
                      MembershipRow
<1>3. ASSUME NEW u \in Users, IsActive(u), writeRevocation(u, at)
      PROVE  Entry /\ Removed /\ Closed
  <2>1. Entry /\ Removed
    BY <1>3 DEF Entry, Removed, writeRevocation, IsActive, RegisterInv, RegisterTypeOK,
                MembershipRow
  <2>2. Closed
    BY <1>3 DEF Closed, writeRevocation, PendingFor
  <2> QED
    BY <2>1, <2>2
<1>4. CASE o.kind = "revoke" /\ writeRevocation(o.target, at)
  BY <1>1, <1>3, <1>4, RevokeAllowed DEF Ops, MemberOps, LeaveOps, InvitationOps, AcceptOps
<1>5. CASE o.kind = "leave" /\ writeRevocation(o.actor, at)
  BY <1>1, <1>3, <1>5, LeaveAllowed DEF Ops, MemberOps, LeaveOps, InvitationOps, AcceptOps
<1>6. CASE o.kind = "create" /\ writeInvitation(o, now)
  BY <1>6 DEF Entry, Removed, Closed, writeInvitation, Put, IsActive
<1>7. CASE o.kind = "reissueLink" /\ writeNewLink(o, now)
  BY <1>1, <1>7, ReissueAllowed DEF Entry, Removed, Closed, writeNewLink, IsActive
<1>8. CASE o.kind = "cancel" /\ writeCancel(o)
  BY <1>1, <1>8, CancelAllowed
     DEF Entry, Removed, Closed, writeCancel, writeInvitationStatus, IsActive
<1>9. CASE o.kind = "accept" /\ writeAcceptance(o, Verdict(o, now))
  <2>1. /\ o.inv \in PendingFor(o.actor)
        /\ Verdict(o, now) = "ok" => ~IsActive(o.actor)
        /\ Verdict(o, now) = "already_member" => IsActive(o.actor)
        /\ Verdict(o, now) = "ok" /\ o.actor \in DOMAIN membership =>
              membership[o.actor].revokedAt < invitations[o.inv].tokenIssuedAt
    BY <1>1, <1>9, AcceptAllowed DEF PendingFor, RegisterInv
  <2>2. Verdict(o, now) = "ok" /\ o.actor \in Users
    BY <1>1, <2>1 DEF Writing, RegisterInv, NoPendingForActiveMember, Ops, MemberOps, LeaveOps, InvitationOps, AcceptOps
  <2>3. /\ o.inv \in DOMAIN invitations
        /\ invitations[o.inv].status = "pending"
        /\ writeInvitationStatus(o.inv, "accepted")
        /\ membership' = Put(membership, o.actor,
               [status |-> "active", roleId |-> invitations[o.inv].roleId, revokedAt |-> NoTime])
    BY <1>9, <2>1, <2>2 DEF PendingFor, writeAcceptance
  <2>4. Closed
    BY <2>3 DEF Closed, writeInvitationStatus
  <2>5. Removed
    BY <2>3 DEF Removed, Put, IsActive
  <2>6. <<o.inv, invitations[o.inv].gen>> \notin retired
    BY <2>3 DEF RegisterInv, RetiredLinksDead
  <2>7. /\ invitations'[o.inv].status = "accepted"
        /\ membership'[o.actor].roleId = invitations[o.inv].roleId
    BY <2>3 DEF writeInvitationStatus, Put, RegisterInv, RegisterTypeOK, InvitationRow
  <2>8. \A u : IsActive(u)' => IsActive(u) \/ u = o.actor
    BY <2>3 DEF Put, IsActive
  <2>9. Entry
    BY <2>1, <2>2, <2>3, <2>6, <2>7, <2>8 DEF Entry, PendingFor
  <2> QED
    BY <2>4, <2>5, <2>9
<1> QED
  BY <1>1, <1>2, <1>4, <1>5, <1>6, <1>7, <1>8, <1>9 DEF Write

\* Every step of the register obeys the three action properties.
LEMMA RegisterStepObeys ==
    ASSUME RegisterInv, [RegisterNext]_registerVars
    PROVE  Entry /\ Removed /\ Closed
<1>1. CASE Tick
  BY <1>1 DEF Tick, tables, Entry, Removed, Closed, IsActive
<1>2. CASE UNCHANGED registerVars
  BY <1>2 DEF registerVars, Entry, Removed, Closed, IsActive
<1> QED
  BY <1>1, <1>2, ServeObeys DEF RegisterNext

\* Whoever enters the organization does so on a pending invitation of their own
\* that was issued after their last removal; a removal is written once; a closed
\* invitation never changes.
THEOREM RegisterActions ==
    RegisterSpec => EntryByLiveLink /\ RemovalSticks /\ ClosedStaysClosed
<1>1. RegisterInv /\ [RegisterNext]_registerVars => [Entry]_registerVars
  BY RegisterStepObeys
<1>2. RegisterInv /\ [RegisterNext]_registerVars => [Removed]_registerVars
  BY RegisterStepObeys
<1>3. RegisterInv /\ [RegisterNext]_registerVars => [Closed]_registerVars
  BY RegisterStepObeys
<1>4. RegisterSpec => [][Entry]_registerVars
  BY <1>1, RegisterInvariant, PTL DEF RegisterSpec
<1>5. RegisterSpec => [][Removed]_registerVars
  BY <1>2, RegisterInvariant, PTL DEF RegisterSpec
<1>6. RegisterSpec => [][Closed]_registerVars
  BY <1>3, RegisterInvariant, PTL DEF RegisterSpec
<1> QED
  BY <1>4, <1>5, <1>6 DEF EntryByLiveLink, RemovalSticks, ClosedStaysClosed
=============================================================================
