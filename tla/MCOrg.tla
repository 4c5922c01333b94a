------------------------------- MODULE MCOrg -------------------------------
(***************************************************************************)
(* Instances of OrgMembership for TLC.                                     *)
(***************************************************************************)
EXTENDS MembersScreen, TLC

CONSTANTS owner, admin, staff, foreign, u1, u2, u3, i1, i2

capabilities ==
    owner :> {"full_access"} @@ admin :> {"manage_members"} @@ staff :> {}
    @@ foreign :> {"full_access"}

ThreeRoles == {owner, admin, staff}
ThreeRolesAndForeign == ThreeRoles \union {foreign}
TwoRoles == {owner, staff}
ThreeCapabilities == [r \in ThreeRoles |-> capabilities[r]]
ForeignCapabilities == [r \in ThreeRolesAndForeign |-> capabilities[r]]
TwoCapabilities == [r \in TwoRoles |-> capabilities[r]]

\* Safety runs only: ids and request slots are interchangeable.
Symmetry == Permutations(Requests) \union Permutations(InvIds)

\* A team that has already grown, so that the run about members needs no
\* invitations of its own: two owners and a manager, the second and the third
\* of them brought in by the two invitations they accepted.
Active(role) == [status |-> "active", roleId |-> role, revokedAt |-> NoTime]

Accepted(email, role) ==
    [status |-> "accepted", email |-> email, roleId |-> role, gen |-> 1,
     tokenIssuedAt |-> 0, expiresAt |-> TtlElevated]

TeamInit ==
    /\ membership = (u1 :> Active(owner) @@ u2 :> Active(owner) @@ u3 :> Active(admin))
    /\ invitations = (i1 :> Accepted(u2, owner) @@ i2 :> Accepted(u3, admin))
    /\ clock = 0
    /\ retired = {}
    /\ lock = NoRequest
    /\ req = [r \in Requests |-> Idle]

RequestSymmetry == Permutations(Requests)

TeamSpec == TeamInit /\ [][Next]_vars
=============================================================================
