--------------------------- MODULE MCCredentials ---------------------------
(***************************************************************************)
(* Instances of Credentials for TLC.                                       *)
(***************************************************************************)
EXTENDS Credentials, TLC

CONSTANTS owner, staff, boss, clerk, o1, o2

TwoRoles == {owner, staff}
TwoCapabilities == owner :> {"full_access"} @@ staff :> {}

\* Both organizations belong to boss; clerk may join either, and take over the
\* first.
Founded == [o \in {o1, o2} |-> boss :> owner @@ clerk :> None]
Joining == {<<o1, clerk>>, <<o2, clerk>>, <<o1, boss>>}

Symmetry ==
    Permutations(Requests) \union Permutations(SessionIds) \union Permutations(Passwords \ Weak)
=============================================================================
