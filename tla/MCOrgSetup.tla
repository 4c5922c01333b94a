----------------------------- MODULE MCOrgSetup -----------------------------
(***************************************************************************)
(* Instances of OrgSetup for TLC.                                          *)
(***************************************************************************)
EXTENDS OrgSetup

\* Issued numbers, the second with remainder zero, and numbers with a wrong digit:
\* one the check cannot see and two it must.
First == <<1,1,0,1,7,0,0,2,0,7,3,6,6>>
Second == <<1,1,0,1,7,0,0,2,0,7,0,8,1>>
Issued == {First, Second}
Mistyped == {[Second EXCEPT ![2] = 0], [First EXCEPT ![4] = 2], [First EXCEPT ![13] = 5]}

Body(entity, taxId, vat, branch) ==
    [entity |-> entity, taxId |-> taxId, vat |-> vat, branch |-> branch]
Typed(d, separated) == [digits |-> d, separated |-> separated]
Bodies ==
    {Body("valid", Typed(d, FALSE), "valid", None) : d \in Mistyped}
    \union {Body("valid", Typed(First, TRUE), "valid", "valid"),
            Body("valid", Typed(First, TRUE), "valid", "invalid"),
            Body(None, Typed(First, FALSE), "valid", None),
            Body("valid", None, None, None), Body(None, None, None, None)}

\* The numbers of this instance are issued or one digit off.
ASSUME InstanceTypos == OneTypo

Zones == {"Asia/Bangkok"}
New(name, timezone) == [name |-> name, timezone |-> timezone]
NewShops == {New(1, None), New(120, "null"), New(120, "Asia/Bangkok"), New(121, None),
             New(0, None), New(NotAString, None), New(1, "Mars/Olympus")}
Patch(name, logo, timezone) == [name |-> name, logo |-> logo, timezone |-> timezone]
ProfilePatches ==
    {Patch(None, None, None), Patch(120, "null", "Asia/Bangkok"), Patch(None, "null", None),
     Patch(NotAString, None, None), Patch(None, "logo", None), Patch(1, None, "null")}

Symmetry == Permutations(Requests)
=============================================================================
