------------------------------ MODULE MCLimits ------------------------------
(***************************************************************************)
(* Instances of Limits for TLC.                                            *)
(***************************************************************************)
EXTENDS Limits, TLC

Address(form, host) == [form |-> form, net |-> "n", host |-> host]
Call(by, addr) == [by |-> by, addr |-> addr, user |-> None, org |-> None]

\* One IPv4 client that logs in under both spellings of its address, and one
\* IPv6 household that follows invitation links from two hosts.
ClientCalls ==
    {Call("checkIp", Address(form, "h")) : form \in {"v4", "mapped"}}
    \union {Call("ip", Address("v6", host)) : host \in {"h", "k"}}

\* Safety runs only.
Symmetry == Permutations(Requests)
=============================================================================
