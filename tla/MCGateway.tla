----------------------------- MODULE MCGateway -----------------------------
(***************************************************************************)
(* Instances of Gateway for TLC.                                           *)
(***************************************************************************)
EXTENDS Gateway, TLC

CONSTANTS owner, staff, alice, bob, shop, other, ghost, m1, m2, l1, u1, free

TwoRoles == {owner, staff}
TwoCapabilities == owner :> {"full_access"} @@ staff :> {}

\* alice owns a shop; bob is staff there and was removed from the other shop.
\* The organization ghost does not exist.
Members ==
    [o \in Orgs |-> [u \in Users |->
        CASE <<o, u>> = <<shop, alice>> -> [status |-> "active", role |-> owner]
          [] <<o, u>> = <<shop, bob>> -> [status |-> "active", role |-> staff]
          [] <<o, u>> = <<other, bob>> -> [status |-> "revoked", role |-> owner]
          [] OTHER -> None]]

Joining == {<<shop, alice>>, <<shop, bob>>, <<other, bob>>}

Table == m1 :> [model |-> "Membership", org |-> shop, edited |-> FALSE]
    @@ m2 :> [model |-> "Membership", org |-> other, edited |-> FALSE]
    @@ l1 :> [model |-> "StockMovement", org |-> shop, edited |-> FALSE]
    @@ u1 :> [model |-> "User", org |-> None, edited |-> FALSE]
    @@ free :> None

NoMarks == [tier |-> None, capability |-> None, any |-> FALSE]
Tier(t) == [NoMarks EXCEPT !.tier = t]
Requires(c) == [NoMarks EXCEPT !.capability = c]
AnyMember == [NoMarks EXCEPT !.any = TRUE]
Route(path, verb, handler, class) ==
    [paths |-> {path}, verb |-> verb, handler |-> handler, class |-> class,
     wildcard |-> FALSE, jwt |-> FALSE]
WithJwt(route) == [route EXCEPT !.jwt = TRUE]

\* Routes of the application, and (from "undeclared" on) routes whose marks are
\* missing or wrong.
Registered == <<
    Route("auth/login", "POST", NoMarks, Tier("public")),
    WithJwt(Route("auth/sessions", "GET", NoMarks, Tier("public"))),
    WithJwt(Route("member/reset-password", "POST", Tier("user"), NoMarks)),
    Route("me/organizations", "GET", Tier("user"), NoMarks),
    Route("org", "GET", AnyMember, NoMarks),
    Route("org", "PATCH", Requires("manage_org_settings"), NoMarks),
    Route("roles", "GET", AnyMember, NoMarks),
    Route("membership", "DELETE", AnyMember, NoMarks),
    Route("tax-profile", "PUT", Requires("manage_org_settings"), NoMarks),
    Route("tax-profile/reveal", "POST", Requires("manage_org_settings"), NoMarks),
    Route("members", "GET", Requires("manage_members"), NoMarks),
    Route("member", "PATCH", Requires("manage_members"), NoMarks),
    Route("member", "DELETE", Requires("manage_members"), NoMarks),
    Route("invitations", "GET", Requires("manage_members"), NoMarks),
    Route("invitations", "POST", Requires("manage_members"), NoMarks),
    Route("invitation/link", "POST", Requires("manage_members"), NoMarks),
    Route("invitation", "DELETE", Requires("manage_members"), NoMarks),
    Route("undeclared", "GET", NoMarks, NoMarks),
    Route("twice", "GET", [AnyMember EXCEPT !.capability = "manage_members"], NoMarks),
    Route("empty", "GET", Requires(""), AnyMember),
    Route("admin", "GET", Tier("system"), NoMarks),
    Route("disputed", "GET", Tier("public"), NoMarks),
    Route("disputed", "ALL", AnyMember, NoMarks),
    [Route("wild", "GET", AnyMember, NoMarks) EXCEPT !.wildcard = TRUE] >>

Call(verb, path, token, header, param) ==
    [verb |-> verb, path |-> path, token |-> token, header |-> header, param |-> param]
Expired(user) == [sign(user) EXCEPT !.good = FALSE]
ForRefresh(user) == [sign(user) EXCEPT !.typ = "refresh"]

\* Every route once by bob for the shop; some by its owner, and with tokens that
\* are missing, too old or of the wrong type; the profile also for each
\* organization, with and without the header.
OnceByBob ==
    UNION {{Call(IF s.verb = "ALL" THEN "GET" ELSE s.verb, p, sign(bob), None, shop) : p \in s.paths} :
        s \in Range(Registered)}
ByAlice == {Call("PATCH", p, sign(alice), None, shop) : p \in {"org", "member"}}
BadTokens == {Call("GET", p, t, None, shop) :
    p \in {"members", "auth/sessions", "me/organizations"},
    t \in {None, Expired(alice), ForRefresh(alice)}}
ByBob == {Call("GET", "org", sign(bob), h, o) : h \in {None, other}, o \in Orgs \union {None}}
    \union {Call("GET", "members", sign(bob), None, other)}
    \union {Call("HEAD", p, sign(bob), None, shop) : p \in {"members", "org"}}
AllCalls == OnceByBob \union ByAlice \union BadTokens \union ByBob

Payload(org, relation, nested) == [org |-> org, relation |-> relation, nested |-> nested]
Plain == Payload(None, None, FALSE)
Connect(o) == [form |-> "connect", org |-> o]
Where(org, key) == [org |-> org, key |-> key]
Q(model, operation, where, data, create) ==
    [model |-> model, operation |-> operation, where |-> where, data |-> data, create |-> create]
WrittenClauses == {None} \union {[form |-> f, org |-> o] : f \in {"literal", "set", "other"}, o \in {shop, other}}

AllQueries ==
    {Q("Membership", "findMany", w, None, <<>>) :
        w \in {None, Malformed} \union {Where(c, None) : c \in Clauses}}
    \union {Q(m, op, Where(None, k), None, <<>>) :
        m \in {"Membership", "StockMovement", "User"}, op \in {"findUnique", "delete"},
        k \in {m1, m2, l1, u1}}
    \union {Q("Membership", op, Where(None, m2), None, <<>>) : op \in {"findRaw", "unheardOf"}}
    \union {Q("Unregistered", "findUnique", Where(None, m2), None, <<>>)}
    \union {Q("Membership", "update", w, p, <<>>) :
        w \in {None, Where(None, m1), Where(None, m2)},
        p \in {Payload(c, None, FALSE) : c \in WrittenClauses}
            \union {Payload(None, rel, n) : rel \in {None, Connect(other)}, n \in BOOLEAN}}
    \union {Q("StockMovement", "updateMany", None, Plain, <<>>)}
    \union {Q("Membership", "create", None, None, <<Payload(c, rel, FALSE)>>) :
        c \in WrittenClauses, rel \in {None, Connect(shop), Connect(other)}}
    \union {Q("StockMovement", "create", None, None, <<Plain>>),
            Q("Membership", "createMany", None, None, <<Plain, Malformed>>),
            Q("Organization", "create", None, None, <<Plain>>),
            Q("Organization", "findMany", None, None, <<>>)}
    \union {Q(m, "upsert", Where(None, k), Plain, <<Plain>>) :
        m \in {"Membership", "StockMovement"}, k \in {m1, m2, l1, free}}

Symmetry == Permutations(Requests)
=============================================================================
