------------------------------ MODULE Gateway ------------------------------
(***************************************************************************)
(* The way of a request through apps/api: OrgContextMiddleware names the   *)
(* organization and reads the caller's membership, OrgScopeGuard and       *)
(* CapabilityGuard admit or refuse, the handler queries through the client *)
(* of its context (module Tenancy), and the exception filter names every   *)
(* failure.  Requests interleave with each other and with changes of       *)
(* memberships.                                                            *)
(*                                                                         *)
(*   idle -> lookup -> guards -> handler -> done                           *)
(***************************************************************************)
EXTENDS OrgPolicy, Tenancy, FiniteSets

CONSTANTS
    Users,
    Requests,
    Routes,         \* the registered handlers, in order of registration
    Calls,          \* what clients send: verb, path, bearer token, header, :orgId
    Queries,        \* the queries of the handlers
    RowInit, MemberInit,
    Moving,         \* <<organization, user>>: the memberships that change
    MaxChanges,     \* bound of the model: changes of memberships
    MaxQueries      \* bound of the model: queries of a request

\* A row of a tenant model has an organization, one of the others has none.
Row == [model : Models \ ORG_AGNOSTIC_MODELS, org : Orgs, edited : BOOLEAN]
    \union [model : ORG_AGNOSTIC_MODELS, org : {None}, edited : BOOLEAN]

Membership == [status : {"active", "revoked"}, role : OrgRoles]

\* The marks decorators leave on a handler or a class.
Marks == [tier : {None, "public", "user", "system"}, capability : STRING \union {None},
          any : BOOLEAN]

RouteForms == [paths : SUBSET STRING, verb : STRING, handler : Marks, class : Marks,
               wildcard : BOOLEAN, jwt : BOOLEAN]

TokenForms == [sub : Users, typ : STRING, good : BOOLEAN]

CallForms == [verb : STRING, path : STRING, token : TokenForms \union {None},
              header : Orgs \union {None}, param : Orgs \union {None}]

ASSUME GatewayAssumption ==
    /\ MaxChanges \in Nat /\ MaxQueries \in Nat
    /\ None \notin Users
    /\ None \notin {"UNAUTHENTICATED", "ORG_CONTEXT_REQUIRED", "ORG_MISMATCH",
                    "ORG_ACCESS_DENIED", "FORBIDDEN", "INTERNAL", "org"}
    /\ RowInit \in [Ids -> Row \union {None}]
    /\ MemberInit \in [Orgs -> [Users -> Membership \union {None}]]
    /\ Moving \subseteq Orgs \X Users
    /\ Routes \in Seq(RouteForms)
    /\ Calls \subseteq CallForms
    /\ \A q \in Queries : Written(q)

VARIABLES
    rows,       \* the database: id -> [model, org, edited] or None
    member,     \* Membership: organization -> user -> [status, role] or None
    req,        \* the requests
    changes     \* how often memberships have changed

vars == <<rows, member, req, changes>>

\* OrgAuthState: what the middleware found out about the organization, and the
\* tier it took the route to have.
OrgAuthOutcome ==
    {"ok", "none", "mismatch", "no_membership", "revoked", "not_active", "skipped"}
AssumedRouteTier == {"public", "user", "system", "org", "unknown"}

Idle == [pc |-> "idle"]

Init ==
    /\ rows = RowInit
    /\ member = MemberInit
    /\ req = [r \in Requests |-> Idle]
    /\ changes = 0

InFlight(r) == req[r].pc \in {"lookup", "guards", "handler"}

-----------------------------------------------------------------------------
(***************************************************************************)
(* Route metadata.  A route has marks of its handler and of its class:     *)
(* tier (@Public, @UserScoped, @SystemScoped), capability                  *)
(* (@RequireCapability; "" is a malformed one) and any (@AnyActiveMember); *)
(* jwt says that the handler uses JwtAuthGuard.                            *)
(***************************************************************************)
tierOf(route) ==
    IF route.handler.tier # None THEN route.handler.tier
    ELSE IF route.class.tier # None THEN route.class.tier ELSE "org"

declarationOn(marks) ==
    CASE marks.capability # None /\ marks.any -> "conflict"
      [] marks.capability = "" /\ ~marks.any -> "invalid"
      [] marks.capability \notin {None, ""} /\ ~marks.any -> "capability"
      [] marks.capability = None /\ marks.any -> "any-active-member"
      [] OTHER -> "none"

\* The level whose marks count: the handler's, unless it has none.
readDeclaration(route) ==
    IF declarationOn(route.handler) = "none" THEN route.class ELSE route.handler

\* The table of what every org-scoped route of the application requires.
ROUTE_CAPABILITIES ==
    [manage_org_settings |->
        {<<"PATCH", "org">>, <<"PUT", "tax-profile">>, <<"POST", "tax-profile/reveal">>},
     manage_members |->
        {<<"GET", "members">>, <<"PATCH", "member">>, <<"DELETE", "member">>,
         <<"GET", "invitations">>, <<"POST", "invitations">>,
         <<"POST", "invitation/link">>, <<"DELETE", "invitation">>}]

\* The routes of the application every active member may use.
ANY_ACTIVE_MEMBER_ROUTES ==
    {<<"DELETE", "membership">>} \union {<<"GET", "org">>, <<"GET", "roles">>}

\* HEAD requires what GET requires.
capabilityLookupMethod(verb) == IF verb = "HEAD" THEN "GET" ELSE verb

\* What the table requires for a route: at most one capability.
capabilityForRoute(verb, path) ==
    {c \in DOMAIN ROUTE_CAPABILITIES :
        <<capabilityLookupMethod(verb), path>> \in ROUTE_CAPABILITIES[c]}

\* Routes with a wildcard are not compiled and so never match.
compilePath(route) == IF route.wildcard THEN {} ELSE route.paths

matchVerb(verb, path) ==
    {tierOf(route) : route \in
        {s \in Range(Routes) : path \in compilePath(s) /\ s.verb \in {verb, "ALL"}}}

\* The tier the middleware assumes.  HEAD falls back to GET when nothing claims
\* it; routes that disagree leave the tier unknown.
match(verb, path) ==
    LET direct == matchVerb(verb, path)
        tiers == IF direct = {} /\ verb = "HEAD" THEN matchVerb("GET", path) ELSE direct
    IN  IF Cardinality(tiers) = 1 THEN CHOOSE t \in tiers : TRUE ELSE "unknown"

\* External: Express serves the first registered handler that fits.
Serves(route, verb, path) ==
    /\ path \in route.paths
    /\ route.verb \in {verb, "ALL"} \/ (verb = "HEAD" /\ route.verb = "GET")
Dispatch(verb, path) ==
    CHOOSE n \in DOMAIN Routes :
        /\ Serves(Routes[n], verb, path)
        /\ \A k \in 1 .. n - 1 : ~Serves(Routes[k], verb, path)

\* Some handler fits every call (any other is answered 404).
ASSUME CallsAssumption ==
    \A call \in Calls : \E n \in DOMAIN Routes : Serves(Routes[n], call.verb, call.path)

\* What the declaration of a handler and the table say of its route agree.
FollowsTable(marks, verb, path) ==
    /\ declarationOn(marks) = "capability" => capabilityForRoute(verb, path) = {marks.capability}
    /\ declarationOn(marks) = "any-active-member" =>
         /\ capabilityForRoute(verb, path) = {}
         /\ <<capabilityLookupMethod(verb), path>> \in ANY_ACTIVE_MEMBER_ROUTES

\* They do for every handler the middleware takes for one of an organization.
ASSUME TableAssumption ==
    \A call \in Calls :
        match(call.verb, call.path) = "org" =>
            FollowsTable(readDeclaration(Routes[Dispatch(call.verb, call.path)]),
                         call.verb, call.path)

-----------------------------------------------------------------------------
\* History: the roles a user holds right now, by organization.
RolesNow(m, user) ==
    {held \in Orgs \X RoleIds : m[held[1]][user] = [status |-> "active", role |-> held[2]]}

\* Roles the user of the request q had at some moment since the request arrived.
HeldIn(q, o) == {role \in RoleIds : <<o, role>> \in q.held}

\* What an ended request leaves: the answer, and its route if it was about an
\* organization its user was never a member of meanwhile.
Answer(r, code) ==
    req' = [req EXCEPT ![r] =
              [pc |-> "done", answer |-> code,
               outside |-> IF @.org # None /\ HeldIn(@, @.org) = {} THEN @.route ELSE None]]

\* Contention, whether a service has wrapped the error (OrgBusyError) or the
\* database's own reached the filter, is one conflict to the client.
ORG_BUSY_ERROR_CODE == "CONFLICT"
describeOrgBusy(exception) ==
    IF exception.kind \in {"busy", "lock_timeout"} THEN ORG_BUSY_ERROR_CODE ELSE None

\* The exception filter: a typed error keeps its code, contention on a lock is a
\* conflict, anything else (the seam's refusals too) is internal.
catch(exception) ==
    CASE exception.kind = "domain" -> exception.code
      [] exception.kind # "domain" /\ describeOrgBusy(exception) # None ->
            describeOrgBusy(exception)
      [] OTHER -> "INTERNAL"
Domain(code) == catch([kind |-> "domain", code |-> code])

\* An access token: whose it is, what it is for, and whether its signature and
\* its age are good (the library's verdict).
sign(user) == [sub |-> user, typ |-> "access", good |-> TRUE]

\* The user of a bearer token, None for no token and for one of another type.
verify(token) ==
    IF token # None /\ token.good /\ token.typ = "access" THEN token.sub ELSE None

\* The middleware up to the membership read.  The header and the path must agree
\* before anything else is looked at; without a token no row is read.
use(r, call) ==
    LET tier == match(call.verb, call.path)
        user == verify(call.token)
        org == IF call.header # None THEN call.header ELSE call.param
        outcome == CASE tier # "org" -> "skipped"
                     [] tier = "org" /\ {call.header, call.param} \subseteq Orgs
                            /\ call.header # call.param -> "mismatch"
                     [] OTHER -> IF None \in {org, user} THEN "none" ELSE "lookup"
    IN  /\ req[r].pc = "idle"
        /\ req' = [req EXCEPT ![r] =
              [pc |-> IF outcome = "lookup" THEN "lookup" ELSE "guards",
               route |-> Dispatch(call.verb, call.path),
               key |-> <<call.verb, call.path>>,
               user |-> user, routeTier |-> tier, orgOutcome |-> outcome,
               org |-> IF outcome = "lookup" THEN org ELSE None,
               ctx |-> None, queries |-> 0, touched |-> {},
               held |-> IF user = None THEN {} ELSE RolesNow(member, user)]]
        /\ UNCHANGED <<rows, member, changes>>

\* The membership read: no cache, so it is the row of this moment.  An active
\* member gets a context with a copy of the role's capabilities.
resolveOrgScoped(r) ==
    LET m == member[req[r].org][req[r].user]
        outcome == IF m = None THEN "no_membership"
                   ELSE IF m.status = "active" THEN "ok"
                   ELSE IF m.status = "revoked" THEN "revoked" ELSE "not_active"
    IN  /\ req[r].pc = "lookup"
        /\ req' = [req EXCEPT ![r].pc = "guards", ![r].orgOutcome = outcome,
                              ![r].ctx = IF outcome # "ok" THEN None
                                  ELSE [organizationId |-> req[r].org,
                                        capabilities |-> roleCapabilities[m.role]]]
        /\ UNCHANGED <<rows, member, changes>>

LookupFails(r) ==
    /\ req[r].pc = "lookup"
    /\ Answer(r, catch([kind |-> "unknown"]))
    /\ UNCHANGED <<rows, member, changes>>

-----------------------------------------------------------------------------
\* Mutant: whoever was removed is told so.
decideOrgScopedOpen(q) ==
    CASE q.user = None -> "UNAUTHENTICATED"
      [] q.user # None /\ q.orgOutcome = "ok" -> None
      [] q.user # None /\ q.orgOutcome = "none" -> "ORG_CONTEXT_REQUIRED"
      [] q.user # None /\ q.orgOutcome = "mismatch" -> "ORG_MISMATCH"
      [] q.user # None /\ q.orgOutcome = "no_membership" -> "ORG_ACCESS_DENIED"
      [] OTHER -> "FORBIDDEN"

\* OrgScopeGuard for an org-scoped route: the code it throws, None to go on.
decideOrgScoped(q) ==
    IF q.user = None THEN "UNAUTHENTICATED"
    ELSE CASE q.orgOutcome = "ok" -> None
           [] q.orgOutcome = "none" -> "ORG_CONTEXT_REQUIRED"
           [] q.orgOutcome = "mismatch" -> "ORG_MISMATCH"
           [] q.orgOutcome \in {"no_membership", "revoked", "not_active"} -> "ORG_ACCESS_DENIED"
           [] OTHER -> "INTERNAL"

\* The guard knows the tier of the handler for certain; where the middleware
\* assumed another one, or none for an org-scoped handler, nothing goes on.
OrgScopeGuard(q) ==
    LET tier == tierOf(Routes[q.route])
    IN  IF q.routeTier \notin {"unknown", tier} \/ (q.routeTier = "unknown" /\ tier = "org")
        THEN "INTERNAL"
        ELSE CASE tier = "public" -> None
               [] tier = "user" -> IF q.user = None THEN "UNAUTHENTICATED" ELSE None
               [] tier = "system" -> "FORBIDDEN"
               [] tier = "org" -> decideOrgScoped(q)

\* Mutant: a read without a declaration is open to every member.
CapabilityGuardReadsOpen(q) ==
    LET marks == readDeclaration(Routes[q.route])
        kind == declarationOn(marks)
    IN  IF tierOf(Routes[q.route]) # "org" THEN None
        ELSE CASE kind \in {"conflict", "invalid"} -> "INTERNAL"
               [] kind = "none" -> IF Routes[q.route].verb = "GET" THEN None ELSE "FORBIDDEN"
               [] OTHER ->
                    IF q.ctx = None THEN "INTERNAL"
                    ELSE IF kind = "any-active-member"
                            \/ hasCapability(q.ctx.capabilities, marks.capability)
                    THEN None ELSE "FORBIDDEN"

\* CapabilityGuard: an org-scoped handler must declare what it asks for, and the
\* context's copy of the capabilities must have it.
CapabilityGuard(q) ==
    LET marks == readDeclaration(Routes[q.route])
        kind == declarationOn(marks)
    IN  IF tierOf(Routes[q.route]) # "org" THEN None
        ELSE CASE kind \in {"conflict", "invalid"} -> "INTERNAL"
               [] kind = "none" -> "FORBIDDEN"
               [] OTHER ->
                    IF q.ctx = None THEN "INTERNAL"
                    ELSE IF kind = "any-active-member"
                            \/ hasCapability(q.ctx.capabilities, marks.capability)
                    THEN None ELSE "FORBIDDEN"

\* JwtAuthGuard, which handlers of public classes use: the same token, verified
\* once more.
JwtAuthGuard(q) ==
    IF Routes[q.route].jwt /\ q.user = None THEN "UNAUTHENTICATED" ELSE None

\* The guards run in this order; the first that throws answers.
canActivate(r) ==
    LET verdict == IF OrgScopeGuard(req[r]) # None THEN OrgScopeGuard(req[r])
                   ELSE IF CapabilityGuard(req[r]) # None THEN CapabilityGuard(req[r])
                   ELSE JwtAuthGuard(req[r])
    IN  /\ req[r].pc = "guards"
        /\ IF verdict = None THEN req' = [req EXCEPT ![r].pc = "handler"]
           ELSE Answer(r, Domain(verdict))
        /\ UNCHANGED <<rows, member, changes>>

-----------------------------------------------------------------------------
\* The client of the current context, looked up on every access; without a
\* context every query throws.
scopedClient(r, q) ==
    withOrgScope(q, IF req[r].ctx = None THEN None ELSE req[r].ctx.organizationId)

\* External: what the database does with a query.
Hits(q) ==
    {i \in Ids :
        /\ rows[i] # None
        /\ rows[i].model = q.model
        /\ q.where.key \in {None, i}
        /\ q.where.org = None \/ rows[i].org = q.where.org.org}

OrgOfPayload(p) ==
    IF p.org # None THEN p.org.org ELSE IF p.relation # None THEN p.relation.org ELSE None

\* A relation written in an update may bring the organization of the row it
\* points to; otherwise the row moves only if the payload names the column.
Updated(q, S) ==
    {[i \in Ids |-> IF i \in S THEN [rows[i] EXCEPT !.edited = TRUE, !.org = to] ELSE rows[i]] :
        to \in IF q.data.nested THEN Orgs
               ELSE IF q.data.org # None THEN {q.data.org.org}
               ELSE {rows[i].org : i \in S}}

Created(q) ==
    {[i \in Ids |-> IF \E k \in DOMAIN at : at[k] = i
                    THEN [model |-> q.model, edited |-> FALSE,
                          org |-> OrgOfPayload(q.create[CHOOSE k \in DOMAIN at : at[k] = i])]
                    ELSE rows[i]] :
        at \in {f \in [DOMAIN q.create -> {i \in Ids : rows[i] = None}] : IsInjective(f)}}

\* The states of the table after q; an upsert creates what it does not find, and
\* fails on a key that belongs to a row it may not see.
Effects(q) ==
    CASE q.operation \in Reads -> {rows}
      [] q.operation \in Deletes -> {[i \in Ids |-> IF i \in Hits(q) THEN None ELSE rows[i]]}
      [] q.operation \in Creates -> Created(q)
      [] q.operation \in Updates ->
            IF Hits(q) # {} THEN Updated(q, Hits(q))
            ELSE IF q.operation # "upsert" \/ rows[q.where.key] # None THEN {rows}
            ELSE Created(q)

\* The organizations of the rows a query returned, changed, removed or wrote.
Touched(q, after) ==
    LET changed == {i \in Ids : after[i] # rows[i]}
        reached == changed \union (IF q.operation \in Creates THEN {} ELSE Hits(q))
    IN  {row.org : row \in {t[i] : t \in {rows, after}, i \in reached} \ {None}} \ {None}

\* A handler's query: refused by the seam, failing on contention, or performed.
Query(r, q) ==
    LET scoped == scopedClient(r, q)
    IN  /\ req[r].pc = "handler" /\ req[r].queries < MaxQueries
        /\ UNCHANGED <<member, changes>>
        /\ \/ /\ \E k \in IF scoped = Refused THEN {"unknown"} ELSE {"busy", "lock_timeout"} :
                    Answer(r, catch([kind |-> k]))
              /\ UNCHANGED rows
           \/ /\ scoped # Refused
              /\ \E after \in Effects(scoped) :
                    /\ rows' = after
                    /\ req' = [req EXCEPT ![r].queries = @ + 1,
                                          ![r].touched = @ \union Touched(scoped, after)]

Respond(r) ==
    /\ req[r].pc = "handler"
    /\ Answer(r, "OK")
    /\ UNCHANGED <<rows, member, changes>>

\* External to the pipeline: somebody changes, ends or starts a membership.
ChangeMember(o, u, m) ==
    /\ changes < MaxChanges
    /\ member[o][u] # m
    /\ member' = [member EXCEPT ![o][u] = m]
    /\ changes' = changes + 1
    /\ req' = [r \in Requests |->
          IF InFlight(r) /\ req[r].user = u
          THEN [req[r] EXCEPT !.held = @ \union RolesNow(member', u)] ELSE req[r]]
    /\ UNCHANGED rows

Next ==
    \/ \E r \in Requests :
          \/ \E call \in Calls : use(r, call)
          \/ resolveOrgScoped(r) \/ LookupFails(r)
          \/ canActivate(r)
          \/ \E q \in Queries : Query(r, q)
          \/ Respond(r)
    \/ \E pair \in Moving, m \in Membership : ChangeMember(pair[1], pair[2], m)

Spec == Init /\ [][Next]_vars

-----------------------------------------------------------------------------
\* Types of the tables and of what a request in flight has found out.
TypeOK ==
    /\ rows \in [Ids -> Row \union {None}]
    /\ member \in [Orgs -> [Users -> Membership \union {None}]]
    /\ changes \in 0 .. MaxChanges
    /\ \A r \in Requests :
          /\ req[r].pc \in {"idle", "lookup", "guards", "handler", "done"}
          /\ InFlight(r) =>
                /\ req[r].touched \subseteq Orgs
                /\ req[r].orgOutcome \in OrgAuthOutcome \union {"lookup"}
                /\ req[r].routeTier \in AssumedRouteTier

\* Every row a request reads, changes, creates or removes belongs to the one
\* organization it asked for, its user was an active member there at some moment
\* since it arrived (a removal counts from the next request on), and a row it
\* changed did not come from or go to another organization.
Confined ==
    /\ TypeOK
    /\ \A r \in Requests :
          InFlight(r) /\ req[r].touched # {} =>
              req[r].touched = {req[r].org} /\ HeldIn(req[r], req[r].org) # {}

\* A handler about an organization runs only when the middleware had recognised it
\* as such, and when it or its class declares whom it is for and the caller was
\* that since the request arrived; the table of routes asks for nothing else.  No
\* back-office handler runs at all, and one that names a user only with a token.
Served(q) ==
    LET route == Routes[q.route]
        marks == readDeclaration(route)
        kind == declarationOn(marks)
    IN  /\ tierOf(route) # "system"
        /\ tierOf(route) = "user" \/ route.jwt => q.user # None
        /\ tierOf(route) # "org" => q.ctx = None
        /\ tierOf(route) = "org" =>
             /\ kind \in {"capability", "any-active-member"}
             /\ \E role \in HeldIn(q, q.ctx.organizationId) :
                  \A c \in capabilityForRoute(q.key[1], q.key[2])
                            \union (IF kind = "capability" THEN {marks.capability} ELSE {}) :
                      hasCapability(roleCapabilities[role], c)
             /\ capabilityForRoute(q.key[1], q.key[2]) = {} =>
                  <<capabilityLookupMethod(q.key[1]), q.key[2]>> \in ANY_ACTIVE_MEMBER_ROUTES

\* No handler runs that is not Served.
ServedAsDeclared == \A r \in Requests : req[r].pc = "handler" => Served(req[r])

\* The answer does not tell organizations apart that the caller never belonged to
\* while asking: one that does not exist, one of strangers and one that removed
\* the caller are refused alike.
SameRefusal ==
    \A r, s \in Requests :
        LET Outside(t) == req[t].pc = "done" /\ req[t].outside # None /\ req[t].answer # "INTERNAL"
        IN  Outside(r) /\ Outside(s) /\ req[r].outside = req[s].outside =>
                req[r].answer = req[s].answer

\* Rows of a ledger are only ever added: no query of a handler changes or removes one.
LedgerStands ==
    \A i \in Ids : rows[i] # None /\ rows[i].model \in LEDGER_MODELS => rows'[i] = rows[i]

\* Every step of the requests obeys LedgerStands.
LedgerAppendOnly == [][LedgerStands]_vars
=============================================================================
