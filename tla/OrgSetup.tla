------------------------------ MODULE OrgSetup ------------------------------
(***************************************************************************)
(* Organizations outside the organization lock: OrgProvisioningService     *)
(* creates one in a transaction, MyOrganizationsService and MembersService *)
(* list memberships page by page, OrgProfileService and TaxProfileService  *)
(* read and write the row of an organization.  Requests interleave, die,   *)
(* and run while memberships change.                                       *)
(*                                                                         *)
(*   create:  count -> plan -> tx ... -> emit                              *)
(*   lists:   page, once per request of the client, until there is no next *)
(*   put:     write -> view;   get: view (parallel reads) -> viewed        *)
(*   reveal:  reveal -> revealed                                            *)
(***************************************************************************)
EXTENDS Integers, FiniteSets, Sequences, SequencesExt, TLC

CONSTANTS
    Users, OrgIds,      \* numbers: ids are compared by the lists
    Creators,           \* bound of the model: users who create organizations
    BusyOrgs,           \* bound of the model: organizations whose members change and
                        \* whose profile is used
    RealNumbers,        \* tax numbers as they were issued
    Requests,
    Kinds,              \* the handlers that are called
    MAX_ORGS_PER_USER,
    PageSize,           \* ?limit of the lists
    TaxBodies,          \* bodies of PUT tax-profile
    NewOrgs,            \* bodies of POST organizations
    Patches,            \* bodies of PATCH organization
    Timezones,          \* the time zones the runtime knows
    MaxTime,            \* bound of the model: clock
    MaxWrites,          \* bound of the model: writes to the row of an organization
    None

ASSUME SetupAssumption ==
    /\ Users \subseteq Nat /\ OrgIds \subseteq Nat
    /\ Creators \subseteq Users /\ BusyOrgs \subseteq OrgIds
    /\ PageSize \in Nat \ {0}
    /\ MAX_ORGS_PER_USER \in Nat /\ MaxTime \in Nat /\ MaxWrites \in Nat
    /\ None \notin Users \union OrgIds /\ None # "valid" /\ None \notin Seq(0 .. 9)

VARIABLES
    shops,      \* Organization and what belongs to it: id -> shop or None
    member,     \* Membership: id -> user -> row or None
    now,
    seeded,     \* is there a PlanDefinition of the default plan?
    req

vars == <<shops, member, now, seeded, req>>

Idle == [pc |-> "idle"]

-----------------------------------------------------------------------------
\* Numbers with thirteen digits; the last one checks the others.  Digits are
\* counted from 0 as in the code; the i-th weighs 13 - i.
Digit(d, i) == d[i + 1]
WeightedSum(d) ==
    13 * d[1] + 12 * d[2] + 11 * d[3] + 10 * d[4] + 9 * d[5] + 8 * d[6] + 7 * d[7]
        + 6 * d[8] + 5 * d[9] + 4 * d[10] + 3 * d[11] + 2 * d[12]

\* Mutant: the remainder itself, without taking it from eleven.
checkDigitPlain(d) == (WeightedSum(d) % 11) % 10

checkDigit(d) == (11 - (WeightedSum(d) % 11)) % 10

\* What was typed: digits, with or without separators between them.
normalizeThaiTaxId(typed) == typed.digits

isValidThaiTaxId(typed) ==
    LET d == normalizeThaiTaxId(typed)
    IN  /\ Len(d) = 13
        /\ \E i \in 1 .. 13 : d[i] # d[1]
        /\ d[13] = checkDigit(d)

\* A field is None, "invalid", or what it should be; a number is what was typed.
Field == {None, "valid", "invalid"}
TaxForms == [entity : Field, vat : Field, branch : Field,
             taxId : [digits : Seq(0 .. 9), separated : BOOLEAN] \union {None}]

ASSUME TaxAssumption == TaxBodies \subseteq TaxForms

\* The columns of the tax profile.
TaxRow == [entity : Field, vat : Field, branch : Field, taxId : Seq(0 .. 9) \union {None}]

TAX_PROFILE_CLEARED == [entity |-> None, taxId |-> None, vat |-> None, branch |-> None]

\* All of entity type, number and VAT status, with a branch code or without, or
\* nothing at all.
validateTaxProfilePut(body) ==
    \/ \A f \in DOMAIN body : body[f] = None
    \/ /\ body.entity = "valid" /\ body.vat = "valid"
       /\ body.taxId # None /\ isValidThaiTaxId(body.taxId)
       /\ body.branch \in {None, "valid"}

\* The columns to write.
TaxProfileWrite(body) ==
    [entity |-> body.entity, vat |-> body.vat, branch |-> body.branch,
     taxId |-> IF body.taxId = None THEN None ELSE normalizeThaiTaxId(body.taxId)]

\* The mask: the last four digits remain, nothing of a number that is no longer
\* than that.
TAX_ID_MASK_CHAR == -1
TAX_ID_VISIBLE_SUFFIX_LENGTH == 4
maskTaxId(d) ==
    LET hidden == IF Len(d) > TAX_ID_VISIBLE_SUFFIX_LENGTH
                  THEN Len(d) - TAX_ID_VISIBLE_SUFFIX_LENGTH ELSE Len(d)
    IN  [i \in 1 .. Len(d) |-> IF i <= hidden THEN TAX_ID_MASK_CHAR ELSE d[i]]
Visible(masked) == Cardinality({i \in DOMAIN masked : masked[i] # TAX_ID_MASK_CHAR})

isTaxProfileComplete(t) == None \notin {t.entity, t.taxId, t.vat}

\* Mutant: everybody sees the whole of it.
toTaxProfileViewOpen(t, manages) ==
    IF t = TAX_PROFILE_CLEARED THEN {} ELSE {"vat", "entity", "masked", "branch"}

\* What the viewer gets of the tax profile: VAT status for everybody, the entity
\* type and the last digits for those who manage the settings.
toTaxProfileView(t, manages) ==
    IF t = TAX_PROFILE_CLEARED THEN {}
    ELSE IF manages THEN {"vat", "entity", "masked", "branch"} ELSE {"vat"}

\* Names are told apart by their trimmed length; one that is not a string has the
\* length NotAString.  A field that was not sent is None.
ORG_NAME_MIN_LENGTH == 1
ORG_NAME_MAX_LENGTH == 120
NotAString == -1
validateOrgName(name) ==
    name # None /\ name \in ORG_NAME_MIN_LENGTH .. ORG_NAME_MAX_LENGTH

ORG_DEFAULT_TIMEZONE == "Asia/Bangkok"
supportedTimezones == IF Timezones = {} THEN {ORG_DEFAULT_TIMEZONE} ELSE Timezones
isSupportedTimezone(zone) == zone \in supportedTimezones

\* The runtime's table of time zones, if it has one, knows Bangkok.
ASSUME ZoneAssumption == isSupportedTimezone(ORG_DEFAULT_TIMEZONE)

\* The time zone of a new organization, None when a field is refused.  A time zone
\* that was not sent, or sent as null, is the default.
validateNewOrganization(body) ==
    LET zone == IF body.timezone \in {None, "null"} THEN ORG_DEFAULT_TIMEZONE ELSE body.timezone
    IN  IF validateOrgName(body.name)
           /\ (isSupportedTimezone(zone) \/ body.timezone \in {None, "null"})
        THEN zone ELSE None

\* The columns a patch writes, or a refusal: every field that was sent must be
\* good, and null is good for the logo alone, which takes nothing else.
validateOrgProfilePatch(body) ==
    LET sent == {f \in DOMAIN body : body[f] # None}
        good == {f \in sent : CASE f = "name" -> validateOrgName(body.name)
                                [] f = "logo" -> body.logo = "null"
                                [] f = "timezone" -> isSupportedTimezone(body.timezone)}
    IN  [ok |-> good = sent, columns |-> good]

-----------------------------------------------------------------------------
CreatedBy(u) == {o \in OrgIds : shops[o] # None /\ shops[o].creator = u}
ActiveIn(o, u) == member[o][u] # None /\ member[o][u].status = "active"
ManagesIn(table, o, u) ==
    table[o][u] # None /\ table[o][u].status = "active" /\ table[o][u].manages
Manages(o, u) == ManagesIn(member, o, u)

Init ==
    /\ shops = [o \in OrgIds |-> None]
    /\ member = [o \in OrgIds |-> [u \in Users |-> None]]
    /\ now = 0
    /\ seeded \in BOOLEAN
    /\ req = [r \in Requests |-> Idle]

\* Mutant: the shops a user belongs to are counted, not those the user created.
createdOrgCountByMembership(u) == Cardinality({o \in OrgIds : ActiveIn(o, u)})

createdOrgCount(u) == Cardinality(CreatedBy(u))

isOrgCapReached(count, limit) == count >= limit

\* The controller and the count of step 1, without a lock.
create(r, u, body) ==
    /\ req[r].pc = "idle" /\ "create" \in Kinds
    /\ u \in Creators /\ validateNewOrganization(body) # None
    /\ ~isOrgCapReached(createdOrgCount(u), MAX_ORGS_PER_USER)
    /\ req' = [req EXCEPT ![r] = [pc |-> "plan", user |-> u,
                                  timezone |-> validateNewOrganization(body)]]
    /\ UNCHANGED <<shops, member, now, seeded>>

\* Step 2: without the plan nothing is written.
resolveForNewOrg(r) ==
    /\ req[r].pc = "plan"
    /\ IF seeded
       THEN \E o \in OrgIds :
              /\ shops[o] = None /\ \A s \in Requests : req[s].pc = "tx" => req[s].org # o
              /\ req' = [req EXCEPT ![r] = [pc |-> "tx", user |-> @.user, org |-> o, timezone |-> @.timezone,
                                            parts |-> {}, at |-> None]]
       ELSE req' = [req EXCEPT ![r] = Idle]
    /\ UNCHANGED <<shops, member, now, seeded>>

\* The roles of a new shop, with the capabilities this module asks for.
SYSTEM_ROLE_BLUEPRINT ==
    [owner |-> {"full_access"}, admin |-> {"manage_org_settings"}, staff |-> {}]
ownerRoleBlueprint ==
    CHOOSE k \in DOMAIN SYSTEM_ROLE_BLUEPRINT : "full_access" \in SYSTEM_ROLE_BLUEPRINT[k]

\* Rows of the transaction, in the order they are written; the roles in a loop.
Statements == <<"organization", "roles", "membership", "entitlement", "warehouse">>
Written(r) == Cardinality(req[r].parts)

ShopRow == [creator : Users, timezone : supportedTimezones, parts : SUBSET Range(Statements),
            tax : TaxRow, ver : Nat]
MembershipRow == [status : {"active", "revoked"}, manages : BOOLEAN, at : Nat]

ASSUME RowsAssumption == None \notin ShopRow /\ None \notin MembershipRow

NewShop(u, timezone, parts) ==
    [creator |-> u, timezone |-> timezone, parts |-> parts,
     tax |-> TAX_PROFILE_CLEARED, ver |-> 0]
Owner(at) ==
    [status |-> "active", at |-> at,
     manages |-> SYSTEM_ROLE_BLUEPRINT[ownerRoleBlueprint]
                    \intersect {"full_access", "manage_org_settings"} # {}]

\* Mutant: no transaction; every statement is visible at once.
TxStatementVisible(r) ==
    LET part == Statements[Written(r) + 1]
    IN  /\ req[r].pc = "tx" /\ Written(r) < Len(Statements)
        /\ req' = [req EXCEPT ![r].parts = @ \union {part},
                              ![r].at = IF part = "membership" THEN now ELSE @]
        /\ shops' = [shops EXCEPT ![req[r].org] =
                        NewShop(req[r].user, req[r].timezone, req[r].parts \union {part})]
        /\ UNCHANGED <<member, now, seeded>>

\* Step 3: one statement, seen by nobody else before the commit.
TxStatement(r) ==
    LET part == Statements[Written(r) + 1]
    IN  /\ req[r].pc = "tx" /\ Written(r) < Len(Statements)
        /\ req' = [req EXCEPT ![r].parts = @ \union {part},
                              ![r].at = IF part = "membership" THEN now ELSE @]
        /\ UNCHANGED <<shops, member, now, seeded>>

\* History: a listing of one's organizations notes that its user joined o.
Joined(q, o, u) ==
    IF q.kind = "myOrganizations" /\ q.user = u THEN [q EXCEPT !.belonged = @ \union {o}] ELSE q

TxCommit(r) ==
    /\ req[r].pc = "tx" /\ Written(r) = Len(Statements)
    /\ shops' = [shops EXCEPT ![req[r].org] = NewShop(req[r].user, req[r].timezone, req[r].parts)]
    /\ member' = [member EXCEPT ![req[r].org][req[r].user] = Owner(req[r].at)]
    /\ req' = [s \in Requests |->
          CASE s = r -> [pc |-> "emit", user |-> req[s].user, org |-> req[s].org]
            [] s # r /\ req[s].pc = "page" -> Joined(req[s], req[r].org, req[r].user)
            [] OTHER -> req[s]]
    /\ UNCHANGED <<now, seeded>>

\* Step 4, after the commit: org.created is announced, then the answer is sent.
emitCreated(r) ==
    /\ req[r].pc = "emit"
    /\ req' = [req EXCEPT ![r].pc = "created"]
    /\ UNCHANGED <<shops, member, now, seeded>>

\* An error, a timeout or a crash: an open transaction is rolled back, and what
\* the request had not done stays undone.
Die(r) ==
    /\ req[r].pc \notin {"idle", "created", "listed", "viewed", "revealed"}
    /\ req' = [req EXCEPT ![r] = Idle]
    /\ UNCHANGED <<shops, member, now, seeded>>

-----------------------------------------------------------------------------
(***************************************************************************)
(* Lists.  A row is listed by <createdAt, id>, newest first; the cursor is *)
(* the position of the last row of the page before.                        *)
(***************************************************************************)
Position == [at : Nat, id : Nat]

ASSUME PositionAssumption == None \notin Position

Passes(all, m) == m # None /\ (all \/ m.status = "active")

\* The rows of a listing: memberships of the user, or of the organization.
Listable(table, q) ==
    IF q.kind = "myOrganizations"
    THEN {[at |-> table[o][q.user].at, id |-> o] :
            o \in {x \in OrgIds : Passes(q.all, table[x][q.user])}}
    ELSE {[at |-> table[q.org][u].at, id |-> u] :
            u \in {x \in Users : Passes(q.all, table[q.org][x])}}

\* Mutant: the position of a row is its date alone.
PrecedesByDate(a, b) == a.at < b.at

Precedes(a, b) == a.at < b.at \/ (a.at = b.at /\ a.id < b.id)

\* One row more than asked for is fetched; it tells whether there is a next page.
paginate(rows, limit) ==
    IF Len(rows) <= limit THEN [items |-> rows, nextCursor |-> None]
    ELSE [items |-> SubSeq(rows, 1, limit), nextCursor |-> rows[limit]]

\* What a listed organization is shown with: the role and the plan go to members only.
toMyOrganizationItem(o, u) == IF ActiveIn(o, u) THEN "full" ELSE "short"
InFull(q, items) ==
    {o \in OrgIds : /\ q.kind = "myOrganizations"
                    /\ \E i \in ToSet(items) : i.id = o
                    /\ toMyOrganizationItem(o, q.user) = "full"}

\* The rows of S, newest first: ids differ, so there is one such sequence.
NewestFirst(S) ==
    {s \in [1 .. Cardinality(S) -> S] :
        /\ \A x \in S : \E i \in DOMAIN s : s[i] = x
        /\ \A i, j \in DOMAIN s :
              i < j => s[j].at < s[i].at \/ (s[j].at = s[i].at /\ s[j].id < s[i].id)}

\* Bound of the model: one listing at a time, and not while a profile is used.
\* Listings only read, and only memberships, which the profiles do not write: what
\* a listing shows does not depend on the others.
NoListing == \A r \in Requests : req[r].pc \notin {"page", "listed"}
NoProfile == \A r \in Requests : req[r].pc \notin {"view", "viewed", "reveal", "revealed"}

\* A client starts a listing: of its own organizations (o is None) or of the members of o.
startList(r, kind, u, o, all) ==
    LET q == [pc |-> "page", kind |-> kind, user |-> u, org |-> o, all |-> all,
              cursor |-> None, seen |-> <<>>, full |-> {}, stable |-> {},
              belonged |-> {x \in OrgIds : o = None /\ ActiveIn(x, u)}]
    IN  /\ req[r].pc = "idle" /\ kind \in Kinds /\ NoListing /\ NoProfile
        /\ kind = "members" => Manages(o, u)
        /\ req' = [req EXCEPT ![r] = [q EXCEPT !.stable = Listable(member, q)]]
        /\ UNCHANGED <<shops, member, now, seeded>>

\* One request of the listing.  The pipeline refuses a lister who lost the right.
list(r) ==
    LET q == req[r]
        after == {x \in Listable(member, q) : q.cursor # None => Precedes(x, q.cursor)}
        take == IF Cardinality(after) > PageSize THEN PageSize + 1 ELSE Cardinality(after)
    IN  /\ q.pc = "page"
        /\ IF q.kind = "members" /\ ~Manages(q.org, q.user)
           THEN req' = [req EXCEPT ![r] = Idle]
           ELSE \E rows \in NewestFirst(after) :
                  LET page == paginate(SubSeq(rows, 1, take), PageSize)
                  IN  req' = [req EXCEPT ![r].seen = @ \o page.items, ![r].cursor = page.nextCursor,
                                         ![r].full = @ \union InFull(q, page.items),
                                         ![r].pc = IF page.nextCursor = None THEN "listed" ELSE @]
        /\ UNCHANGED <<shops, member, now, seeded>>

-----------------------------------------------------------------------------
(***************************************************************************)
(* Profile and tax profile.  A request arrives with a context: its user is *)
(* an active member, and manages the settings where the route asks for it. *)
(***************************************************************************)
View(u, o, mine) ==
    [pc |-> "view", user |-> u, org |-> o, mine |-> mine, allowed |-> Manages(o, u),
     tax |-> None, ver |-> None, manages |-> None]

get(r, u, o) ==
    /\ req[r].pc = "idle" /\ "get" \in Kinds /\ ActiveIn(o, u) /\ NoListing
    /\ req' = [req EXCEPT ![r] = View(u, o, 0)]
    /\ UNCHANGED <<shops, member, now, seeded>>

\* buildView reads in parallel: the row of the organization ...
readOrganization(r) ==
    /\ req[r].pc = "view" /\ req[r].ver = None
    /\ req' = [req EXCEPT ![r].tax = shops[req[r].org].tax, ![r].ver = shops[req[r].org].ver]
    /\ UNCHANGED <<shops, member, now, seeded>>

\* ... and the caller's membership with its role, whatever its status.
readMembership(r) ==
    /\ req[r].pc = "view" /\ req[r].manages = None
    /\ req' = [req EXCEPT ![r].manages = member[req[r].org][req[r].user].manages]
    /\ UNCHANGED <<shops, member, now, seeded>>

toOrgProfileView(r) ==
    /\ req[r].pc = "view" /\ None \notin {req[r].ver, req[r].manages}
    /\ req' = [req EXCEPT ![r] =
          [pc |-> "viewed", shown |-> toTaxProfileView(@.tax, @.manages),
           digits |-> IF "masked" \in toTaxProfileView(@.tax, @.manages)
                      THEN Visible(maskTaxId(@.tax.taxId)) ELSE 0,
           complete |-> isTaxProfileComplete(@.tax), allowed |-> @.allowed,
           ver |-> @.ver, mine |-> @.mine]]
    /\ UNCHANGED <<shops, member, now, seeded>>

\* PATCH and PUT: the update is one statement on the row.
Update(o, shop) == shops' = [shops EXCEPT ![o] = [shop EXCEPT !.ver = @ + 1]]
CanWrite(r, u, o) ==
    req[r].pc = "idle" /\ Manages(o, u) /\ shops[o].ver < MaxWrites /\ NoListing

\* An empty patch writes nothing; the answer is the profile either way.
update(r, u, o, body) ==
    /\ CanWrite(r, u, o) /\ "patch" \in Kinds
    /\ validateOrgProfilePatch(body).ok
    /\ IF validateOrgProfilePatch(body).columns = {} THEN UNCHANGED shops
       ELSE Update(o, IF "timezone" \in validateOrgProfilePatch(body).columns
                      THEN [shops[o] EXCEPT !.timezone = body.timezone] ELSE shops[o])
    /\ req' = [req EXCEPT ![r] = View(u, o, shops'[o].ver)]
    /\ UNCHANGED <<member, now, seeded>>

\* Mutant: the answer is read while the update is under way.
setUnawaited(r, u, o, body) ==
    /\ CanWrite(r, u, o) /\ "put" \in Kinds /\ validateTaxProfilePut(body)
    /\ Update(o, [shops[o] EXCEPT !.tax = TaxProfileWrite(body)])
    /\ req' = [req EXCEPT ![r] = [View(u, o, shops'[o].ver) EXCEPT
                    !.tax = shops[o].tax, !.ver = shops[o].ver]]
    /\ UNCHANGED <<member, now, seeded>>

\* All four columns are written, then the profile is read.  (The event of the
\* change decides nothing and is left out.)
set(r, u, o, body) ==
    /\ CanWrite(r, u, o) /\ "put" \in Kinds /\ validateTaxProfilePut(body)
    /\ Update(o, [shops[o] EXCEPT !.tax = TaxProfileWrite(body)])
    /\ req' = [req EXCEPT ![r] = View(u, o, shops'[o].ver)]
    /\ UNCHANGED <<member, now, seeded>>

\* The number is read; without one there is nothing to answer.  The event of the
\* reveal is emitted before the answer leaves, in the same turn.
reveal(r, u, o) ==
    /\ req[r].pc = "idle" /\ "reveal" \in Kinds /\ NoListing
    /\ Manages(o, u)
    /\ req' = [req EXCEPT ![r] = [pc |-> "reveal", org |-> o]]
    /\ UNCHANGED <<shops, member, now, seeded>>

toTaxProfileReveal(r) ==
    /\ req[r].pc = "reveal"
    /\ req' = [req EXCEPT ![r] =
          IF shops[@.org].tax.taxId = None THEN Idle ELSE [pc |-> "revealed"]]
    /\ UNCHANGED <<shops, member, now, seeded>>

-----------------------------------------------------------------------------
Finish(r) ==
    /\ req[r].pc \in {"created", "listed", "viewed", "revealed"}
    /\ req' = [req EXCEPT ![r] = Idle]
    /\ UNCHANGED <<shops, member, now, seeded>>

\* External to this module (see OrgRegister): a membership starts, ends, starts
\* again or changes its role; somebody who manages remains.
ChangeMember(o, u, status, manages) ==
    LET m == member[o][u]
        row == [status |-> status, manages |-> manages, at |-> IF m = None THEN now ELSE m.at]
        after == [member EXCEPT ![o][u] = row]
    IN  /\ shops[o] # None /\ row # m
        /\ status = "revoked" => ActiveIn(o, u) /\ manages = m.manages
        /\ \E v \in Users : ManagesIn(after, o, v)
        /\ member' = after
        /\ req' = [r \in Requests |->
              CASE req[r].pc = "page" ->
                      [IF status = "active" THEN Joined(req[r], o, u) ELSE req[r]
                          EXCEPT !.stable = @ \intersect Listable(after, req[r])]
                [] req[r].pc = "view" ->
                      [req[r] EXCEPT !.allowed = @ \/ ManagesIn(after, req[r].org, req[r].user)]
                [] OTHER -> req[r]]
        /\ UNCHANGED <<shops, now, seeded>>

Tick ==
    /\ now < MaxTime /\ now' = now + 1
    /\ UNCHANGED <<shops, member, seeded, req>>

\* External: the seed runs.
Seed ==
    /\ ~seeded /\ seeded' = TRUE
    /\ UNCHANGED <<shops, member, now, req>>

Next ==
    \/ \E r \in Requests, u \in Users :
          \/ \E body \in NewOrgs : create(r, u, body)
          \/ \E all \in BOOLEAN :
                \/ startList(r, "myOrganizations", u, None, all)
                \/ \E o \in BusyOrgs : startList(r, "members", u, o, all)
          \/ \E o \in BusyOrgs :
                \/ get(r, u, o) \/ reveal(r, u, o)
                \/ \E body \in Patches : update(r, u, o, body)
                \/ \E body \in TaxBodies : set(r, u, o, body)
    \/ \E r \in Requests :
          \/ resolveForNewOrg(r) \/ TxStatement(r) \/ TxCommit(r) \/ emitCreated(r)
          \/ list(r)
          \/ readOrganization(r) \/ readMembership(r) \/ toOrgProfileView(r)
          \/ toTaxProfileReveal(r)
          \/ Die(r) \/ Finish(r)
    \/ \E o \in BusyOrgs, u \in Users, st \in {"active", "revoked"}, mg \in BOOLEAN :
          ChangeMember(o, u, st, mg)
    \/ Tick \/ Seed

Spec == Init /\ [][Next]_vars

-----------------------------------------------------------------------------
\* Types; rows are never dated in the future.
TypeOK ==
    /\ now \in 0 .. MaxTime /\ seeded \in BOOLEAN
    /\ shops \in [OrgIds -> ShopRow \union {None}]
    /\ member \in [OrgIds -> [Users -> MembershipRow \union {None}]]
    /\ \A o \in OrgIds, u \in Users : member[o][u] # None => member[o][u].at <= now

\* Nobody creates more shops than the cap allows plus one for every other request
\* that was counting at the same time; losing a membership gives nothing back.
CapNearlyHolds ==
    /\ TypeOK
    /\ \A u \in Users :
          Cardinality(CreatedBy(u)) <= MAX_ORGS_PER_USER + Cardinality(Requests) - 1

\* A tax profile is declared in full or not at all, and is shown as such.
TaxProfileWhole ==
    /\ \A o \in OrgIds : shops[o] # None =>
          shops[o].tax = TAX_PROFILE_CLEARED \/ isTaxProfileComplete(shops[o].tax)
    /\ \A r \in Requests : req[r].pc = "viewed" => (req[r].complete <=> req[r].shown # {})

\* A shop that can be seen is usable: its roles, entitlement and warehouse are
\* there, its days have a time zone the runtime knows, its creator has a membership
\* and somebody manages it, whatever died on the way; its tax profile is declared in full or not at all, and shown as such;
\* and org.created was announced for no other.
ShopsWhole ==
    /\ TaxProfileWhole
    /\ \A o \in OrgIds : shops[o] # None =>
          /\ shops[o].parts = {Statements[i] : i \in 1 .. Len(Statements)}
          /\ isSupportedTimezone(shops[o].timezone)
          /\ member[o][shops[o].creator] # None
          /\ \E u \in Users : Manages(o, u)
    /\ \A r \in Requests :
          req[r].pc = "created" => shops[req[r].org] # None /\ shops[req[r].org].creator = req[r].user

\* A listing shows every row that was listable from its first page to its last,
\* and no row twice, though rows appear, vanish and come back between the pages.
ListingExact ==
    \A r \in Requests :
        req[r].pc \in {"page", "listed"} =>
            /\ IsInjective(req[r].seen)
            /\ req[r].pc = "listed" => req[r].stable \subseteq ToSet(req[r].seen)

\* The entity type and the digits are shown only to somebody who managed the
\* settings at some moment since the request arrived, although the row and the
\* role are read by separate statements; and never more than the last four digits.
\* The list of one's organizations has the role and the plan of those alone one
\* belonged to at some moment since it was started.
ViewWithinRights ==
    \A r \in Requests :
        /\ req[r].pc \in {"page", "listed"} => req[r].full \subseteq req[r].belonged
        /\ req[r].pc = "viewed" =>
              /\ req[r].shown \ {"vat"} # {} => req[r].allowed
              /\ req[r].digits <= TAX_ID_VISIBLE_SUFFIX_LENGTH

\* Whoever changed the profile gets an answer at least as new as the change.
ReadsOwnWrite == \A r \in Requests : req[r].pc = "viewed" => req[r].ver >= req[r].mine

\* Where two numbers differ, and whether the check digit cannot tell them apart:
\* the third digit weighs eleven, and remainders zero and ten give the same check.
Differ(d, n) == {i \in 0 .. 12 : Digit(n, i) # Digit(d, i)}
Blind(d, n) ==
    Differ(d, n) = {2} \/ {WeightedSum(d) % 11, WeightedSum(n) % 11} = {0, 10}

\* A number with one wrong digit is stored only where the algorithm cannot tell.
TyposCaught ==
    \A o \in BusyOrgs :
        LET d == shops[o].tax.taxId
        IN  shops[o] # None /\ d # None => d \in RealNumbers \/ \E n \in RealNumbers :
                Cardinality(Differ(d, n)) = 1 /\ Blind(d, n)

\* What TyposCaught supposes of those who type: a number of the right length is an
\* issued one or has one wrong digit.
OneTypo ==
    \A body \in TaxBodies : body.taxId # None /\ Len(body.taxId.digits) = 13 =>
        \/ body.taxId.digits \in RealNumbers
        \/ \E n \in RealNumbers : Cardinality(Differ(body.taxId.digits, n)) = 1
=============================================================================
