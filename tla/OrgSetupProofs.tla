-------------------------- MODULE OrgSetupProofs --------------------------
(***************************************************************************)
(* Theorems about OrgSetup, for every set of users, organizations and      *)
(* requests, every body of a request and every value of the bounds.        *)
(***************************************************************************)
EXTENDS OrgSetup, FiniteSetTheorems, SequenceTheorems, TLAPS

-----------------------------------------------------------------------------
(***************************************************************************)
(* What a request carries, by the place it has reached.                    *)
(***************************************************************************)
\* The rows a transaction has written: the first k of its statements.
Prefix(k) == {Statements[i] : i \in 1 .. k}
Progresses == {Prefix(k) : k \in 0 .. Len(Statements)}

\* Declared in full or not at all.
Whole(t) == t = TAX_PROFILE_CLEARED \/ isTaxProfileComplete(t)

Planning == [pc : {"plan"}, user : Users, timezone : supportedTimezones]
Creating == [pc : {"tx"}, user : Users, org : OrgIds, timezone : supportedTimezones,
             parts : Progresses, at : Nat \union {None}]
Announcing == [pc : {"emit", "created"}, user : Users, org : OrgIds]
Viewing == [pc : {"view"}, user : Users, org : OrgIds, mine : Nat, allowed : BOOLEAN,
            tax : TaxRow \union {None}, ver : Nat \union {None},
            manages : BOOLEAN \union {None}]
Answering == [pc : {"viewed"}, shown : SUBSET {"vat", "entity", "masked", "branch"},
              digits : 0 .. TAX_ID_VISIBLE_SUFFIX_LENGTH, complete : BOOLEAN,
              allowed : BOOLEAN, ver : Nat, mine : Nat]
Revealing == [pc : {"reveal"}, org : OrgIds] \union [pc : {"revealed"}]

\* A listing, of whose rows and cursor nothing is said here.
ListingFields == {"pc", "kind", "user", "org", "all", "cursor", "seen", "full", "stable",
                  "belonged"}
IsListing(q) ==
    /\ q = [f \in ListingFields |-> q[f]]
    /\ q.pc \in {"page", "listed"} /\ q.user \in Users
    /\ q.full \subseteq q.belonged

HasForm(q) ==
    \/ q \in {Idle} \union Planning \union Creating \union Announcing
    \/ q \in Viewing \union Answering \union Revealing
    \/ IsListing(q)

-----------------------------------------------------------------------------
(***************************************************************************)
(* The inductive invariant.                                                *)
(***************************************************************************)
\* A visible shop is whole, its creator belongs to it, somebody manages it.
ShopSound(o) ==
    /\ shops[o].parts = Prefix(Len(Statements))
    /\ Whole(shops[o].tax)
    /\ member[o][shops[o].creator] # None
    /\ \E u \in Users : Manages(o, u)

ShopsSound ==
    /\ \A o \in OrgIds : shops[o] # None => ShopSound(o)
    /\ \A o \in OrgIds, u \in Users : member[o][u] # None => shops[o] # None

\* A transaction makes a shop that is not there yet; its membership is dated.
\* (Here S stands for shops, M for member and t for now.)
TxSound(q, S, t) ==
    q.pc = "tx" => /\ S[q.org] = None
                   /\ "membership" \in q.parts => q.at \in 0 .. t

\* An announced shop is there, with its creator.
Announced(q, S) ==
    q.pc \in {"emit", "created"} => S[q.org] # None /\ S[q.org].creator = q.user

\* A view: its shop is there and no older than its own write; a role that manages,
\* even one of a revoked membership, was held since the request arrived.
ViewSound(q, S, M) ==
    q.pc = "view" =>
        /\ S[q.org] # None /\ q.mine <= S[q.org].ver
        /\ M[q.org][q.user] # None
        /\ M[q.org][q.user].manages => q.allowed
        /\ q.manages # None => (q.manages => q.allowed)
        /\ q.ver # None => q.tax \in TaxRow /\ Whole(q.tax) /\ q.mine <= q.ver

Shown(q) ==
    q.pc = "viewed" => /\ q.complete <=> q.shown # {}
                       /\ q.shown \ {"vat"} # {} => q.allowed
                       /\ q.mine <= q.ver

RevealSound(q, S) == q.pc = "reveal" => S[q.org] # None

\* While a listing goes on, the organizations its user belongs to are recorded.
ActiveBy(M, o, u) == M[o][u] # None /\ M[o][u].status = "active"
ListingSound(q, M) ==
    q.pc = "page" /\ q.kind = "myOrganizations" =>
        \A o \in OrgIds : ActiveBy(M, o, q.user) => o \in q.belonged

Sound(q, S, M, t) ==
    /\ HasForm(q)
    /\ TxSound(q, S, t) /\ Announced(q, S) /\ ViewSound(q, S, M) /\ Shown(q)
    /\ RevealSound(q, S) /\ ListingSound(q, M)

\* No two transactions make the same shop.
TxApart ==
    \A r, s \in Requests : req[r].pc = "tx" /\ req[s].pc = "tx" /\ req[r].org = req[s].org => r = s

IInv ==
    /\ TypeOK
    /\ ShopsSound
    /\ req = [r \in Requests |-> req[r]]
    /\ \A r \in Requests : Sound(req[r], shops, member, now)
    /\ TxApart

\* The shops a user has, and those under way.
Pending(u) == {r \in Requests : req[r].pc \in {"plan", "tx"} /\ req[r].user = u}

CapBound ==
    \A u \in Users :
        Cardinality(CreatedBy(u)) + Cardinality(Pending(u))
            <= MAX_ORGS_PER_USER + Cardinality(Requests) - 1

-----------------------------------------------------------------------------
\* The place a request has reached tells what it carries.
LEMMA FormByPlace ==
    ASSUME NEW q, HasForm(q)
    PROVE  /\ q.pc = "plan" => q \in Planning
           /\ q.pc = "tx" => q \in Creating
           /\ q.pc \in {"emit", "created"} => q \in Announcing
           /\ q.pc = "view" => q \in Viewing
           /\ q.pc = "viewed" => q \in Answering
           /\ q.pc = "reveal" => q.org \in OrgIds
           /\ q.pc \in {"page", "listed"} => IsListing(q)
<1>1. CASE q \in {Idle}
  BY <1>1 DEF Idle
<1>2. CASE q \in Planning
  BY <1>2 DEF Planning
<1>3. CASE q \in Creating
  BY <1>3 DEF Creating
<1>4. CASE q \in Announcing
  BY <1>4 DEF Announcing
<1>5. CASE q \in Viewing
  BY <1>5 DEF Viewing
<1>6. CASE q \in Answering
  BY <1>6 DEF Answering
<1>7. CASE q \in Revealing
  BY <1>7 DEF Revealing
<1>8. CASE IsListing(q)
  BY <1>8 DEF IsListing
<1> QED
  BY <1>1, <1>2, <1>3, <1>4, <1>5, <1>6, <1>7, <1>8 DEF HasForm

\* One request moves, the tables stay.
LEMMA OneRequestMoves ==
    ASSUME IInv, NEW r \in Requests, NEW new, req' = [req EXCEPT ![r] = new],
           Sound(new, shops, member, now),
           UNCHANGED <<shops, member, now>>, seeded' \in BOOLEAN,
           new.pc = "tx" => \A s \in Requests \ {r} :
                               req[s].pc = "tx" => req[s].org # new.org
    PROVE  IInv'
<1>1. /\ req' = [q \in Requests |-> req'[q]] /\ req'[r] = new
      /\ \A q \in Requests \ {r} : req'[q] = req[q]
  BY DEF IInv
<1>2. TypeOK' /\ ShopsSound'
  BY DEF IInv, TypeOK, ShopsSound, ShopSound, Manages, ManagesIn
<1>3. \A q \in Requests : Sound(req'[q], shops', member', now')
  BY <1>1 DEF IInv
<1>4. TxApart'
  BY <1>1 DEF IInv, TxApart
<1> QED
  BY <1>1, <1>2, <1>3, <1>4 DEF IInv

-----------------------------------------------------------------------------
(***************************************************************************)
(* Creating a shop.                                                        *)
(***************************************************************************)
\* A request that does nothing, or waits for its plan, is sound.
LEMMA IdleSound == Sound(Idle, shops, member, now)
BY DEF Sound, HasForm, Idle, TxSound, Announced, ViewSound, Shown, RevealSound, ListingSound

LEMMA CreateKeeps ==
    ASSUME IInv, NEW r \in Requests, NEW u \in Users, NEW body \in NewOrgs, create(r, u, body)
    PROVE  IInv'
<1> DEFINE zone == validateNewOrganization(body)
           new == [pc |-> "plan", user |-> u, timezone |-> zone]
<1>1. zone \in supportedTimezones
  BY ZoneAssumption DEF create, validateNewOrganization, isSupportedTimezone
<1>2. req' = [req EXCEPT ![r] = new] /\ UNCHANGED <<shops, member, now, seeded>>
  BY DEF create
<1> HIDE DEF zone
<1>3. new \in Planning /\ new.pc = "plan"
  BY <1>1 DEF Planning
<1> HIDE DEF new
<1>4. Sound(new, shops, member, now)
  BY <1>3 DEF Sound, HasForm, TxSound, Announced, ViewSound, Shown, RevealSound, ListingSound
<1> QED
  BY <1>2, <1>3, <1>4, OneRequestMoves DEF IInv, TypeOK

LEMMA PlanKeeps ==
    ASSUME IInv, NEW r \in Requests, resolveForNewOrg(r)
    PROVE  IInv'
<1>1. req[r] \in Planning /\ UNCHANGED <<shops, member, now, seeded>>
  BY FormByPlace DEF resolveForNewOrg, IInv, Sound
<1>2. CASE req' = [req EXCEPT ![r] = Idle]
  BY <1>1, <1>2, IdleSound, OneRequestMoves DEF IInv, TypeOK, Idle
<1>3. CASE \E o \in OrgIds :
              /\ shops[o] = None /\ \A s \in Requests : req[s].pc = "tx" => req[s].org # o
              /\ req' = [req EXCEPT ![r] = [pc |-> "tx", user |-> @.user, org |-> o,
                                            timezone |-> @.timezone, parts |-> {}, at |-> None]]
  <2>1. PICK o \in OrgIds :
              /\ shops[o] = None /\ \A s \in Requests : req[s].pc = "tx" => req[s].org # o
              /\ req' = [req EXCEPT ![r] = [pc |-> "tx", user |-> @.user, org |-> o,
                                            timezone |-> @.timezone, parts |-> {}, at |-> None]]
    BY <1>3
  <2> DEFINE new == [pc |-> "tx", user |-> req[r].user, org |-> o,
                     timezone |-> req[r].timezone, parts |-> {}, at |-> None]
  <2>2. req' = [req EXCEPT ![r] = new]
    BY <2>1 DEF IInv
  <2>3. {} \in Progresses
    <3>1. Prefix(0) = {} /\ 0 \in 0 .. Len(Statements)
      BY DEF Prefix, Statements
    <3> QED
      BY <3>1 DEF Progresses
  <2>4. new \in Creating /\ new.pc = "tx" /\ new.org = o /\ new.parts = {}
    BY <1>1, <2>3 DEF Creating, Planning
  <2> HIDE DEF new
  <2>5. Sound(new, shops, member, now)
    BY <2>1, <2>4 DEF Sound, HasForm, TxSound, Announced, ViewSound, Shown, RevealSound, ListingSound
  <2> QED
    BY <1>1, <2>1, <2>2, <2>4, <2>5, OneRequestMoves DEF IInv, TypeOK
<1> QED
  BY <1>2, <1>3 DEF resolveForNewOrg

\* One element more.
LEMMA OneMore ==
    ASSUME NEW S, NEW T, NEW x, NEW n \in Nat, IsFiniteSet(S), Cardinality(S) = n,
           T = S \union {x}, x \notin S
    PROVE  IsFiniteSet(T) /\ Cardinality(T) = n + 1
BY FS_AddElement

\* The statements, one by one.
LEMMA PrefixGrows ==
    ASSUME NEW k \in 0 .. Len(Statements)
    PROVE  /\ IsFiniteSet(Prefix(k)) /\ Cardinality(Prefix(k)) = k
           /\ k < Len(Statements) => Prefix(k) \union {Statements[k + 1]} = Prefix(k + 1)
<1>1. /\ Prefix(0) = {} /\ Len(Statements) = 5
      /\ Prefix(1) = Prefix(0) \union {"organization"} /\ "organization" \notin Prefix(0)
      /\ Prefix(2) = Prefix(1) \union {"roles"} /\ "roles" \notin Prefix(1)
      /\ Prefix(3) = Prefix(2) \union {"membership"} /\ "membership" \notin Prefix(2)
      /\ Prefix(4) = Prefix(3) \union {"entitlement"} /\ "entitlement" \notin Prefix(3)
      /\ Prefix(5) = Prefix(4) \union {"warehouse"} /\ "warehouse" \notin Prefix(4)
  BY DEF Prefix, Statements
<1>2. IsFiniteSet(Prefix(0)) /\ Cardinality(Prefix(0)) = 0
  BY <1>1, FS_EmptySet
<1>3. IsFiniteSet(Prefix(1)) /\ Cardinality(Prefix(1)) = 0 + 1
  BY <1>1, <1>2, OneMore, 0 \in Nat
<1>4. IsFiniteSet(Prefix(2)) /\ Cardinality(Prefix(2)) = 1 + 1
  BY <1>1, <1>3, OneMore, 1 \in Nat
<1>5. IsFiniteSet(Prefix(3)) /\ Cardinality(Prefix(3)) = 2 + 1
  BY <1>1, <1>4, OneMore, 2 \in Nat
<1>6. IsFiniteSet(Prefix(4)) /\ Cardinality(Prefix(4)) = 3 + 1
  BY <1>1, <1>5, OneMore, 3 \in Nat
<1>7. IsFiniteSet(Prefix(5)) /\ Cardinality(Prefix(5)) = 4 + 1
  BY <1>1, <1>6, OneMore, 4 \in Nat
<1>8. k \in {0, 1, 2, 3, 4, 5}
  BY <1>1
<1>9. Statements[1] = "organization" /\ Statements[2] = "roles" /\ Statements[3] = "membership"
      /\ Statements[4] = "entitlement" /\ Statements[5] = "warehouse"
  BY DEF Statements
<1> QED
  BY <1>1, <1>2, <1>3, <1>4, <1>5, <1>6, <1>7, <1>8, <1>9

LEMMA StatementKeeps ==
    ASSUME IInv, NEW r \in Requests, TxStatement(r)
    PROVE  IInv'
<1> DEFINE part == Statements[Written(r) + 1]
           new == [req[r] EXCEPT !.parts = @ \union {part},
                                 !.at = IF part = "membership" THEN now ELSE @]
<1>1. req[r] \in Creating /\ UNCHANGED <<shops, member, now, seeded>> /\ now \in Nat
  BY FormByPlace DEF TxStatement, IInv, Sound, TypeOK
<1>2. PICK k \in 0 .. Len(Statements) : req[r].parts = Prefix(k)
  BY <1>1 DEF Creating, Progresses
<1>3. Written(r) = k /\ k < Len(Statements) /\ Len(Statements) = 5
  BY <1>2, PrefixGrows DEF TxStatement, Written, Statements
<1>4. req[r].parts \union {part} \in Progresses
  BY <1>2, <1>3, PrefixGrows DEF Progresses
<1>5. req' = [req EXCEPT ![r] = new]
  BY DEF TxStatement, IInv
<1> DEFINE wrote == req[r].parts \union {part}
           stamp == IF part = "membership" THEN now ELSE req[r].at
<1>6. stamp \in Nat \union {None} /\ ("membership" \in wrote => stamp \in 0 .. now)
  BY <1>1 DEF Creating, IInv, Sound, TxSound, TypeOK
<1> HIDE DEF part
<1>7. new \in Creating /\ new.pc = "tx" /\ new.org = req[r].org /\ new.parts = wrote
      /\ new.at = stamp
  BY <1>1, <1>4, <1>6 DEF Creating
<1> HIDE DEF new, wrote, stamp
<1>8. shops[req[r].org] = None
  BY <1>1 DEF IInv, Sound, TxSound, TxStatement
<1>9. Sound(new, shops, member, now)
  BY <1>6, <1>7, <1>8
  DEF Sound, HasForm, TxSound, Announced, ViewSound, Shown, RevealSound, ListingSound
<1>10. \A s \in Requests \ {r} : req[s].pc = "tx" => req[s].org # new.org
  BY <1>7 DEF IInv, TxApart, TxStatement
<1> QED
  BY <1>1, <1>5, <1>9, <1>10, OneRequestMoves DEF IInv, TypeOK

\* A request that lists nothing is not disturbed by shops that appear or get
\* newer, as long as it does not make them itself.
LEMMA NewerShops ==
    ASSUME TypeOK, NEW q, Sound(q, shops, member, now), NEW S, NEW M,
           \A p \in OrgIds : shops[p] # None =>
               /\ S[p] # None /\ S[p].creator = shops[p].creator
               /\ S[p].ver \in Nat /\ shops[p].ver <= S[p].ver
               /\ M[p] = member[p],
           q.pc # "page", q.pc = "tx" => S[q.org] = None
    PROVE  Sound(q, S, M, now)
<1>1. HasForm(q) /\ Shown(q) /\ ListingSound(q, M)
  BY DEF Sound, ListingSound
<1>2. TxSound(q, S, now)
  BY DEF Sound, TxSound
<1>3. Announced(q, S)
  BY FormByPlace DEF Sound, Announced, Announcing
<1>4. RevealSound(q, S)
  BY FormByPlace DEF Sound, RevealSound
<1>5. ViewSound(q, S, M)
  <2> SUFFICES ASSUME q.pc = "view" PROVE ViewSound(q, S, M)
    BY DEF ViewSound
  <2>1. q \in Viewing /\ shops[q.org] # None /\ q.mine <= shops[q.org].ver
    BY FormByPlace DEF Sound, ViewSound
  <2>2. q.org \in OrgIds /\ q.mine \in Nat /\ shops[q.org].ver \in Nat
    BY <2>1 DEF Viewing, TypeOK, ShopRow
  <2>3. q.mine <= S[q.org].ver
    BY <2>1, <2>2
  <2> QED
    BY <2>1, <2>2, <2>3 DEF Sound, ViewSound
<1> QED
  BY <1>1, <1>2, <1>3, <1>4, <1>5 DEF Sound

\* The creator's role manages the settings.
LEMMA OwnerManages ==
    ASSUME NEW at \in Nat
    PROVE  /\ Owner(at) \in MembershipRow /\ Owner(at) # None
           /\ Owner(at).status = "active" /\ Owner(at).manages /\ Owner(at).at = at
<1>1. DOMAIN SYSTEM_ROLE_BLUEPRINT = {"owner", "admin", "staff"}
      /\ SYSTEM_ROLE_BLUEPRINT["owner"] = {"full_access"}
  BY DEF SYSTEM_ROLE_BLUEPRINT
<1>2. "full_access" \in SYSTEM_ROLE_BLUEPRINT[ownerRoleBlueprint]
  BY <1>1 DEF ownerRoleBlueprint
<1> DEFINE mg == SYSTEM_ROLE_BLUEPRINT[ownerRoleBlueprint]
                    \intersect {"full_access", "manage_org_settings"} # {}
<1>3. mg = TRUE
  BY <1>2
<1>4. Owner(at) = [status |-> "active", at |-> at, manages |-> mg]
  BY DEF Owner
<1> HIDE DEF mg
<1>5. Owner(at) = [status |-> "active", at |-> at, manages |-> TRUE]
  BY <1>3, <1>4
<1>6. Owner(at) \in MembershipRow
  BY <1>5 DEF MembershipRow
<1>7. Owner(at).status = "active" /\ Owner(at).manages = TRUE /\ Owner(at).at = at
  BY <1>5
<1> QED
  BY <1>6, <1>7, RowsAssumption

\* What a listing notes when its user joins o.
LEMMA JoinedListing ==
    ASSUME NEW q, IsListing(q), NEW o, NEW u
    PROVE  /\ IsListing(Joined(q, o, u)) /\ Joined(q, o, u).pc = q.pc
           /\ Joined(q, o, u).kind = q.kind /\ Joined(q, o, u).user = q.user
           /\ q.belonged \subseteq Joined(q, o, u).belonged
           /\ q.kind = "myOrganizations" /\ q.user = u => o \in Joined(q, o, u).belonged
<1> DEFINE new == [q EXCEPT !.belonged = @ \union {o}]
<1>1. /\ new = [f \in ListingFields |-> new[f]]
      /\ new.belonged = q.belonged \union {o}
      /\ new.pc = q.pc /\ new.kind = q.kind /\ new.user = q.user /\ new.full = q.full
  BY DEF IsListing, ListingFields
<1> HIDE DEF new
<1>2. IsListing(new)
  BY <1>1 DEF IsListing
<1>3. Joined(q, o, u) = IF q.kind = "myOrganizations" /\ q.user = u THEN new ELSE q
  BY DEF Joined, new
<1> QED
  BY <1>1, <1>2, <1>3

\* A listing and nothing else.
LEMMA ListingAlone ==
    ASSUME NEW q, IsListing(q), NEW S, NEW M, NEW t, ListingSound(q, M)
    PROVE  Sound(q, S, M, t)
BY DEF Sound, HasForm, IsListing, TxSound, Announced, ViewSound, Shown, RevealSound

LEMMA CommitKeeps ==
    ASSUME IInv, NEW r \in Requests, TxCommit(r)
    PROVE  IInv'
<1> DEFINE o == req[r].org
           u == req[r].user
           shop == NewShop(u, req[r].timezone, req[r].parts)
           row == Owner(req[r].at)
<1>1. /\ req[r] \in Creating /\ shops[o] = None
      /\ UNCHANGED <<now, seeded>> /\ now \in Nat
      /\ "membership" \in req[r].parts => req[r].at \in 0 .. now
  BY FormByPlace DEF TxCommit, IInv, Sound, TxSound, TypeOK
<1>2. o \in OrgIds /\ u \in Users /\ req[r].timezone \in supportedTimezones
  BY <1>1 DEF Creating
<1>3. req[r].parts = Prefix(Len(Statements))
  <2>1. PICK k \in 0 .. Len(Statements) : req[r].parts = Prefix(k)
    BY <1>1 DEF Creating, Progresses
  <2>2. Cardinality(Prefix(k)) = k
    BY PrefixGrows
  <2> QED
    BY <2>1, <2>2 DEF TxCommit, Written
<1>4. /\ "membership" \in Prefix(Len(Statements))
      /\ Prefix(Len(Statements)) \in SUBSET Range(Statements)
  BY DEF Prefix, Statements, Range
<1>5. req[r].at \in Nat /\ req[r].at <= now
  BY <1>1, <1>3, <1>4
<1>6. row \in MembershipRow /\ row # None /\ row.status = "active" /\ row.manages /\ row.at <= now
  BY <1>5, OwnerManages
<1>7. TAX_PROFILE_CLEARED \in TaxRow
  BY DEF TAX_PROFILE_CLEARED, TaxRow, Field
<1>8. /\ shop \in ShopRow /\ shop # None /\ shop.creator = u /\ shop.ver = 0
      /\ shop.parts = Prefix(Len(Statements)) /\ shop.tax = TAX_PROFILE_CLEARED
  BY <1>2, <1>3, <1>4, <1>7, RowsAssumption DEF NewShop, ShopRow
<1>9. /\ shops' = [shops EXCEPT ![o] = shop]
      /\ member' = [member EXCEPT ![o][u] = row]
  BY DEF TxCommit
<1>10. req' = [s \in Requests |->
          CASE s = r -> [pc |-> "emit", user |-> req[s].user, org |-> req[s].org]
            [] s # r /\ req[s].pc = "page" -> Joined(req[s], o, u)
            [] OTHER -> req[s]]
  BY DEF TxCommit
<1> HIDE DEF shop, row
<1>11. /\ shops' \in [OrgIds -> ShopRow \union {None}] /\ shops'[o] = shop
       /\ \A p \in OrgIds \ {o} : shops'[p] = shops[p]
  BY <1>2, <1>8, <1>9 DEF IInv, TypeOK
<1>12. /\ member' \in [OrgIds -> [Users -> MembershipRow \union {None}]] /\ member'[o][u] = row
       /\ \A p \in OrgIds \ {o} : member'[p] = member[p]
       /\ \A v \in Users \ {u} : member'[o][v] = None
  BY <1>1, <1>2, <1>6, <1>9 DEF IInv, TypeOK, ShopsSound
<1>13. TypeOK'
  <2>1. ASSUME NEW p \in OrgIds, NEW v \in Users, member'[p][v] # None
        PROVE  member'[p][v].at <= now'
    <3>1. CASE p = o
      BY <1>1, <1>6, <1>12, <2>1, <3>1
    <3>2. CASE p # o
      BY <1>1, <1>12, <2>1, <3>2 DEF IInv, TypeOK
    <3> QED
      BY <3>1, <3>2
  <2> QED
    BY <1>1, <1>11, <1>12, <2>1 DEF IInv, TypeOK
<1>14. ShopsSound'
  <2>1. ASSUME NEW p \in OrgIds, shops'[p] # None
        PROVE  ShopSound(p)'
    <3>1. CASE p = o
      <4>1. ManagesIn(member', o, u)
        BY <1>6, <1>12 DEF ManagesIn
      <4>2. Whole(shop.tax)
        BY <1>8 DEF Whole
      <4> QED
        BY <1>2, <1>6, <1>8, <1>11, <1>12, <3>1, <4>1, <4>2 DEF ShopSound, Manages
    <3>2. CASE p # o
      BY <1>11, <1>12, <2>1, <3>2 DEF IInv, ShopsSound, ShopSound, Manages, ManagesIn
    <3> QED
      BY <3>1, <3>2
  <2>2. ASSUME NEW p \in OrgIds, NEW v \in Users, member'[p][v] # None
        PROVE  shops'[p] # None
    BY <1>8, <1>11, <1>12, <2>2 DEF IInv, ShopsSound
  <2> QED
    BY <2>1, <2>2 DEF ShopsSound
<1>15. ASSUME NEW s \in Requests
       PROVE  Sound(req'[s], shops', member', now')
  <2>1. CASE s = r
    <3> DEFINE new == [pc |-> "emit", user |-> u, org |-> o]
    <3>1. req'[s] = new
      BY <1>10, <2>1
    <3>2. new \in Announcing /\ new.pc = "emit" /\ new.user = u /\ new.org = o
      BY <1>2 DEF Announcing
    <3> HIDE DEF new
    <3>3. Sound(new, shops', member', now')
      BY <1>8, <1>11, <3>2
      DEF Sound, HasForm, TxSound, Announced, ViewSound, Shown, RevealSound, ListingSound
    <3> QED
      BY <3>1, <3>3
  <2>2. CASE s # r /\ req[s].pc = "page"
    <3>1. req'[s] = Joined(req[s], o, u) /\ IsListing(req[s]) /\ ListingSound(req[s], member)
      BY <1>10, <2>2, FormByPlace DEF IInv, Sound
    <3>2. req[s].user \in Users
      BY <3>1 DEF IsListing
    <3> DEFINE new == Joined(req[s], o, u)
    <3>3. /\ IsListing(new) /\ new.kind = req[s].kind /\ new.user = req[s].user
          /\ req[s].belonged \subseteq new.belonged
          /\ req[s].kind = "myOrganizations" /\ req[s].user = u => o \in new.belonged
      BY <3>1, JoinedListing
    <3> HIDE DEF new
    <3>4. ListingSound(new, member')
      BY <1>12, <2>2, <3>1, <3>2, <3>3 DEF ListingSound, ActiveBy
    <3> QED
      BY <3>1, <3>3, <3>4, ListingAlone DEF new
  <2>3. CASE s # r /\ req[s].pc # "page"
    <3>1. req'[s] = req[s] /\ Sound(req[s], shops, member, now)
      BY <1>10, <2>3 DEF IInv
    <3>2. req[s].pc = "tx" => shops'[req[s].org] = None
      <4> SUFFICES ASSUME req[s].pc = "tx" PROVE shops'[req[s].org] = None
        OBVIOUS
      <4>1. req[s] \in Creating /\ shops[req[s].org] = None
        BY <3>1, FormByPlace DEF Sound, TxSound
      <4>2. req[s].org # o /\ req[s].org \in OrgIds
        BY <2>3, <4>1 DEF IInv, TxApart, TxCommit, Creating
      <4> QED
        BY <1>11, <4>1, <4>2
    <3>3. \A p \in OrgIds : shops[p] # None =>
               /\ shops'[p] # None /\ shops'[p].creator = shops[p].creator
               /\ shops'[p].ver \in Nat /\ shops[p].ver <= shops'[p].ver
               /\ member'[p] = member[p]
      BY <1>1, <1>11, <1>12 DEF IInv, TypeOK, ShopRow
    <3> QED
      BY <1>1, <2>3, <3>1, <3>2, <3>3, NewerShops DEF IInv
  <2> QED
    BY <2>1, <2>2, <2>3
<1>16. TxApart'
  <2>1. ASSUME NEW s \in Requests, req'[s].pc = "tx"
        PROVE  req'[s] = req[s]
    <3>1. s # r
      BY <1>10, <2>1
    <3>2. req[s].pc # "page"
      <4> SUFFICES ASSUME req[s].pc = "page" PROVE FALSE
        OBVIOUS
      <4>1. req'[s] = Joined(req[s], o, u) /\ IsListing(req[s])
        BY <1>10, <3>1, FormByPlace DEF IInv, Sound
      <4> QED
        BY <2>1, <4>1, JoinedListing
    <3> QED
      BY <1>10, <3>1, <3>2
  <2> QED
    BY <2>1 DEF IInv, TxApart
<1>17. req' = [s \in Requests |-> req'[s]]
  BY <1>10
<1> QED
  BY <1>13, <1>14, <1>15, <1>16, <1>17 DEF IInv

LEMMA EmitKeeps ==
    ASSUME IInv, NEW r \in Requests, emitCreated(r)
    PROVE  IInv'
<1> DEFINE new == [req[r] EXCEPT !.pc = "created"]
<1>1. req[r] \in Announcing /\ UNCHANGED <<shops, member, now, seeded>> /\ Announced(req[r], shops)
  BY FormByPlace DEF emitCreated, IInv, Sound
<1>2. req' = [req EXCEPT ![r] = new]
  BY DEF emitCreated, IInv
<1>3. /\ new \in Announcing /\ new.pc = "created"
      /\ new.org = req[r].org /\ new.user = req[r].user
  BY <1>1 DEF Announcing
<1> HIDE DEF new
<1>4. Sound(new, shops, member, now)
  BY <1>1, <1>3
  DEF Sound, HasForm, TxSound, Announced, ViewSound, Shown, RevealSound, ListingSound, emitCreated
<1> QED
  BY <1>1, <1>2, <1>3, <1>4, OneRequestMoves DEF IInv, TypeOK

LEMMA EndKeeps ==
    ASSUME IInv, NEW r \in Requests, Die(r) \/ Finish(r)
    PROVE  IInv'
<1>1. req' = [req EXCEPT ![r] = Idle] /\ UNCHANGED <<shops, member, now, seeded>>
  BY DEF Die, Finish
<1> QED
  BY <1>1, IdleSound, OneRequestMoves DEF IInv, TypeOK, Idle

-----------------------------------------------------------------------------
(***************************************************************************)
(* Listings.                                                               *)
(***************************************************************************)
LEMMA StartListKeeps ==
    ASSUME IInv, NEW r \in Requests, NEW kind, NEW u \in Users, NEW o, NEW all,
           kind = "myOrganizations" => o = None, startList(r, kind, u, o, all)
    PROVE  IInv'
<1> DEFINE q == [pc |-> "page", kind |-> kind, user |-> u, org |-> o, all |-> all,
                 cursor |-> None, seen |-> <<>>, full |-> {}, stable |-> {},
                 belonged |-> {x \in OrgIds : o = None /\ ActiveIn(x, u)}]
           new == [q EXCEPT !.stable = Listable(member, q)]
<1>1. req' = [req EXCEPT ![r] = new] /\ UNCHANGED <<shops, member, now, seeded>>
  BY DEF startList
<1>2. /\ new = [f \in ListingFields |-> new[f]]
      /\ new.pc = "page" /\ new.kind = kind /\ new.user = u /\ new.full = {}
      /\ new.belonged = {x \in OrgIds : o = None /\ ActiveIn(x, u)}
  BY DEF ListingFields
<1> HIDE DEF new, q
<1>3. IsListing(new)
  BY <1>2 DEF IsListing
<1>4. ListingSound(new, member)
  BY <1>2 DEF ListingSound, ActiveBy, ActiveIn
<1>5. Sound(new, shops, member, now)
  BY <1>3, <1>4, ListingAlone
<1> QED
  BY <1>1, <1>2, <1>5, OneRequestMoves DEF IInv, TypeOK

\* The step of a listing, with its parts named: the rows left, those fetched, the
\* page made of them, and the request after it.
After(M, q) == {x \in Listable(M, q) : q.cursor # None => Precedes(x, q.cursor)}
Take(S) == IF Cardinality(S) > PageSize THEN PageSize + 1 ELSE Cardinality(S)
PageOf(S, rows) == paginate(SubSeq(rows, 1, Take(S)), PageSize)
Turned(q, page) ==
    [q EXCEPT !.seen = @ \o page.items, !.cursor = page.nextCursor,
              !.full = @ \union InFull(q, page.items),
              !.pc = IF page.nextCursor = None THEN "listed" ELSE @]

\* A request of a listing ends it or turns one page.
LEMMA ListMoves ==
    ASSUME IInv, NEW r \in Requests, list(r)
    PROVE  /\ UNCHANGED <<shops, member, now, seeded>> /\ req[r].pc = "page" /\ IsListing(req[r])
           /\ \/ req' = [req EXCEPT ![r] = Idle]
              \/ \E rows \in NewestFirst(After(member, req[r])) :
                    req' = [req EXCEPT ![r] = Turned(req[r], PageOf(After(member, req[r]), rows))]
<1>1. /\ UNCHANGED <<shops, member, now, seeded>> /\ req[r].pc = "page" /\ IsListing(req[r])
      /\ req = [s \in Requests |-> req[s]]
  BY FormByPlace DEF list, IInv, Sound
<1>2. CASE req' # [req EXCEPT ![r] = Idle]
  <2>1. PICK rows \in NewestFirst(After(member, req[r])) :
          req' = [req EXCEPT ![r].seen = @ \o PageOf(After(member, req[r]), rows).items,
                             ![r].cursor = PageOf(After(member, req[r]), rows).nextCursor,
                             ![r].full = @ \union InFull(req[r], PageOf(After(member, req[r]), rows).items),
                             ![r].pc = IF PageOf(After(member, req[r]), rows).nextCursor = None
                                       THEN "listed" ELSE @]
    BY <1>2 DEF list, After, PageOf, Take
  <2> DEFINE page == PageOf(After(member, req[r]), rows)
  <2>2. page = PageOf(After(member, req[r]), rows)
    OBVIOUS
  <2> HIDE DEF page
  <2>3. req' = [req EXCEPT ![r] = Turned(req[r], page)]
    BY <1>1, <2>1, <2>2 DEF Turned
  <2> QED
    BY <1>1, <2>2, <2>3
<1> QED
  BY <1>1, <1>2

\* A listing whose page was turned has the fields of a listing.
LEMMA TurnedForm ==
    ASSUME NEW q, IsListing(q), NEW page
    PROVE  Turned(q, page) = [f \in ListingFields |-> Turned(q, page)[f]]
BY DEF IsListing, ListingFields, Turned

\* What is shown in full is what the user belongs to at that moment.
LEMMA ListKeeps ==
    ASSUME IInv, NEW r \in Requests, list(r)
    PROVE  IInv'
<1>1. /\ UNCHANGED <<shops, member, now, seeded>> /\ IsListing(req[r])
      /\ ListingSound(req[r], member) /\ req[r].pc = "page"
  BY ListMoves DEF IInv, Sound
<1>2. CASE req' = [req EXCEPT ![r] = Idle]
  BY <1>1, <1>2, IdleSound, OneRequestMoves DEF IInv, TypeOK, Idle
<1>3. CASE req' # [req EXCEPT ![r] = Idle]
  <2>1. PICK page : req' = [req EXCEPT ![r] = Turned(req[r], page)]
    BY <1>3, ListMoves
  <2> DEFINE new == Turned(req[r], page)
  <2>2. /\ new = [f \in ListingFields |-> new[f]]
        /\ new.pc = IF page.nextCursor = None THEN "listed" ELSE req[r].pc
        /\ new.kind = req[r].kind /\ new.user = req[r].user
        /\ new.full = req[r].full \union InFull(req[r], page.items)
        /\ new.belonged = req[r].belonged
    <3>1. new = [f \in ListingFields |-> new[f]]
      BY <1>1, TurnedForm
    <3>2. /\ new.pc = IF page.nextCursor = None THEN "listed" ELSE req[r].pc
          /\ new.kind = req[r].kind /\ new.user = req[r].user
          /\ new.full = req[r].full \union InFull(req[r], page.items)
          /\ new.belonged = req[r].belonged
      BY <1>1 DEF Turned, IsListing, ListingFields
    <3> QED
      BY <3>1, <3>2
  <2> HIDE DEF new
  <2>3. InFull(req[r], page.items) \subseteq req[r].belonged
    BY <1>1 DEF InFull, toMyOrganizationItem, ListingSound, ActiveBy, ActiveIn
  <2>4. IsListing(new) /\ new.pc # "tx"
    BY <1>1, <2>2, <2>3 DEF IsListing
  <2>5. ListingSound(new, member)
    BY <1>1, <2>2 DEF ListingSound
  <2>6. Sound(new, shops, member, now)
    BY <2>4, <2>5, ListingAlone
  <2> QED
    BY <1>1, <2>1, <2>4, <2>6, OneRequestMoves DEF IInv, TypeOK, new
<1> QED
  BY <1>2, <1>3

-----------------------------------------------------------------------------
(***************************************************************************)
(* Profile and tax profile.                                                *)
(***************************************************************************)
\* A view starts with nothing read.
LEMMA ViewStarts ==
    ASSUME TypeOK, NEW u \in Users, NEW o \in OrgIds, NEW mine \in Nat, NEW S,
           ActiveIn(o, u), S[o] # None, mine <= S[o].ver
    PROVE  /\ View(u, o, mine).pc = "view"
           /\ Sound(View(u, o, mine), S, member, now)
<1> DEFINE new == View(u, o, mine)
<1>1. Manages(o, u) \in BOOLEAN
  BY DEF Manages, ManagesIn, ActiveIn, TypeOK, MembershipRow
<1>2. /\ new \in Viewing /\ new.pc = "view" /\ new.org = o /\ new.user = u
      /\ new.mine = mine /\ new.ver = None /\ new.manages = None
      /\ new.allowed = Manages(o, u)
  BY <1>1 DEF View, Viewing
<1> HIDE DEF new
<1>3. member[o][u] # None /\ (member[o][u].manages => Manages(o, u))
  BY DEF ActiveIn, Manages, ManagesIn
<1>4. ViewSound(new, S, member)
  BY <1>2, <1>3 DEF ViewSound
<1>5. Sound(new, S, member, now)
  BY <1>2, <1>4 DEF Sound, HasForm, TxSound, Announced, Shown, RevealSound, ListingSound
<1> QED
  BY <1>2, <1>5 DEF new

LEMMA GetKeeps ==
    ASSUME IInv, NEW r \in Requests, NEW u \in Users, NEW o \in OrgIds, get(r, u, o)
    PROVE  IInv'
<1>1. ActiveIn(o, u) /\ shops[o] # None /\ 0 <= shops[o].ver /\ TypeOK
  BY DEF get, IInv, ShopsSound, ActiveIn, TypeOK, ShopRow
<1>2. View(u, o, 0).pc = "view" /\ Sound(View(u, o, 0), shops, member, now)
  BY <1>1, ViewStarts
<1> QED
  BY <1>2, OneRequestMoves DEF get, IInv, TypeOK

LEMMA ReadOrganizationKeeps ==
    ASSUME IInv, NEW r \in Requests, readOrganization(r)
    PROVE  IInv'
<1> DEFINE shop == shops[req[r].org]
           new == [req[r] EXCEPT !.tax = shop.tax, !.ver = shop.ver]
<1>1. /\ UNCHANGED <<shops, member, now, seeded>> /\ req[r] \in Viewing
      /\ ViewSound(req[r], shops, member) /\ req[r].pc = "view"
  BY FormByPlace DEF readOrganization, IInv, Sound
<1>2. req' = [req EXCEPT ![r] = new]
  BY DEF readOrganization, IInv
<1>3. /\ shop.tax \in TaxRow /\ shop.ver \in Nat /\ Whole(shop.tax)
      /\ req[r].mine <= shop.ver
  BY <1>1 DEF Viewing, ViewSound, IInv, TypeOK, ShopRow, ShopsSound, ShopSound
<1> HIDE DEF shop
<1>4. /\ new \in Viewing /\ new.pc = "view" /\ new.org = req[r].org /\ new.user = req[r].user
      /\ new.mine = req[r].mine /\ new.allowed = req[r].allowed
      /\ new.manages = req[r].manages /\ new.tax = shop.tax /\ new.ver = shop.ver
  BY <1>1, <1>3 DEF Viewing
<1> HIDE DEF new
<1>5. ViewSound(new, shops, member)
  BY <1>1, <1>3, <1>4 DEF ViewSound
<1>6. Sound(new, shops, member, now)
  BY <1>4, <1>5 DEF Sound, HasForm, TxSound, Announced, Shown, RevealSound, ListingSound
<1> QED
  BY <1>1, <1>2, <1>4, <1>6, OneRequestMoves DEF IInv, TypeOK

LEMMA ReadMembershipKeeps ==
    ASSUME IInv, NEW r \in Requests, readMembership(r)
    PROVE  IInv'
<1> DEFINE mg == member[req[r].org][req[r].user].manages
           new == [req[r] EXCEPT !.manages = mg]
<1>1. /\ UNCHANGED <<shops, member, now, seeded>> /\ req[r] \in Viewing
      /\ ViewSound(req[r], shops, member) /\ req[r].pc = "view"
  BY FormByPlace DEF readMembership, IInv, Sound
<1>2. req' = [req EXCEPT ![r] = new]
  BY DEF readMembership, IInv
<1>3. mg \in BOOLEAN /\ (mg => req[r].allowed)
  BY <1>1 DEF Viewing, ViewSound, IInv, TypeOK, MembershipRow
<1> HIDE DEF mg
<1>4. /\ new \in Viewing /\ new.pc = "view" /\ new.org = req[r].org /\ new.user = req[r].user
      /\ new.mine = req[r].mine /\ new.allowed = req[r].allowed
      /\ new.manages = mg /\ new.tax = req[r].tax /\ new.ver = req[r].ver
  BY <1>1, <1>3 DEF Viewing
<1> HIDE DEF new
<1>5. ViewSound(new, shops, member)
  BY <1>1, <1>3, <1>4 DEF ViewSound
<1>6. Sound(new, shops, member, now)
  BY <1>4, <1>5 DEF Sound, HasForm, TxSound, Announced, Shown, RevealSound, ListingSound
<1> QED
  BY <1>1, <1>2, <1>4, <1>6, OneRequestMoves DEF IInv, TypeOK

\* The mask leaves four digits at most.
LEMMA MaskHides ==
    ASSUME NEW d \in Seq(0 .. 9)
    PROVE  Visible(maskTaxId(d)) \in 0 .. TAX_ID_VISIBLE_SUFFIX_LENGTH
<1> DEFINE n == Len(d)
           masked == maskTaxId(d)
           seen == {i \in DOMAIN masked : masked[i] # TAX_ID_MASK_CHAR}
<1>1. n \in Nat
  OBVIOUS
<1>2. seen \subseteq (n - 3) .. n
  BY <1>1 DEF maskTaxId, TAX_ID_MASK_CHAR, TAX_ID_VISIBLE_SUFFIX_LENGTH
<1> HIDE DEF seen, n
<1>3. IsFiniteSet((n - 3) .. n) /\ Cardinality((n - 3) .. n) = 4
  <2>1. n - 3 \in Int /\ n \in Int /\ ~(n - 3 > n) /\ n - (n - 3) + 1 = 4
    BY <1>1
  <2>2. /\ IsFiniteSet((n - 3) .. n)
        /\ Cardinality((n - 3) .. n) = IF n - 3 > n THEN 0 ELSE n - (n - 3) + 1
    BY <2>1, FS_Interval, Zenon
  <2> QED
    BY <2>1, <2>2
<1>4. IsFiniteSet(seen) /\ Cardinality(seen) <= 4
  <2>1. IsFiniteSet(seen) /\ Cardinality(seen) <= Cardinality((n - 3) .. n)
    BY <1>2, <1>3, FS_Subset, Zenon
  <2> QED
    BY <1>3, <2>1
<1>5. Cardinality(seen) \in Nat
  BY <1>4, FS_CardinalityType
<1> QED
  BY <1>4, <1>5 DEF Visible, seen, TAX_ID_VISIBLE_SUFFIX_LENGTH

LEMMA ViewKeeps ==
    ASSUME IInv, NEW r \in Requests, toOrgProfileView(r)
    PROVE  IInv'
<1> DEFINE t == req[r].tax
           mg == req[r].manages
           view == toTaxProfileView(t, mg)
           seen == IF "masked" \in view THEN Visible(maskTaxId(t.taxId)) ELSE 0
           whole == isTaxProfileComplete(t)
           new == [pc |-> "viewed", shown |-> view, digits |-> seen, complete |-> whole,
                   allowed |-> req[r].allowed, ver |-> req[r].ver, mine |-> req[r].mine]
<1>1. /\ UNCHANGED <<shops, member, now, seeded>> /\ req[r] \in Viewing
      /\ ViewSound(req[r], shops, member) /\ req[r].pc = "view"
      /\ req[r].ver # None /\ mg # None
  BY FormByPlace DEF toOrgProfileView, IInv, Sound
<1>2. req' = [req EXCEPT ![r] = new]
  BY DEF toOrgProfileView, IInv
<1>3. /\ t \in TaxRow /\ Whole(t) /\ req[r].mine <= req[r].ver
      /\ req[r].ver \in Nat /\ req[r].mine \in Nat
  BY <1>1 DEF ViewSound, Viewing
<1>4. mg \in BOOLEAN /\ req[r].allowed \in BOOLEAN /\ (mg => req[r].allowed)
  BY <1>1 DEF ViewSound, Viewing
<1>5. whole \in BOOLEAN /\ (whole <=> t # TAX_PROFILE_CLEARED)
  BY <1>3 DEF Whole, isTaxProfileComplete, TAX_PROFILE_CLEARED
<1> HIDE DEF t, mg, whole
<1>6. /\ view \in SUBSET {"vat", "entity", "masked", "branch"}
      /\ view # {} <=> t # TAX_PROFILE_CLEARED
      /\ view \ {"vat"} # {} => mg /\ t # TAX_PROFILE_CLEARED
  BY <1>4 DEF toTaxProfileView
<1> HIDE DEF view
<1>7. seen \in 0 .. TAX_ID_VISIBLE_SUFFIX_LENGTH
  <2>1. CASE "masked" \in view
    <3>1. whole
      BY <1>5, <1>6, <2>1
    <3>2. t.taxId \in Seq(0 .. 9)
      BY <1>3, <3>1 DEF whole, isTaxProfileComplete, TaxRow
    <3> QED
      BY <2>1, <3>2, MaskHides
  <2>2. CASE "masked" \notin view
    BY <2>2 DEF TAX_ID_VISIBLE_SUFFIX_LENGTH
  <2> QED
    BY <2>1, <2>2
<1> HIDE DEF seen
<1>8. /\ new \in Answering /\ new.pc = "viewed" /\ new.shown = view
      /\ new.allowed = req[r].allowed /\ new.ver = req[r].ver /\ new.mine = req[r].mine
  BY <1>3, <1>4, <1>5, <1>6, <1>7 DEF Answering
<1>9. new.complete = whole
  OBVIOUS
<1> HIDE DEF new
<1>10. Shown(new)
  <2>1. new.complete <=> new.shown # {}
    BY <1>5, <1>6, <1>8, <1>9
  <2>2. new.shown \ {"vat"} # {} => new.allowed
    BY <1>4, <1>6, <1>8
  <2> QED
    BY <1>3, <1>8, <2>1, <2>2 DEF Shown
<1>11. Sound(new, shops, member, now)
  BY <1>8, <1>10 DEF Sound, HasForm, TxSound, Announced, ViewSound, RevealSound, ListingSound
<1> QED
  BY <1>1, <1>2, <1>8, <1>11, OneRequestMoves DEF IInv, TypeOK

LEMMA RevealKeeps ==
    ASSUME IInv, NEW r \in Requests, NEW u \in Users, NEW o \in OrgIds, reveal(r, u, o)
    PROVE  IInv'
<1> DEFINE new == [pc |-> "reveal", org |-> o]
<1>1. shops[o] # None /\ UNCHANGED <<shops, member, now, seeded>>
  BY DEF reveal, Manages, ManagesIn, IInv, ShopsSound
<1>2. req' = [req EXCEPT ![r] = new]
  BY DEF reveal
<1>3. new \in Revealing /\ new.pc = "reveal" /\ new.org = o
  BY DEF Revealing
<1> HIDE DEF new
<1>4. Sound(new, shops, member, now)
  BY <1>1, <1>3 DEF Sound, HasForm, TxSound, Announced, ViewSound, Shown, RevealSound, ListingSound
<1> QED
  BY <1>1, <1>2, <1>3, <1>4, OneRequestMoves DEF IInv, TypeOK

LEMMA RevealedKeeps ==
    ASSUME IInv, NEW r \in Requests, toTaxProfileReveal(r)
    PROVE  IInv'
<1> DEFINE new == [pc |-> "revealed"]
<1>1. UNCHANGED <<shops, member, now, seeded>>
      /\ (req' = [req EXCEPT ![r] = Idle] \/ req' = [req EXCEPT ![r] = new])
  BY DEF toTaxProfileReveal
<1>2. CASE req' = [req EXCEPT ![r] = Idle]
  BY <1>1, <1>2, IdleSound, OneRequestMoves DEF IInv, TypeOK, Idle
<1>3. CASE req' = [req EXCEPT ![r] = new]
  <2>1. new \in Revealing /\ new.pc = "revealed"
    BY DEF Revealing
  <2> HIDE DEF new
  <2>2. Sound(new, shops, member, now)
    BY <2>1 DEF Sound, HasForm, TxSound, Announced, ViewSound, Shown, RevealSound, ListingSound
  <2> QED
    BY <1>1, <1>3, <2>1, <2>2, OneRequestMoves DEF IInv, TypeOK
<1> QED
  BY <1>1, <1>2, <1>3

\* A write to the row of a shop: a newer version, then a view of it.
LEMMA WriteKeeps ==
    ASSUME IInv, NEW r \in Requests, NEW u \in Users, NEW o \in OrgIds, Manages(o, u),
           NEW shop \in ShopRow, Whole(shop.tax), shop.creator = shops[o].creator,
           shop.parts = shops[o].parts, shop.ver = shops[o].ver, Update(o, shop),
           req' = [req EXCEPT ![r] = View(u, o, shops'[o].ver)],
           UNCHANGED <<member, now, seeded>>
    PROVE  IInv'
<1> DEFINE newer == [shop EXCEPT !.ver = @ + 1]
<1>1. shops[o] # None /\ ActiveIn(o, u) /\ TypeOK /\ shops[o].ver \in Nat
  BY DEF Manages, ManagesIn, ActiveIn, IInv, ShopsSound, TypeOK, ShopRow
<1>2. /\ newer \in ShopRow /\ newer.tax = shop.tax /\ newer.creator = shops[o].creator
      /\ newer.parts = shops[o].parts /\ newer.ver = shops[o].ver + 1
  BY <1>1 DEF ShopRow
<1>3. newer # None
  BY <1>2, RowsAssumption
<1>4. shops' = [shops EXCEPT ![o] = newer]
  BY DEF Update
<1> HIDE DEF newer
<1>5. /\ shops' \in [OrgIds -> ShopRow \union {None}] /\ shops'[o] = newer
      /\ \A p \in OrgIds \ {o} : shops'[p] = shops[p]
  BY <1>1, <1>2, <1>4 DEF TypeOK
<1>6. TypeOK'
  BY <1>5 DEF IInv, TypeOK
<1>7. ShopsSound'
  <2>1. ASSUME NEW p \in OrgIds, shops'[p] # None
        PROVE  ShopSound(p)'
    <3>1. CASE p = o
      BY <1>1, <1>2, <1>5, <3>1 DEF IInv, ShopsSound, ShopSound, Manages, ManagesIn
    <3>2. CASE p # o
      BY <1>5, <2>1, <3>2 DEF IInv, ShopsSound, ShopSound, Manages, ManagesIn
    <3> QED
      BY <3>1, <3>2
  <2>2. ASSUME NEW p \in OrgIds, NEW v \in Users, member'[p][v] # None
        PROVE  shops'[p] # None
    BY <1>3, <1>5, <2>2 DEF IInv, ShopsSound
  <2> QED
    BY <2>1, <2>2 DEF ShopsSound
<1>8. /\ req' = [q \in Requests |-> req'[q]] /\ req'[r] = View(u, o, newer.ver)
      /\ \A q \in Requests \ {r} : req'[q] = req[q]
  BY <1>5 DEF IInv
<1>9. newer.ver \in Nat /\ newer.ver <= shops'[o].ver /\ shops'[o] # None
  BY <1>1, <1>2, <1>3, <1>5
<1>10. View(u, o, newer.ver).pc = "view" /\ Sound(View(u, o, newer.ver), shops', member, now)
  BY <1>1, <1>9, ViewStarts
<1>11. ASSUME NEW s \in Requests
       PROVE  Sound(req'[s], shops', member', now')
  <2>1. CASE s = r
    BY <1>8, <1>10, <2>1
  <2>2. CASE s # r /\ req[s].pc = "page"
    <3>1. req'[s] = req[s] /\ IsListing(req[s]) /\ ListingSound(req[s], member)
      BY <1>8, <2>2, FormByPlace DEF IInv, Sound
    <3> QED
      BY <3>1, ListingAlone
  <2>3. CASE s # r /\ req[s].pc # "page"
    <3>1. req'[s] = req[s] /\ Sound(req[s], shops, member, now)
      BY <1>8, <2>3 DEF IInv
    <3>2. req[s].pc = "tx" => shops'[req[s].org] = None
      <4> SUFFICES ASSUME req[s].pc = "tx" PROVE shops'[req[s].org] = None
        OBVIOUS
      <4>1. req[s] \in Creating /\ shops[req[s].org] = None
        BY <3>1, FormByPlace DEF Sound, TxSound
      <4>2. req[s].org \in OrgIds \ {o}
        BY <1>1, <4>1 DEF Creating
      <4> QED
        BY <1>5, <4>1, <4>2
    <3>3. \A p \in OrgIds : shops[p] # None =>
               /\ shops'[p] # None /\ shops'[p].creator = shops[p].creator
               /\ shops'[p].ver \in Nat /\ shops[p].ver <= shops'[p].ver
               /\ member'[p] = member[p]
      <4> SUFFICES ASSUME NEW p \in OrgIds, shops[p] # None
                   PROVE  /\ shops'[p] # None /\ shops'[p].creator = shops[p].creator
                          /\ shops'[p].ver \in Nat /\ shops[p].ver <= shops'[p].ver
        OBVIOUS
      <4>1. CASE p = o
        BY <1>1, <1>2, <1>3, <1>5, <4>1
      <4>2. CASE p # o
        BY <1>5, <4>2 DEF IInv, TypeOK, ShopRow
      <4> QED
        BY <4>1, <4>2
    <3> QED
      BY <1>1, <2>3, <3>1, <3>2, <3>3, NewerShops
  <2> QED
    BY <2>1, <2>2, <2>3
<1>12. TxApart'
  BY <1>8, <1>10 DEF IInv, TxApart
<1> QED
  BY <1>6, <1>7, <1>8, <1>11, <1>12 DEF IInv

LEMMA PatchKeeps ==
    ASSUME IInv, NEW r \in Requests, NEW u \in Users, NEW o \in OrgIds, NEW body \in Patches,
           update(r, u, o, body)
    PROVE  IInv'
<1> DEFINE columns == validateOrgProfilePatch(body).columns
           shop == IF "timezone" \in columns THEN [shops[o] EXCEPT !.timezone = body.timezone]
                   ELSE shops[o]
<1>1. /\ Manages(o, u) /\ UNCHANGED <<member, now, seeded>>
      /\ req' = [req EXCEPT ![r] = View(u, o, shops'[o].ver)]
  BY DEF update, CanWrite
<1>2. /\ shops[o] # None /\ shops[o] \in ShopRow /\ ActiveIn(o, u) /\ TypeOK
      /\ Whole(shops[o].tax) /\ shops[o].ver \in Nat
  BY <1>1 DEF Manages, ManagesIn, ActiveIn, IInv, ShopsSound, ShopSound, TypeOK, ShopRow
<1>3. CASE UNCHANGED shops
  <2>1. View(u, o, shops[o].ver).pc = "view"
        /\ Sound(View(u, o, shops[o].ver), shops, member, now)
    BY <1>2, ViewStarts
  <2>2. req' = [req EXCEPT ![r] = View(u, o, shops[o].ver)]
    BY <1>1, <1>3
  <2> QED
    BY <1>1, <1>3, <2>1, <2>2, OneRequestMoves DEF IInv, TypeOK
<1>4. CASE Update(o, shop)
  <2>1. "timezone" \in columns => body.timezone \in supportedTimezones
    BY DEF validateOrgProfilePatch, isSupportedTimezone
  <2> HIDE DEF columns
  <2>2. /\ shop \in ShopRow /\ shop.tax = shops[o].tax /\ shop.creator = shops[o].creator
        /\ shop.parts = shops[o].parts /\ shop.ver = shops[o].ver
    BY <1>2, <2>1 DEF ShopRow
  <2> HIDE DEF shop
  <2> QED
    BY <1>1, <1>2, <1>4, <2>2, WriteKeeps
<1> QED
  BY <1>3, <1>4 DEF update

\* A tax profile that passes is stored in full, or cleared.
LEMMA StoredWhole ==
    ASSUME NEW body \in TaxBodies, validateTaxProfilePut(body)
    PROVE  TaxProfileWrite(body) \in TaxRow /\ Whole(TaxProfileWrite(body))
<1> DEFINE t == TaxProfileWrite(body)
<1>1. body \in TaxForms
  BY TaxAssumption
<1>2. /\ t.entity = body.entity /\ t.vat = body.vat /\ t.branch = body.branch
      /\ t.taxId = IF body.taxId = None THEN None ELSE body.taxId.digits
  BY DEF TaxProfileWrite, normalizeThaiTaxId
<1>3. t \in TaxRow
  BY <1>1 DEF TaxProfileWrite, normalizeThaiTaxId, TaxForms, TaxRow
<1>4. CASE \A f \in DOMAIN body : body[f] = None
  <2>1. body.entity = None /\ body.vat = None /\ body.branch = None /\ body.taxId = None
    BY <1>1, <1>4 DEF TaxForms
  <2>2. t = TAX_PROFILE_CLEARED
    BY <2>1 DEF TaxProfileWrite, TAX_PROFILE_CLEARED
  <2> QED
    BY <1>3, <2>2 DEF Whole
<1>5. CASE body.entity = "valid" /\ body.vat = "valid" /\ body.taxId # None
  <2>1. body.taxId.digits \in Seq(0 .. 9)
    BY <1>1, <1>5 DEF TaxForms
  <2>2. t.taxId # None /\ t.entity # None /\ t.vat # None
    BY <1>2, <1>5, <2>1, SetupAssumption
  <2> QED
    BY <1>3, <2>2 DEF Whole, isTaxProfileComplete
<1> QED
  BY <1>4, <1>5 DEF validateTaxProfilePut

LEMMA PutKeeps ==
    ASSUME IInv, NEW r \in Requests, NEW u \in Users, NEW o \in OrgIds, NEW body \in TaxBodies,
           set(r, u, o, body)
    PROVE  IInv'
<1> DEFINE t == TaxProfileWrite(body)
           shop == [shops[o] EXCEPT !.tax = t]
<1>1. /\ Manages(o, u) /\ UNCHANGED <<member, now, seeded>>
      /\ req' = [req EXCEPT ![r] = View(u, o, shops'[o].ver)] /\ Update(o, shop)
  BY DEF set, CanWrite
<1>2. shops[o] \in ShopRow
  BY <1>1 DEF Manages, ManagesIn, IInv, ShopsSound, TypeOK
<1>3. t \in TaxRow /\ Whole(t)
  BY StoredWhole DEF set
<1> HIDE DEF t
<1>4. /\ shop \in ShopRow /\ shop.tax = t /\ shop.creator = shops[o].creator
      /\ shop.parts = shops[o].parts /\ shop.ver = shops[o].ver
  BY <1>2, <1>3 DEF ShopRow
<1> HIDE DEF shop
<1> QED
  BY <1>1, <1>3, <1>4, WriteKeeps

-----------------------------------------------------------------------------
(***************************************************************************)
(* Memberships, time and the seed.                                         *)
(***************************************************************************)
LEMMA ChangeKeeps ==
    ASSUME IInv, NEW o \in OrgIds, NEW u \in Users, NEW status \in {"active", "revoked"},
           NEW manages \in BOOLEAN, ChangeMember(o, u, status, manages)
    PROVE  IInv'
<1> DEFINE row == [status |-> status, manages |-> manages,
                   at |-> IF member[o][u] = None THEN now ELSE member[o][u].at]
<1>1. /\ shops[o] # None /\ UNCHANGED <<shops, now, seeded>> /\ TypeOK /\ now \in Nat
      /\ status = "revoked" => ActiveIn(o, u) /\ manages = member[o][u].manages
      /\ member' = [member EXCEPT ![o][u] = row] /\ \E v \in Users : ManagesIn(member', o, v)
  BY DEF ChangeMember, IInv, TypeOK
<1>2. row.at \in Nat /\ row.at <= now
  BY <1>1 DEF TypeOK, MembershipRow
<1>3. row \in MembershipRow /\ row.status = status
  BY <1>2 DEF MembershipRow
<1>4. row.manages = manages
  OBVIOUS
<1>5. row # None
  BY <1>3, RowsAssumption
<1> HIDE DEF row
<1>6. /\ member' \in [OrgIds -> [Users -> MembershipRow \union {None}]] /\ member'[o][u] = row
      /\ \A p \in OrgIds, v \in Users : ~(p = o /\ v = u) => member'[p][v] = member[p][v]
      /\ \A p \in OrgIds \ {o} : member'[p] = member[p]
  BY <1>1, <1>3 DEF TypeOK
<1>7. TypeOK'
  <2>1. ASSUME NEW p \in OrgIds, NEW v \in Users, member'[p][v] # None
        PROVE  member'[p][v].at <= now'
    <3>1. CASE p = o /\ v = u
      BY <1>1, <1>2, <1>6, <3>1
    <3>2. CASE ~(p = o /\ v = u)
      BY <1>1, <1>6, <2>1, <3>2 DEF TypeOK
    <3> QED
      BY <3>1, <3>2
  <2> QED
    BY <1>1, <1>6, <2>1 DEF TypeOK
<1>8. ShopsSound'
  <2>1. ASSUME NEW p \in OrgIds, shops'[p] # None
        PROVE  ShopSound(p)'
    <3>1. shops[p] # None /\ shops[p].creator \in Users /\ ShopSound(p)
      BY <1>1, <2>1 DEF IInv, ShopsSound, TypeOK, ShopRow
    <3>2. member'[p][shops[p].creator] # None
      BY <1>5, <1>6, <3>1 DEF ShopSound
    <3>3. \E v \in Users : ManagesIn(member', p, v)
      BY <1>1, <1>6, <3>1 DEF ShopSound, Manages, ManagesIn
    <3> QED
      BY <1>1, <3>1, <3>2, <3>3 DEF ShopSound, Manages
  <2>2. ASSUME NEW p \in OrgIds, NEW v \in Users, member'[p][v] # None
        PROVE  shops'[p] # None
    BY <1>1, <1>6, <2>2 DEF IInv, ShopsSound
  <2> QED
    BY <2>1, <2>2 DEF ShopsSound
<1>9. req' = [r \in Requests |->
              CASE req[r].pc = "page" ->
                      [IF status = "active" THEN Joined(req[r], o, u) ELSE req[r]
                          EXCEPT !.stable = @ \intersect Listable(member', req[r])]
                [] req[r].pc = "view" ->
                      [req[r] EXCEPT !.allowed = @ \/ ManagesIn(member', req[r].org, req[r].user)]
                [] OTHER -> req[r]]
  BY DEF ChangeMember
<1>10. ASSUME NEW s \in Requests
       PROVE  Sound(req'[s], shops', member', now') /\ req'[s].pc = req[s].pc
              /\ (req[s].pc = "tx" => req'[s] = req[s])
  <2>0. Sound(req[s], shops, member, now)
    BY DEF IInv
  <2>1. CASE req[s].pc = "page"
    <3>1. IsListing(req[s]) /\ ListingSound(req[s], member)
      BY <2>0, <2>1, FormByPlace DEF Sound
    <3> DEFINE mid == IF status = "active" THEN Joined(req[s], o, u) ELSE req[s]
               new == [mid EXCEPT !.stable = @ \intersect Listable(member', req[s])]
    <3>2. /\ IsListing(mid) /\ mid.pc = "page" /\ mid.kind = req[s].kind
          /\ mid.user = req[s].user /\ req[s].belonged \subseteq mid.belonged
          /\ (status = "active" /\ mid.kind = "myOrganizations" /\ mid.user = u
                => o \in mid.belonged)
      BY <2>1, <3>1, JoinedListing
    <3>3. req'[s] = new
      BY <1>9, <2>1
    <3> HIDE DEF mid
    <3>4. /\ new = [f \in ListingFields |-> new[f]] /\ new.pc = mid.pc /\ new.kind = mid.kind
          /\ new.user = mid.user /\ new.full = mid.full /\ new.belonged = mid.belonged
      BY <3>2 DEF IsListing, ListingFields
    <3> HIDE DEF new
    <3>5. IsListing(new)
      BY <3>2, <3>4 DEF IsListing
    <3>6. ListingSound(new, member')
      <4> SUFFICES ASSUME new.kind = "myOrganizations", NEW p \in OrgIds,
                          ActiveBy(member', p, new.user)
                   PROVE  p \in new.belonged
        BY DEF ListingSound
      <4>1. new.user \in Users /\ new.user = req[s].user
        BY <3>2, <3>4, <3>5 DEF IsListing
      <4>2. CASE p = o /\ new.user = u
        BY <1>3, <1>6, <3>2, <3>4, <4>2 DEF ActiveBy
      <4>3. CASE ~(p = o /\ new.user = u)
        <5>1. ActiveBy(member, p, req[s].user)
          BY <1>6, <4>1, <4>3 DEF ActiveBy
        <5> QED
          BY <2>1, <3>1, <3>2, <3>4, <5>1 DEF ListingSound
      <4> QED
        BY <4>2, <4>3
    <3> QED
      BY <2>1, <3>2, <3>3, <3>4, <3>5, <3>6, ListingAlone
  <2>2. CASE req[s].pc = "view"
    <3> DEFINE may == req[s].allowed \/ ManagesIn(member', req[s].org, req[s].user)
               new == [req[s] EXCEPT !.allowed = may]
    <3>1. req[s] \in Viewing /\ ViewSound(req[s], shops, member)
      BY <2>0, <2>2, FormByPlace DEF Sound
    <3>2. req'[s] = new
      BY <1>9, <2>2
    <3>3. may \in BOOLEAN /\ (req[s].allowed => may)
      OBVIOUS
    <3>4. member'[req[s].org][req[s].user] # None
      BY <1>5, <1>6, <2>2, <3>1 DEF Viewing, ViewSound
    <3>5. member'[req[s].org][req[s].user].manages => may
      <4>1. CASE req[s].org = o /\ req[s].user = u
        <5>1. CASE status = "active"
          BY <1>3, <1>5, <1>6, <4>1, <5>1 DEF ManagesIn
        <5>2. CASE status = "revoked"
          BY <1>1, <1>4, <1>6, <2>2, <3>1, <4>1, <5>2 DEF ViewSound
        <5> QED
          BY <5>1, <5>2
      <4>2. CASE ~(req[s].org = o /\ req[s].user = u)
        BY <1>6, <2>2, <3>1, <4>2 DEF Viewing, ViewSound
      <4> QED
        BY <4>1, <4>2
    <3> HIDE DEF may
    <3>6. /\ new \in Viewing /\ new.pc = "view" /\ new.org = req[s].org /\ new.user = req[s].user
          /\ new.mine = req[s].mine /\ new.allowed = may
          /\ new.manages = req[s].manages /\ new.tax = req[s].tax /\ new.ver = req[s].ver
      BY <3>1, <3>3 DEF Viewing
    <3> HIDE DEF new
    <3>7. ViewSound(new, shops', member')
      BY <1>1, <2>2, <3>1, <3>3, <3>4, <3>5, <3>6 DEF ViewSound
    <3>8. Sound(new, shops', member', now')
      BY <3>6, <3>7 DEF Sound, HasForm, TxSound, Announced, Shown, RevealSound, ListingSound
    <3> QED
      BY <2>2, <3>2, <3>6, <3>8
  <2>3. CASE req[s].pc \notin {"page", "view"}
    <3>1. req'[s] = req[s]
      BY <1>9, <2>3
    <3>2. Sound(req[s], shops', member', now')
      BY <1>1, <2>0, <2>3 DEF Sound, ViewSound, ListingSound
    <3> QED
      BY <3>1, <3>2
  <2> QED
    BY <2>1, <2>2, <2>3
<1>11. TxApart'
  BY <1>10 DEF IInv, TxApart
<1>12. req' = [s \in Requests |-> req'[s]]
  BY <1>9
<1> QED
  BY <1>7, <1>8, <1>10, <1>11, <1>12 DEF IInv

LEMMA TickKeeps ==
    ASSUME IInv, Tick
    PROVE  IInv'
<1>1. /\ now' = now + 1 /\ now \in Nat /\ now' \in 0 .. MaxTime
      /\ UNCHANGED <<shops, member, seeded, req>>
  BY SetupAssumption DEF Tick, IInv, TypeOK
<1>2. TypeOK'
  <2>1. ASSUME NEW o \in OrgIds, NEW u \in Users, member'[o][u] # None
        PROVE  member'[o][u].at <= now'
    BY <1>1, <2>1 DEF IInv, TypeOK, MembershipRow
  <2> QED
    BY <1>1, <2>1 DEF IInv, TypeOK
<1>3. ShopsSound' /\ TxApart'
  BY <1>1 DEF IInv, ShopsSound, ShopSound, Manages, ManagesIn, TxApart
<1>4. ASSUME NEW s \in Requests
      PROVE  Sound(req'[s], shops', member', now')
  <2>1. Sound(req[s], shops, member, now)
    BY DEF IInv
  <2>2. TxSound(req[s], shops, now')
    BY <1>1, <2>1 DEF Sound, TxSound
  <2> QED
    BY <1>1, <2>1, <2>2 DEF Sound
<1> QED
  BY <1>1, <1>2, <1>3, <1>4 DEF IInv

LEMMA SeedKeeps ==
    ASSUME IInv, Seed
    PROVE  IInv'
<1>1. seeded' \in BOOLEAN /\ UNCHANGED <<shops, member, now, req>>
  BY DEF Seed
<1>2. TypeOK' /\ ShopsSound' /\ TxApart'
  BY <1>1 DEF IInv, TypeOK, ShopsSound, ShopSound, Manages, ManagesIn, TxApart
<1> QED
  BY <1>1, <1>2 DEF IInv

-----------------------------------------------------------------------------
LEMMA InitInv == Init => IInv
<1> SUFFICES ASSUME Init PROVE IInv
  OBVIOUS
<1>1. TypeOK /\ ShopsSound
  BY SetupAssumption DEF Init, TypeOK, ShopsSound
<1>2. /\ req = [r \in Requests |-> req[r]] /\ TxApart
      /\ \A r \in Requests : req[r] = Idle
  BY DEF Init, TxApart, Idle
<1> QED
  BY <1>1, <1>2, IdleSound DEF IInv

LEMMA NextInv == IInv /\ [Next]_vars => IInv'
<1> SUFFICES ASSUME IInv, [Next]_vars PROVE IInv'
  OBVIOUS
<1>0. BusyOrgs \subseteq OrgIds
  BY SetupAssumption
<1>1. ASSUME NEW r \in Requests, NEW u \in Users, NEW body \in NewOrgs, create(r, u, body)
      PROVE  IInv'
  BY <1>1, CreateKeeps
<1>2. ASSUME NEW r \in Requests, NEW u \in Users, NEW all \in BOOLEAN,
             startList(r, "myOrganizations", u, None, all)
      PROVE  IInv'
  BY <1>2, StartListKeeps
<1>3. ASSUME NEW r \in Requests, NEW u \in Users, NEW all \in BOOLEAN, NEW o \in BusyOrgs,
             startList(r, "members", u, o, all)
      PROVE  IInv'
  BY <1>3, StartListKeeps
<1>4. ASSUME NEW r \in Requests, NEW u \in Users, NEW o \in BusyOrgs,
             \/ get(r, u, o) \/ reveal(r, u, o)
             \/ \E body \in Patches : update(r, u, o, body)
             \/ \E body \in TaxBodies : set(r, u, o, body)
      PROVE  IInv'
  BY <1>0, <1>4, GetKeeps, RevealKeeps, PatchKeeps, PutKeeps
<1>5. ASSUME NEW r \in Requests,
             \/ resolveForNewOrg(r) \/ TxStatement(r) \/ TxCommit(r) \/ emitCreated(r)
      PROVE  IInv'
  BY <1>5, PlanKeeps, StatementKeeps, CommitKeeps, EmitKeeps
<1>6. ASSUME NEW r \in Requests,
             \/ list(r) \/ readOrganization(r) \/ readMembership(r) \/ toOrgProfileView(r)
             \/ toTaxProfileReveal(r) \/ Die(r) \/ Finish(r)
      PROVE  IInv'
  BY <1>6, ListKeeps, ReadOrganizationKeeps, ReadMembershipKeeps, ViewKeeps, RevealedKeeps, EndKeeps
<1>7. ASSUME NEW o \in BusyOrgs, NEW u \in Users, NEW st \in {"active", "revoked"},
             NEW mg \in BOOLEAN, ChangeMember(o, u, st, mg)
      PROVE  IInv'
  BY <1>0, <1>7, ChangeKeeps
<1>8. CASE Tick \/ Seed
  BY <1>8, TickKeeps, SeedKeeps
<1>9. CASE UNCHANGED vars
  <2>1. UNCHANGED <<shops, member, now, seeded, req>>
    BY <1>9 DEF vars
  <2>2. TypeOK' /\ ShopsSound' /\ TxApart'
    BY <2>1 DEF IInv, TypeOK, ShopsSound, ShopSound, Manages, ManagesIn, TxApart
  <2> QED
    BY <2>1, <2>2 DEF IInv
<1> QED
  BY <1>1, <1>2, <1>3, <1>4, <1>5, <1>6, <1>7, <1>8, <1>9 DEF Next

\* The invariant holds in every state the services can reach.
THEOREM Invariant == Spec => []IInv
BY InitInv, NextInv, PTL DEF Spec

\* org-provisioning.service: what can be seen of a shop is whole, whatever died on
\* the way, and org.created was announced for nothing else; a tax profile is stored
\* and shown in full or not at all.
THEOREM VisibleShopsWhole == Spec => []ShopsWhole
<1>1. IInv => ShopsWhole
  <2> SUFFICES ASSUME IInv PROVE ShopsWhole
    OBVIOUS
  <2>1. ASSUME NEW o \in OrgIds, shops[o] # None
        PROVE  /\ shops[o].tax = TAX_PROFILE_CLEARED \/ isTaxProfileComplete(shops[o].tax)
               /\ shops[o].parts = {Statements[i] : i \in 1 .. Len(Statements)}
               /\ isSupportedTimezone(shops[o].timezone)
               /\ member[o][shops[o].creator] # None
               /\ \E u \in Users : Manages(o, u)
    BY <2>1 DEF IInv, ShopsSound, ShopSound, Whole, Prefix, TypeOK, ShopRow, isSupportedTimezone
  <2>2. ASSUME NEW r \in Requests
        PROVE  /\ req[r].pc = "viewed" => (req[r].complete <=> req[r].shown # {})
               /\ req[r].pc = "created" =>
                     shops[req[r].org] # None /\ shops[req[r].org].creator = req[r].user
    BY DEF IInv, Sound, Shown, Announced
  <2> QED
    BY <2>1, <2>2 DEF ShopsWhole, TaxProfileWhole
<1> QED
  BY <1>1, Invariant, PTL

\* org-profile.service, my-organizations.service: digits, entity type, role and plan
\* go to those alone who had the right since the request arrived, and never more
\* than four digits.
THEOREM ViewsWithinRights == Spec => []ViewWithinRights
<1>1. IInv => ViewWithinRights
  <2> SUFFICES ASSUME IInv, NEW r \in Requests
               PROVE  /\ req[r].pc \in {"page", "listed"} => req[r].full \subseteq req[r].belonged
                      /\ req[r].pc = "viewed" =>
                            /\ req[r].shown \ {"vat"} # {} => req[r].allowed
                            /\ req[r].digits <= TAX_ID_VISIBLE_SUFFIX_LENGTH
    BY DEF ViewWithinRights
  <2>1. HasForm(req[r]) /\ Shown(req[r])
    BY DEF IInv, Sound
  <2>2. req[r].pc \in {"page", "listed"} => req[r].full \subseteq req[r].belonged
    BY <2>1, FormByPlace DEF IsListing
  <2>3. req[r].pc = "viewed" => req[r].digits <= TAX_ID_VISIBLE_SUFFIX_LENGTH
    BY <2>1, FormByPlace DEF Answering, TAX_ID_VISIBLE_SUFFIX_LENGTH
  <2> QED
    BY <2>1, <2>2, <2>3 DEF Shown
<1> QED
  BY <1>1, Invariant, PTL

\* PATCH and PUT answer with a profile at least as new as their own write.
THEOREM WritesRead == Spec => []ReadsOwnWrite
<1>1. IInv => ReadsOwnWrite
  <2> SUFFICES ASSUME IInv, NEW r \in Requests, req[r].pc = "viewed"
               PROVE  req[r].ver >= req[r].mine
    BY DEF ReadsOwnWrite
  <2>1. req[r] \in Answering /\ req[r].mine <= req[r].ver
    BY FormByPlace DEF IInv, Sound, Shown
  <2> QED
    BY <2>1 DEF Answering
<1> QED
  BY <1>1, Invariant, PTL

-----------------------------------------------------------------------------
(***************************************************************************)
(* The cap, which is counted without a lock: what a user has created and   *)
(* what is under way exceed it by the other requests at most.              *)
(***************************************************************************)
Counted == {"plan", "tx"}

LEMMA CapCounts ==
    ASSUME IsFiniteSet(Requests), IsFiniteSet(OrgIds), NEW u
    PROVE  /\ IsFiniteSet(CreatedBy(u)) /\ Cardinality(CreatedBy(u)) \in Nat
           /\ IsFiniteSet(Pending(u)) /\ Cardinality(Pending(u)) \in Nat
           /\ Cardinality(Pending(u)) <= Cardinality(Requests) /\ Cardinality(Requests) \in Nat
<1>1. CreatedBy(u) \in SUBSET OrgIds /\ Pending(u) \in SUBSET Requests
  BY DEF CreatedBy, Pending
<1> QED
  BY <1>1, FS_Subset, FS_CardinalityType

\* Where nothing is created and nothing is counted anew the bound stays.
LEMMA QuietKeepsCap ==
    ASSUME IsFiniteSet(Requests), IsFiniteSet(OrgIds), CapBound,
           \A s \in Requests : req'[s].pc \in Counted =>
               req[s].pc \in Counted /\ req'[s].user = req[s].user,
           \A o \in OrgIds : shops'[o] # None =>
               shops[o] # None /\ shops'[o].creator = shops[o].creator
    PROVE  CapBound'
<1> SUFFICES ASSUME NEW u \in Users
             PROVE  Cardinality(CreatedBy(u)') + Cardinality(Pending(u)')
                        <= MAX_ORGS_PER_USER + Cardinality(Requests) - 1
  BY DEF CapBound
<1>1. CreatedBy(u)' \in SUBSET CreatedBy(u) /\ Pending(u)' \in SUBSET Pending(u)
  BY DEF CreatedBy, Pending, Counted
<1>2. /\ Cardinality(CreatedBy(u)') <= Cardinality(CreatedBy(u))
      /\ Cardinality(Pending(u)') <= Cardinality(Pending(u))
  BY <1>1, CapCounts, FS_Subset
<1>3. Cardinality(CreatedBy(u)') \in Nat /\ Cardinality(Pending(u)') \in Nat
  BY <1>1, CapCounts, FS_Subset, FS_CardinalityType
<1>4. Cardinality(CreatedBy(u)) + Cardinality(Pending(u))
          <= MAX_ORGS_PER_USER + Cardinality(Requests) - 1
  BY DEF CapBound
<1> QED
  BY <1>2, <1>3, <1>4, CapCounts, SetupAssumption

\* A request that has just counted has found room.
LEMMA CreateKeepsCap ==
    ASSUME IsFiniteSet(Requests), IsFiniteSet(OrgIds), IInv, CapBound,
           NEW r \in Requests, NEW v \in Users, NEW body \in NewOrgs, create(r, v, body)
    PROVE  CapBound'
<1> SUFFICES ASSUME NEW u \in Users
             PROVE  Cardinality(CreatedBy(u)') + Cardinality(Pending(u)')
                        <= MAX_ORGS_PER_USER + Cardinality(Requests) - 1
  BY DEF CapBound
<1>1. CreatedBy(u)' = CreatedBy(u) /\ Pending(u)' \in SUBSET Requests
  BY DEF create, CreatedBy, Pending
<1>2. CASE u = v
  <2>1. Cardinality(CreatedBy(u)) < MAX_ORGS_PER_USER
    BY <1>2, CapCounts, SetupAssumption DEF create, isOrgCapReached, createdOrgCount
  <2>2. Cardinality(Pending(u)') \in Nat /\ Cardinality(Pending(u)') <= Cardinality(Requests)
    BY <1>1, FS_Subset, FS_CardinalityType
  <2> QED
    BY <1>1, <2>1, <2>2, CapCounts, SetupAssumption
<1>3. CASE u # v
  <2>1. \A s \in Requests \ {r} : req'[s] = req[s]
    BY DEF create, IInv
  <2>2. req'[r].user = v
    BY DEF create, IInv
  <2>3. Pending(u)' \in SUBSET Pending(u)
    BY <1>3, <2>1, <2>2 DEF Pending
  <2>4. Cardinality(Pending(u)') <= Cardinality(Pending(u)) /\ Cardinality(Pending(u)') \in Nat
    BY <2>3, CapCounts, FS_Subset, FS_CardinalityType
  <2>5. Cardinality(CreatedBy(u)) + Cardinality(Pending(u))
          <= MAX_ORGS_PER_USER + Cardinality(Requests) - 1
    BY DEF CapBound
  <2> QED
    BY <1>1, <2>4, <2>5, CapCounts, SetupAssumption
<1> QED
  BY <1>2, <1>3

\* Adding an element counts at most one more, removing one counts no more.
LEMMA OneElement ==
    ASSUME NEW S, IsFiniteSet(S), NEW x
    PROVE  /\ IsFiniteSet(S \union {x})
           /\ Cardinality(S \union {x}) \in Nat
           /\ Cardinality(S \union {x}) <= Cardinality(S) + 1
           /\ Cardinality(S \ {x}) <= Cardinality(S)
<1>1. Cardinality(S) \in Nat
  BY FS_CardinalityType
<1>2. IsFiniteSet(S \union {x})
  BY FS_AddElement
<1>3. Cardinality(S \union {x}) \in Nat
  BY <1>2, FS_CardinalityType
<1>4. CASE x \in S
  <2>1. S \union {x} = S
    BY <1>4
  <2>2. Cardinality(S \ {x}) = Cardinality(S) - 1
    BY <1>4, FS_RemoveElement
  <2>3. Cardinality(S \union {x}) = Cardinality(S)
    BY <2>1, Zenon
  <2> QED
    BY <1>1, <1>2, <1>3, <2>2, <2>3
<1>5. CASE x \notin S
  <2>1. Cardinality(S \union {x}) = Cardinality(S) + 1
    BY <1>5, FS_AddElement
  <2>2. S \ {x} = S
    BY <1>5
  <2>3. Cardinality(S \ {x}) = Cardinality(S)
    BY <2>2, Zenon
  <2> QED
    BY <1>1, <1>2, <1>3, <2>1, <2>3
<1> QED
  BY <1>4, <1>5

\* A commit turns a shop under way into one created.
LEMMA CommitKeepsCap ==
    ASSUME IsFiniteSet(Requests), IsFiniteSet(OrgIds), IInv, CapBound,
           NEW r \in Requests, TxCommit(r)
    PROVE  CapBound'
<1> DEFINE o == req[r].org
<1>1. req[r] \in Creating /\ req[r].pc = "tx"
  BY FormByPlace DEF TxCommit, IInv, Sound
<1>2. /\ o \in OrgIds /\ shops' = [shops EXCEPT ![o] = NewShop(req[r].user, req[r].timezone, req[r].parts)]
  BY <1>1 DEF TxCommit, Creating
<1>3. /\ \A p \in OrgIds \ {o} : shops'[p] = shops[p]
      /\ shops'[o].creator = req[r].user
  BY <1>2 DEF IInv, TypeOK, NewShop
<1>4. req'[r].pc = "emit"
  BY DEF TxCommit
<1>5. ASSUME NEW s \in Requests \ {r}, req'[s].pc \in Counted
      PROVE  req'[s] = req[s]
  <2>1. req[s].pc = "page" => FALSE
    <3> SUFFICES ASSUME req[s].pc = "page" PROVE FALSE
      OBVIOUS
    <3>1. req'[s] = Joined(req[s], o, req[r].user)
      BY DEF TxCommit
    <3>2. IsListing(req[s])
      BY FormByPlace DEF IInv, Sound
    <3>3. req'[s].pc = "page"
      BY <3>1, <3>2, JoinedListing
    <3> QED
      BY <1>5, <3>3 DEF Counted
  <2> QED
    BY <2>1 DEF TxCommit
<1> SUFFICES ASSUME NEW u \in Users
             PROVE  Cardinality(CreatedBy(u)') + Cardinality(Pending(u)')
                        <= MAX_ORGS_PER_USER + Cardinality(Requests) - 1
  BY DEF CapBound
<1>6. Pending(u)' \in SUBSET (Pending(u) \ {r})
  BY <1>4, <1>5 DEF Pending, Counted
<1>7. Cardinality(CreatedBy(u)) + Cardinality(Pending(u))
          <= MAX_ORGS_PER_USER + Cardinality(Requests) - 1
  BY DEF CapBound
<1>8. /\ Cardinality(Pending(u)') \in Nat
      /\ Cardinality(Pending(u)') <= Cardinality(Pending(u) \ {r})
      /\ Cardinality(Pending(u) \ {r}) \in Nat
  BY <1>6, CapCounts, FS_RemoveElement, FS_Subset, FS_CardinalityType
<1>9. CASE u = req[r].user
  <2>1. r \in Pending(u)
    BY <1>1, <1>9 DEF Pending
  <2>2. Cardinality(Pending(u) \ {r}) = Cardinality(Pending(u)) - 1
    BY <2>1, CapCounts, FS_RemoveElement
  <2>3. CreatedBy(u)' \in SUBSET (CreatedBy(u) \union {o})
    BY <1>3 DEF CreatedBy
  <2>4. /\ IsFiniteSet(CreatedBy(u) \union {o})
        /\ Cardinality(CreatedBy(u) \union {o}) <= Cardinality(CreatedBy(u)) + 1
        /\ Cardinality(CreatedBy(u) \union {o}) \in Nat
    BY CapCounts, OneElement
  <2>5. /\ Cardinality(CreatedBy(u)') <= Cardinality(CreatedBy(u) \union {o})
        /\ Cardinality(CreatedBy(u)') \in Nat
    BY <2>3, <2>4, FS_Subset, FS_CardinalityType
  <2> QED
    BY <1>7, <1>8, <2>2, <2>4, <2>5, CapCounts, SetupAssumption
<1>10. CASE u # req[r].user
  <2>1. CreatedBy(u)' \in SUBSET CreatedBy(u)
    BY <1>2, <1>3, <1>10 DEF CreatedBy
  <2>2. Cardinality(CreatedBy(u)') <= Cardinality(CreatedBy(u)) /\ Cardinality(CreatedBy(u)') \in Nat
    BY <2>1, CapCounts, FS_Subset, FS_CardinalityType
  <2>3. Cardinality(Pending(u) \ {r}) <= Cardinality(Pending(u))
    BY CapCounts, OneElement
  <2> QED
    BY <1>7, <1>8, <2>2, <2>3, CapCounts, SetupAssumption
<1> QED
  BY <1>9, <1>10

\* One request goes on without counting; the shops stay.
LEMMA MoveKeepsCap ==
    ASSUME IsFiniteSet(Requests), IsFiniteSet(OrgIds), IInv, CapBound, NEW r \in Requests, NEW new,
           req' = [req EXCEPT ![r] = new], UNCHANGED shops,
           new.pc \in Counted => req[r].pc \in Counted /\ new.user = req[r].user
    PROVE  CapBound'
<1>1. req'[r] = new /\ \A s \in Requests \ {r} : req'[s] = req[s]
  BY DEF IInv
<1> QED
  BY <1>1, QuietKeepsCap

\* A write to a shop leaves its creator.
LEMMA WriteKeepsCap ==
    ASSUME IsFiniteSet(Requests), IsFiniteSet(OrgIds), IInv, CapBound, NEW r \in Requests,
           NEW u, NEW o \in OrgIds, NEW shop, shops[o] # None, shop.creator = shops[o].creator,
           shop = [f \in DOMAIN shop |-> shop[f]], "creator" \in DOMAIN shop,
           Update(o, shop), req' = [req EXCEPT ![r] = View(u, o, shops'[o].ver)]
    PROVE  CapBound'
<1>1. [shop EXCEPT !.ver = @ + 1].creator = shop.creator
  OBVIOUS
<1>2. /\ shops'[o].creator = shops[o].creator
      /\ \A p \in OrgIds \ {o} : shops'[p] = shops[p]
  BY <1>1 DEF Update, IInv, TypeOK
<1>3. req'[r].pc = "view" /\ \A s \in Requests \ {r} : req'[s] = req[s]
  BY DEF IInv, View
<1> QED
  BY <1>2, <1>3, QuietKeepsCap DEF Counted

LEMMA NextCap ==
    ASSUME IsFiniteSet(Requests), IsFiniteSet(OrgIds), IInv, CapBound, [Next]_vars
    PROVE  CapBound'
<1>0. BusyOrgs \subseteq OrgIds
  BY SetupAssumption
<1>1. ASSUME NEW r \in Requests, NEW u \in Users, NEW body \in NewOrgs, create(r, u, body)
      PROVE  CapBound'
  BY <1>1, CreateKeepsCap
<1>2. ASSUME NEW r \in Requests, NEW kind, NEW u \in Users, NEW all \in BOOLEAN, NEW o,
             startList(r, kind, u, o, all)
      PROVE  CapBound'
  <2> DEFINE q == [pc |-> "page", kind |-> kind, user |-> u, org |-> o, all |-> all,
                   cursor |-> None, seen |-> <<>>, full |-> {}, stable |-> {},
                   belonged |-> {x \in OrgIds : o = None /\ ActiveIn(x, u)}]
             new == [q EXCEPT !.stable = Listable(member, q)]
  <2>1. req' = [req EXCEPT ![r] = new] /\ UNCHANGED shops /\ new.pc = "page"
    BY <1>2 DEF startList
  <2> HIDE DEF new
  <2> QED
    BY <2>1, MoveKeepsCap DEF Counted
<1>3. ASSUME NEW r \in Requests, NEW u \in Users, NEW o \in BusyOrgs, get(r, u, o) \/ reveal(r, u, o)
      PROVE  CapBound'
  <2>1. CASE get(r, u, o)
    <3>1. View(u, o, 0).pc = "view"
      BY DEF View
    <3> QED
      BY <2>1, <3>1, MoveKeepsCap DEF get, Counted
  <2>2. CASE reveal(r, u, o)
    BY <2>2, MoveKeepsCap DEF reveal, Counted
  <2> QED
    BY <1>3, <2>1, <2>2
<1>4. ASSUME NEW r \in Requests, NEW u \in Users, NEW o \in BusyOrgs, NEW body \in Patches,
             update(r, u, o, body)
      PROVE  CapBound'
  <2> DEFINE columns == validateOrgProfilePatch(body).columns
             shop == IF "timezone" \in columns THEN [shops[o] EXCEPT !.timezone = body.timezone]
                     ELSE shops[o]
  <2>1. o \in OrgIds /\ shops[o] # None /\ shops[o] \in ShopRow
    BY <1>0, <1>4 DEF update, CanWrite, Manages, ManagesIn, IInv, ShopsSound, TypeOK
  <2>2. req' = [req EXCEPT ![r] = View(u, o, shops'[o].ver)]
    BY <1>4 DEF update
  <2>3. CASE UNCHANGED shops
    <3>1. View(u, o, shops'[o].ver).pc = "view"
      BY DEF View
    <3> QED
      BY <2>2, <2>3, <3>1, MoveKeepsCap DEF Counted
  <2>4. CASE Update(o, shop)
    <3> HIDE DEF columns
    <3>1. shop.creator = shops[o].creator /\ shop = [f \in DOMAIN shop |-> shop[f]]
          /\ "creator" \in DOMAIN shop
      BY <2>1 DEF ShopRow
    <3> HIDE DEF shop
    <3> QED
      BY <2>1, <2>2, <2>4, <3>1, WriteKeepsCap
  <2> QED
    BY <1>4, <2>3, <2>4 DEF update
<1>5. ASSUME NEW r \in Requests, NEW u \in Users, NEW o \in BusyOrgs, NEW body \in TaxBodies,
             set(r, u, o, body)
      PROVE  CapBound'
  <2> DEFINE shop == [shops[o] EXCEPT !.tax = TaxProfileWrite(body)]
  <2>1. o \in OrgIds /\ shops[o] # None /\ shops[o] \in ShopRow
    BY <1>0, <1>5 DEF set, CanWrite, Manages, ManagesIn, IInv, ShopsSound, TypeOK
  <2>2. req' = [req EXCEPT ![r] = View(u, o, shops'[o].ver)] /\ Update(o, shop)
    BY <1>5 DEF set
  <2>3. shop.creator = shops[o].creator /\ shop = [f \in DOMAIN shop |-> shop[f]]
        /\ "creator" \in DOMAIN shop
    BY <2>1 DEF ShopRow
  <2> HIDE DEF shop
  <2> QED
    BY <2>1, <2>2, <2>3, WriteKeepsCap
<1>6. ASSUME NEW r \in Requests, resolveForNewOrg(r)
      PROVE  CapBound'
  <2>1. UNCHANGED shops /\ req[r].pc = "plan"
    BY <1>6 DEF resolveForNewOrg
  <2>2. CASE req' = [req EXCEPT ![r] = Idle]
    BY <2>1, <2>2, MoveKeepsCap DEF Idle, Counted
  <2>3. CASE req' # [req EXCEPT ![r] = Idle]
    <3>1. PICK o : req' = [req EXCEPT ![r] = [pc |-> "tx", user |-> req[r].user, org |-> o,
                                   timezone |-> req[r].timezone, parts |-> {}, at |-> None]]
      BY <1>6, <2>3 DEF resolveForNewOrg, IInv
    <3> QED
      BY <2>1, <3>1, MoveKeepsCap DEF Counted
  <2> QED
    BY <2>2, <2>3
<1>7. ASSUME NEW r \in Requests, TxStatement(r)
      PROVE  CapBound'
  <2>1. req[r] \in Creating /\ UNCHANGED shops
    BY <1>7, FormByPlace DEF TxStatement, IInv, Sound
  <2>2. \A s \in Requests : req'[s].pc = req[s].pc /\ req'[s].user = req[s].user
    <3>1. \A s \in Requests \ {r} : req'[s] = req[s]
      BY <1>7 DEF TxStatement, IInv
    <3>2. req'[r].pc = req[r].pc /\ req'[r].user = req[r].user
      BY <1>7, <2>1 DEF TxStatement, IInv, Creating
    <3> QED
      BY <3>1, <3>2
  <2> QED
    BY <2>1, <2>2, QuietKeepsCap
<1>8. ASSUME NEW r \in Requests, TxCommit(r)
      PROVE  CapBound'
  BY <1>8, CommitKeepsCap
<1>9. ASSUME NEW r \in Requests, emitCreated(r) \/ Die(r) \/ Finish(r) \/ toTaxProfileReveal(r)
      PROVE  CapBound'
  <2>1. CASE emitCreated(r)
    <3>1. req[r] \in Announcing
      BY <2>1, FormByPlace DEF emitCreated, IInv, Sound
    <3>2. req' = [req EXCEPT ![r] = [req[r] EXCEPT !.pc = "created"]] /\ UNCHANGED shops
      BY <2>1 DEF emitCreated, IInv
    <3>3. [req[r] EXCEPT !.pc = "created"].pc = "created"
      BY <3>1 DEF Announcing
    <3> QED
      BY <3>2, <3>3, MoveKeepsCap DEF Counted
  <2>2. CASE Die(r) \/ Finish(r)
    <3>1. req' = [req EXCEPT ![r] = Idle] /\ UNCHANGED shops
      BY <2>2 DEF Die, Finish
    <3> QED
      BY <3>1, MoveKeepsCap DEF Idle, Counted
  <2>3. CASE toTaxProfileReveal(r)
    <3>1. UNCHANGED shops
          /\ (req' = [req EXCEPT ![r] = Idle] \/ req' = [req EXCEPT ![r] = [pc |-> "revealed"]])
      BY <2>3 DEF toTaxProfileReveal
    <3> QED
      BY <3>1, MoveKeepsCap DEF Idle, Counted
  <2> QED
    BY <1>9, <2>1, <2>2, <2>3
<1>10. ASSUME NEW r \in Requests,
              list(r) \/ readOrganization(r) \/ readMembership(r) \/ toOrgProfileView(r)
       PROVE  CapBound'
  <2>1. /\ UNCHANGED shops /\ \A s \in Requests \ {r} : req'[s] = req[s]
    <3>1. CASE list(r)
      BY <3>1, ListMoves DEF IInv
    <3>2. CASE ~list(r)
      BY <1>10, <3>2 DEF readOrganization, readMembership, toOrgProfileView, IInv
    <3> QED
      BY <3>1, <3>2
  <2>2. CASE list(r)
    <3>1. IsListing(req[r]) /\ req[r].pc = "page"
      BY <2>2, ListMoves
    <3>2. req'[r].pc \in {"idle", "listed", "page"}
      <4>1. CASE req' = [req EXCEPT ![r] = Idle]
        BY <4>1 DEF IInv, Idle
      <4>2. CASE req' # [req EXCEPT ![r] = Idle]
        <5>1. PICK page : req' = [req EXCEPT ![r] = Turned(req[r], page)]
          BY <2>2, <4>2, ListMoves
        <5>2. req'[r] = Turned(req[r], page)
          BY <5>1 DEF IInv
        <5>3. Turned(req[r], page).pc = IF page.nextCursor = None THEN "listed" ELSE req[r].pc
          BY <3>1 DEF Turned, IsListing, ListingFields
        <5> QED
          BY <3>1, <5>2, <5>3
      <4> QED
        BY <4>1, <4>2
    <3> QED
      BY <2>1, <3>2, QuietKeepsCap DEF Counted
  <2>3. CASE readOrganization(r) \/ readMembership(r)
    <3>1. req[r] \in Viewing
      BY <2>3, FormByPlace DEF readOrganization, readMembership, IInv, Sound
    <3>2. req'[r].pc = "view"
      BY <2>3, <3>1 DEF readOrganization, readMembership, Viewing, IInv
    <3> QED
      BY <2>1, <3>2, QuietKeepsCap DEF Counted
  <2>4. CASE toOrgProfileView(r)
    <3>1. req'[r].pc = "viewed"
      BY <2>4 DEF toOrgProfileView, IInv
    <3> QED
      BY <2>1, <3>1, QuietKeepsCap DEF Counted
  <2> QED
    BY <1>10, <2>2, <2>3, <2>4
<1>11. ASSUME NEW o \in BusyOrgs, NEW u \in Users, NEW st \in {"active", "revoked"},
              NEW mg \in BOOLEAN, ChangeMember(o, u, st, mg)
       PROVE  CapBound'
  <2>1. UNCHANGED shops
    BY <1>11 DEF ChangeMember
  <2>2. ASSUME NEW s \in Requests, req'[s].pc \in Counted
        PROVE  req'[s] = req[s]
    <3>1. CASE req[s].pc = "page"
      <4> DEFINE mid == IF st = "active" THEN Joined(req[s], o, u) ELSE req[s]
                 new == [mid EXCEPT !.stable = @ \intersect Listable(member', req[s])]
      <4>1. req'[s] = new
        BY <1>11, <3>1 DEF ChangeMember
      <4>2. IsListing(req[s])
        BY <3>1, FormByPlace DEF IInv, Sound
      <4>3. IsListing(mid) /\ mid.pc = "page"
        BY <3>1, <4>2, JoinedListing
      <4> HIDE DEF mid
      <4>4. new.pc = "page"
        BY <4>3 DEF IsListing, ListingFields
      <4> QED
        BY <2>2, <4>1, <4>4 DEF Counted
    <3>2. CASE req[s].pc = "view"
      <4>1. req[s] \in Viewing
        BY <3>2, FormByPlace DEF IInv, Sound
      <4> DEFINE may == req[s].allowed \/ ManagesIn(member', req[s].org, req[s].user)
      <4>2. req'[s] = [req[s] EXCEPT !.allowed = may]
        BY <1>11, <3>2 DEF ChangeMember
      <4> HIDE DEF may
      <4>3. req'[s].pc = "view"
        BY <4>1, <4>2 DEF Viewing
      <4> QED
        BY <2>2, <4>3 DEF Counted
    <3>3. CASE req[s].pc \notin {"page", "view"}
      BY <1>11, <3>3 DEF ChangeMember
    <3> QED
      BY <3>1, <3>2, <3>3
  <2> QED
    BY <2>1, <2>2, QuietKeepsCap
<1>12. CASE Tick \/ Seed \/ UNCHANGED vars
  <2>1. UNCHANGED <<shops, req>>
    BY <1>12 DEF Tick, Seed, vars
  <2> QED
    BY <2>1, QuietKeepsCap
<1> QED
  BY <1>1, <1>2, <1>3, <1>4, <1>5, <1>6, <1>7, <1>8, <1>9, <1>10, <1>11, <1>12 DEF Next

\* org-provisioning.service counts without a lock: nobody has more shops than the cap
\* and one for each other request, however the requests interleave and die.
THEOREM CapExceededByRequestsOnly ==
    ASSUME IsFiniteSet(Requests), Requests # {}, IsFiniteSet(OrgIds)
    PROVE  Spec => []CapNearlyHolds
<1>1. Init => CapBound
  <2> SUFFICES ASSUME Init, NEW u \in Users
               PROVE  Cardinality(CreatedBy(u)) + Cardinality(Pending(u))
                          <= MAX_ORGS_PER_USER + Cardinality(Requests) - 1
    BY DEF CapBound
  <2>1. CreatedBy(u) = {} /\ Pending(u) = {}
    BY DEF Init, CreatedBy, Pending, Idle
  <2>2. Cardinality(CreatedBy(u)) = 0 /\ Cardinality(Pending(u)) = 0
    BY <2>1, FS_EmptySet
  <2>3. Cardinality(Requests) \in Nat /\ Cardinality(Requests) # 0
    BY FS_EmptySet, FS_CardinalityType
  <2> QED
    BY <2>2, <2>3, SetupAssumption
<1>2. IInv /\ CapBound /\ [Next]_vars => CapBound'
  BY NextCap
<1>3. IInv /\ CapBound => CapNearlyHolds
  <2> SUFFICES ASSUME IInv, CapBound, NEW u \in Users
               PROVE  Cardinality(CreatedBy(u)) <= MAX_ORGS_PER_USER + Cardinality(Requests) - 1
    BY DEF CapNearlyHolds, IInv
  <2>1. Cardinality(CreatedBy(u)) + Cardinality(Pending(u))
            <= MAX_ORGS_PER_USER + Cardinality(Requests) - 1
    BY DEF CapBound
  <2> QED
    BY <2>1, CapCounts, SetupAssumption
<1> QED
  BY <1>1, <1>2, <1>3, Invariant, PTL DEF Spec
-----------------------------------------------------------------------------
(***************************************************************************)
(* The check digit.                                                        *)
(***************************************************************************)
\* Eleven minus the remainder, modulo ten, tells all remainders apart but 0 and 10.
LEMMA SameCheckDigit ==
    ASSUME NEW a \in 0 .. 10, NEW b \in 0 .. 10, (11 - a) % 10 = (11 - b) % 10
    PROVE  a = b \/ {a, b} = {0, 10}
<1>1. (11 - a) % 10 = IF a = 0 THEN 1 ELSE IF a = 1 THEN 0 ELSE 11 - a
  OBVIOUS
<1>2. (11 - b) % 10 = IF b = 0 THEN 1 ELSE IF b = 1 THEN 0 ELSE 11 - b
  OBVIOUS
<1> QED
  BY <1>1, <1>2

\* Equal remainders are a multiple of eleven apart, ...
LEMMA SameRemainder ==
    ASSUME NEW x \in Nat, NEW y \in Nat, x % 11 = y % 11
    PROVE  \E k \in Int : x - y = 11 * k
<1>1. x = (11 * (x \div 11)) + (x % 11) /\ x \div 11 \in Int
  OBVIOUS
<1>2. y = (11 * (y \div 11)) + (y % 11) /\ y \div 11 \in Int
  OBVIOUS
<1>3. x - y = 11 * ((x \div 11) - (y \div 11))
  BY <1>1, <1>2
<1> QED
  BY <1>1, <1>2, <1>3

\* ... and one digit other than the third never moves the sum by such a multiple.
Thirteen == [1 .. 13 -> 0 .. 9]

LEMMA SumIsNat ==
    ASSUME NEW d \in Thirteen
    PROVE  WeightedSum(d) \in Nat
<1>1. ASSUME NEW j \in 1 .. 12
      PROVE  \E x \in 0 .. 9 : d[j] = x
  BY DEF Thirteen
<1> PICK x1 \in 0 .. 9 : d[1] = x1
  BY <1>1
<1> PICK x2 \in 0 .. 9 : d[2] = x2
  BY <1>1
<1> PICK x3 \in 0 .. 9 : d[3] = x3
  BY <1>1
<1> PICK x4 \in 0 .. 9 : d[4] = x4
  BY <1>1
<1> PICK x5 \in 0 .. 9 : d[5] = x5
  BY <1>1
<1> PICK x6 \in 0 .. 9 : d[6] = x6
  BY <1>1
<1> PICK x7 \in 0 .. 9 : d[7] = x7
  BY <1>1
<1> PICK x8 \in 0 .. 9 : d[8] = x8
  BY <1>1
<1> PICK x9 \in 0 .. 9 : d[9] = x9
  BY <1>1
<1> PICK x10 \in 0 .. 9 : d[10] = x10
  BY <1>1
<1> PICK x11 \in 0 .. 9 : d[11] = x11
  BY <1>1
<1> PICK x12 \in 0 .. 9 : d[12] = x12
  BY <1>1
<1> QED
  BY DEF WeightedSum

LEMMA OneDigitMoves ==
    ASSUME NEW d \in Thirteen, NEW n \in Thirteen, NEW i \in 0 .. 11, i # 2,
           Digit(d, i) # Digit(n, i), \A j \in 0 .. 11 \ {i} : Digit(d, j) = Digit(n, j)
    PROVE  ~\E k \in Int : WeightedSum(d) - WeightedSum(n) = 11 * k
<1> SUFFICES ASSUME NEW k \in Int, WeightedSum(d) - WeightedSum(n) = 11 * k
             PROVE  FALSE
  OBVIOUS
<1>1. ASSUME NEW j \in 1 .. 12
      PROVE  d[j] \in 0 .. 9 /\ n[j] \in 0 .. 9 /\ (i = j - 1 <=> d[j] # n[j])
  <2>1. j - 1 \in 0 .. 11 /\ (j - 1) + 1 = j
    OBVIOUS
  <2>2. i = j - 1 <=> d[j] # n[j]
    BY <2>1 DEF Digit
  <2>3. d[j] \in 0 .. 9 /\ n[j] \in 0 .. 9
    BY DEF Thirteen
  <2> QED
    BY <2>2, <2>3
<1> PICK x1, y1 \in 0 .. 9 : d[1] = x1 /\ n[1] = y1 /\ (i = 1 - 1 <=> x1 # y1)
  BY <1>1
<1> PICK x2, y2 \in 0 .. 9 : d[2] = x2 /\ n[2] = y2 /\ (i = 2 - 1 <=> x2 # y2)
  BY <1>1
<1> PICK x3, y3 \in 0 .. 9 : d[3] = x3 /\ n[3] = y3 /\ (i = 3 - 1 <=> x3 # y3)
  BY <1>1
<1> PICK x4, y4 \in 0 .. 9 : d[4] = x4 /\ n[4] = y4 /\ (i = 4 - 1 <=> x4 # y4)
  BY <1>1
<1> PICK x5, y5 \in 0 .. 9 : d[5] = x5 /\ n[5] = y5 /\ (i = 5 - 1 <=> x5 # y5)
  BY <1>1
<1> PICK x6, y6 \in 0 .. 9 : d[6] = x6 /\ n[6] = y6 /\ (i = 6 - 1 <=> x6 # y6)
  BY <1>1
<1> PICK x7, y7 \in 0 .. 9 : d[7] = x7 /\ n[7] = y7 /\ (i = 7 - 1 <=> x7 # y7)
  BY <1>1
<1> PICK x8, y8 \in 0 .. 9 : d[8] = x8 /\ n[8] = y8 /\ (i = 8 - 1 <=> x8 # y8)
  BY <1>1
<1> PICK x9, y9 \in 0 .. 9 : d[9] = x9 /\ n[9] = y9 /\ (i = 9 - 1 <=> x9 # y9)
  BY <1>1
<1> PICK x10, y10 \in 0 .. 9 : d[10] = x10 /\ n[10] = y10 /\ (i = 10 - 1 <=> x10 # y10)
  BY <1>1
<1> PICK x11, y11 \in 0 .. 9 : d[11] = x11 /\ n[11] = y11 /\ (i = 11 - 1 <=> x11 # y11)
  BY <1>1
<1> PICK x12, y12 \in 0 .. 9 : d[12] = x12 /\ n[12] = y12 /\ (i = 12 - 1 <=> x12 # y12)
  BY <1>1
<1>2. (13 * x1 + 12 * x2 + 11 * x3 + 10 * x4 + 9 * x5 + 8 * x6 + 7 * x7
       + 6 * x8 + 5 * x9 + 4 * x10 + 3 * x11 + 2 * x12)
      - (13 * y1 + 12 * y2 + 11 * y3 + 10 * y4 + 9 * y5 + 8 * y6 + 7 * y7
         + 6 * y8 + 5 * y9 + 4 * y10 + 3 * y11 + 2 * y12) = 11 * k
  BY DEF WeightedSum
<1>3. CASE i = 0
  <2>1. 13 * (x1 - y1) = 11 * k /\ x1 # y1
    BY <1>2, <1>3
  <2> QED
    BY <2>1
<1>4. CASE i = 1
  <2>1. 12 * (x2 - y2) = 11 * k /\ x2 # y2
    BY <1>2, <1>4
  <2> QED
    BY <2>1
<1>5. CASE i = 3
  <2>1. 10 * (x4 - y4) = 11 * k /\ x4 # y4
    BY <1>2, <1>5
  <2> QED
    BY <2>1
<1>6. CASE i = 4
  <2>1. 9 * (x5 - y5) = 11 * k /\ x5 # y5
    BY <1>2, <1>6
  <2> QED
    BY <2>1
<1>7. CASE i = 5
  <2>1. 8 * (x6 - y6) = 11 * k /\ x6 # y6
    BY <1>2, <1>7
  <2> QED
    BY <2>1
<1>8. CASE i = 6
  <2>1. 7 * (x7 - y7) = 11 * k /\ x7 # y7
    BY <1>2, <1>8
  <2> QED
    BY <2>1
<1>9. CASE i = 7
  <2>1. 6 * (x8 - y8) = 11 * k /\ x8 # y8
    BY <1>2, <1>9
  <2> QED
    BY <2>1
<1>10. CASE i = 8
  <2>1. 5 * (x9 - y9) = 11 * k /\ x9 # y9
    BY <1>2, <1>10
  <2> QED
    BY <2>1
<1>11. CASE i = 9
  <2>1. 4 * (x10 - y10) = 11 * k /\ x10 # y10
    BY <1>2, <1>11
  <2> QED
    BY <2>1
<1>12. CASE i = 10
  <2>1. 3 * (x11 - y11) = 11 * k /\ x11 # y11
    BY <1>2, <1>12
  <2> QED
    BY <2>1
<1>13. CASE i = 11
  <2>1. 2 * (x12 - y12) = 11 * k /\ x12 # y12
    BY <1>2, <1>13
  <2> QED
    BY <2>1
<1> QED
  BY <1>3, <1>4, <1>5, <1>6, <1>7, <1>8, <1>9, <1>10, <1>11, <1>12, <1>13

\* A number with a good check digit that is one digit off another such number differs
\* where the algorithm is blind.
LEMMA OneTypoIsBlind ==
    ASSUME NEW d \in Thirteen, NEW n \in Thirteen,
           d[13] = checkDigit(d), n[13] = checkDigit(n), Cardinality(Differ(d, n)) = 1
    PROVE  Blind(d, n)
<1>1. PICK i : Differ(d, n) = {i}
  <2>1. Differ(d, n) \subseteq 0 .. 12 /\ IsFiniteSet(0 .. 12)
    <3>1. IsFiniteSet(0 .. 12)
      BY FS_Interval, 0 \in Int, 12 \in Int
    <3> QED
      BY <3>1 DEF Differ
  <2>2. IsFiniteSet(Differ(d, n))
    BY <2>1, FS_Subset
  <2> QED
    BY <2>2, FS_Singleton
<1>2. /\ i \in 0 .. 12 /\ Digit(d, i) # Digit(n, i)
      /\ \A j \in 0 .. 12 \ {i} : Digit(d, j) = Digit(n, j)
  BY <1>1 DEF Differ
<1>3. WeightedSum(d) \in Nat /\ WeightedSum(n) \in Nat
  BY SumIsNat
<1>4. WeightedSum(d) % 11 \in 0 .. 10 /\ WeightedSum(n) % 11 \in 0 .. 10
  BY <1>3
<1>5. CASE i = 12
  <2>1. \A j \in 1 .. 12 : d[j] = n[j]
    <3>1. ASSUME NEW j \in 1 .. 12 PROVE d[j] = n[j]
      <4>1. j - 1 \in 0 .. 12 \ {i} /\ (j - 1) + 1 = j
        BY <1>5
      <4>2. Digit(d, j - 1) = Digit(n, j - 1)
        BY <1>2, <4>1
      <4> QED
        BY <4>1, <4>2 DEF Digit
    <3> QED
      BY <3>1
  <2>2. WeightedSum(d) = WeightedSum(n)
    BY <2>1 DEF WeightedSum
  <2>3. d[13] = n[13]
    BY <2>2 DEF checkDigit
  <2> QED
    BY <1>2, <1>5, <2>3 DEF Digit
<1>6. CASE i # 12 /\ i # 2
  <2>1. i \in 0 .. 11 /\ \A j \in 0 .. 11 \ {i} : Digit(d, j) = Digit(n, j)
    BY <1>2, <1>6
  <2>2. ~(WeightedSum(d) % 11 = WeightedSum(n) % 11)
    BY <1>2, <1>3, <1>6, <2>1, OneDigitMoves, SameRemainder
  <2>3. checkDigit(d) = checkDigit(n)
    <3>1. 12 \in 0 .. 12 \ {i}
      BY <1>6
    <3>2. Digit(d, 12) = Digit(n, 12)
      BY <1>2, <3>1
    <3> QED
      BY <3>2 DEF Digit
  <2>4. {WeightedSum(d) % 11, WeightedSum(n) % 11} = {0, 10}
    <3> DEFINE a == WeightedSum(d) % 11
               b == WeightedSum(n) % 11
    <3>1. (11 - a) % 10 = (11 - b) % 10 /\ a # b
      BY <2>2, <2>3 DEF checkDigit
    <3>2. a \in 0 .. 10 /\ b \in 0 .. 10
      BY <1>4
    <3> HIDE DEF a, b
    <3>3. {a, b} = {0, 10}
      BY <3>1, <3>2, SameCheckDigit
    <3> QED
      BY <3>3 DEF a, b
  <2> QED
    BY <2>4 DEF Blind
<1>7. CASE i = 2
  BY <1>1, <1>7 DEF Blind
<1> QED
  BY <1>5, <1>6, <1>7

\* The numbers that pass validateTaxProfilePut; nothing else is ever stored.
Storable ==
    {normalizeThaiTaxId(body.taxId) :
        body \in {x \in TaxBodies : x.taxId # None /\ isValidThaiTaxId(x.taxId)}}

StoredChecked ==
    \A o \in OrgIds : shops[o] # None => shops[o].tax.taxId \in Storable \union {None}

\* Only PUT writes the columns of the tax profile.
LEMMA NextStoresChecked ==
    ASSUME IInv, StoredChecked, [Next]_vars
    PROVE  StoredChecked'
<1>1. shops \in [OrgIds -> ShopRow \union {None}] /\ BusyOrgs \subseteq OrgIds
  BY SetupAssumption DEF IInv, TypeOK
<1>2. ASSUME NEW o \in OrgIds, NEW shop, shops' = [shops EXCEPT ![o] = shop],
             shop.tax.taxId \in Storable \union {None}
      PROVE  StoredChecked'
  BY <1>1, <1>2 DEF StoredChecked
<1>3. ASSUME NEW o \in OrgIds, shops[o] \in ShopRow, NEW shop \in ShopRow, Update(o, shop),
             shop.tax.taxId \in Storable \union {None}
      PROVE  StoredChecked'
  <2> DEFINE newer == [shop EXCEPT !.ver = @ + 1]
  <2>1. newer.tax = shop.tax /\ shops' = [shops EXCEPT ![o] = newer]
    BY <1>3 DEF ShopRow, Update
  <2> HIDE DEF newer
  <2> QED
    BY <1>2, <1>3, <2>1
<1>4. ASSUME NEW r \in Requests, TxCommit(r)
      PROVE  StoredChecked'
  <2> DEFINE shop == NewShop(req[r].user, req[r].timezone, req[r].parts)
  <2>1. req[r].org \in OrgIds
    BY <1>4, FormByPlace DEF TxCommit, IInv, Sound, Creating
  <2>2. shop.tax.taxId = None
    BY DEF NewShop, TAX_PROFILE_CLEARED
  <2>3. shops' = [shops EXCEPT ![req[r].org] = shop]
    BY <1>4 DEF TxCommit
  <2> HIDE DEF shop
  <2>4. PICK o \in OrgIds : o = req[r].org
    BY <2>1
  <2> QED
    BY <1>2, <2>2, <2>3, <2>4
<1>5. ASSUME NEW r \in Requests, NEW u \in Users, NEW o \in BusyOrgs, NEW body \in Patches,
             update(r, u, o, body)
      PROVE  StoredChecked'
  <2> DEFINE columns == validateOrgProfilePatch(body).columns
             shop == IF "timezone" \in columns THEN [shops[o] EXCEPT !.timezone = body.timezone]
                     ELSE shops[o]
  <2>1. UNCHANGED shops \/ Update(o, shop)
    BY <1>5 DEF update
  <2>2. o \in OrgIds /\ shops[o] # None /\ shops[o] \in ShopRow
    BY <1>1, <1>5 DEF update, CanWrite, Manages, ManagesIn, IInv, ShopsSound
  <2>3. "timezone" \in columns => body.timezone \in supportedTimezones
    BY DEF validateOrgProfilePatch, isSupportedTimezone
  <2> HIDE DEF columns
  <2>4. shop \in ShopRow /\ shop.tax = shops[o].tax
    BY <2>2, <2>3 DEF ShopRow
  <2> HIDE DEF shop
  <2>5. shop.tax.taxId \in Storable \union {None}
    BY <2>2, <2>4 DEF StoredChecked
  <2> QED
    BY <1>3, <2>1, <2>2, <2>4, <2>5 DEF StoredChecked
<1>6. ASSUME NEW r \in Requests, NEW u \in Users, NEW o \in BusyOrgs, NEW body \in TaxBodies,
             set(r, u, o, body)
      PROVE  StoredChecked'
  <2> DEFINE t == TaxProfileWrite(body)
             shop == [shops[o] EXCEPT !.tax = t]
  <2>1. Update(o, shop) /\ validateTaxProfilePut(body)
    BY <1>6 DEF set
  <2>2. o \in OrgIds /\ shops[o] # None /\ shops[o] \in ShopRow
    BY <1>1, <1>6 DEF set, CanWrite, Manages, ManagesIn, IInv, ShopsSound
  <2>3. t.taxId \in Storable \union {None} /\ t \in TaxRow
    <3>1. t.taxId = IF body.taxId = None THEN None ELSE normalizeThaiTaxId(body.taxId)
      BY DEF TaxProfileWrite
    <3>2. body \in TaxForms
      BY TaxAssumption
    <3>3. body.taxId # None => isValidThaiTaxId(body.taxId)
      BY <2>1, <3>2 DEF validateTaxProfilePut, TaxForms
    <3> QED
      BY <2>1, <3>1, <3>3, StoredWhole DEF Storable
  <2> HIDE DEF t
  <2>4. shop \in ShopRow /\ shop.tax = t
    BY <2>2, <2>3 DEF ShopRow
  <2> HIDE DEF shop
  <2> QED
    BY <1>3, <2>1, <2>2, <2>3, <2>4
<1>7. UNCHANGED shops => StoredChecked'
  BY DEF StoredChecked
<1>8. ASSUME NEW r \in Requests,
             \/ resolveForNewOrg(r) \/ TxStatement(r) \/ emitCreated(r) \/ list(r)
             \/ readOrganization(r) \/ readMembership(r) \/ toOrgProfileView(r)
             \/ toTaxProfileReveal(r) \/ Die(r) \/ Finish(r)
      PROVE  UNCHANGED shops
  BY <1>8 DEF resolveForNewOrg, TxStatement, emitCreated, list, readOrganization,
              readMembership, toOrgProfileView, toTaxProfileReveal, Die, Finish
<1>9. ASSUME NEW r \in Requests, NEW u \in Users,
             \/ \E body \in NewOrgs : create(r, u, body)
             \/ \E all \in BOOLEAN : \/ startList(r, "myOrganizations", u, None, all)
                                   \/ \E o \in BusyOrgs : startList(r, "members", u, o, all)
             \/ \E o \in BusyOrgs : get(r, u, o) \/ reveal(r, u, o)
      PROVE  UNCHANGED shops
  BY <1>9 DEF create, startList, get, reveal
<1>10. (\E o \in BusyOrgs, u \in Users, st \in {"active", "revoked"}, mg \in BOOLEAN :
            ChangeMember(o, u, st, mg)) => UNCHANGED shops
  BY DEF ChangeMember
<1>11. Tick \/ Seed \/ UNCHANGED vars => UNCHANGED shops
  BY DEF Tick, Seed, vars
<1> QED
  BY <1>4, <1>5, <1>6, <1>7, <1>8, <1>9, <1>10, <1>11 DEF Next

\* thai-tax-id.ts: whatever numbers were issued, and however many profiles are written,
\* a stored number that is one digit off an issued one is off in the third digit, or
\* where remainders zero and ten meet.
THEOREM TyposAreCaught ==
    ASSUME OneTypo, \A n \in RealNumbers : n \in Thirteen /\ n[13] = checkDigit(n)
    PROVE  Spec => []TyposCaught
<1>1. Init => StoredChecked
  BY DEF Init, StoredChecked
<1>2. IInv /\ StoredChecked /\ [Next]_vars => StoredChecked'
  BY NextStoresChecked
<1>3. StoredChecked => TyposCaught
  <2> SUFFICES ASSUME StoredChecked, NEW o \in BusyOrgs, shops[o] # None,
                      NEW d, d = shops[o].tax.taxId, d # None, d \notin RealNumbers
               PROVE  \E n \in RealNumbers : Cardinality(Differ(d, n)) = 1 /\ Blind(d, n)
    BY DEF TyposCaught
  <2>1. PICK body \in TaxBodies : /\ body.taxId # None /\ isValidThaiTaxId(body.taxId)
                                 /\ d = body.taxId.digits
    BY SetupAssumption DEF StoredChecked, Storable, normalizeThaiTaxId
  <2>2. d \in Seq(0 .. 9) /\ Len(d) = 13 /\ d[13] = checkDigit(d)
    BY <2>1, TaxAssumption DEF TaxForms, isValidThaiTaxId, normalizeThaiTaxId
  <2>3. d \in Thirteen
    <3>1. d \in [1 .. Len(d) -> 0 .. 9]
      BY <2>2, LenProperties
    <3> QED
      BY <2>2, <3>1 DEF Thirteen
  <2>4. PICK n \in RealNumbers : Cardinality(Differ(d, n)) = 1
    BY <2>1, <2>2 DEF OneTypo
  <2>5. n \in Thirteen /\ n[13] = checkDigit(n)
    OBVIOUS
  <2> QED
    BY <2>2, <2>3, <2>4, <2>5, OneTypoIsBlind
<1> QED
  BY <1>1, <1>2, <1>3, Invariant, PTL DEF Spec

-----------------------------------------------------------------------------
(***************************************************************************)
(* Pages.                                                                  *)
(***************************************************************************)
\* Positions are ordered by date, then by id.
LEMMA PositionsOrdered ==
    ASSUME NEW a \in Position, NEW b \in Position, NEW c \in Position
    PROVE  /\ ~Precedes(a, a)
           /\ Precedes(a, b) => ~Precedes(b, a)
           /\ Precedes(a, b) \/ a = b \/ Precedes(b, a)
           /\ Precedes(a, b) /\ Precedes(b, c) => Precedes(a, c)
BY DEF Precedes, Position

\* What is listed is a finite set of positions.
LEMMA ListableRows ==
    ASSUME TypeOK, IsFiniteSet(Users), IsFiniteSet(OrgIds), NEW q, q.user \in Users,
           q.kind # "myOrganizations" => q.org \in OrgIds
    PROVE  Listable(member, q) \subseteq Position /\ IsFiniteSet(Listable(member, q))
<1>1. \A o \in OrgIds, u \in Users : member[o][u] # None => member[o][u].at \in Nat
  BY DEF TypeOK, MembershipRow
<1>2. Users \subseteq Nat /\ OrgIds \subseteq Nat
  BY SetupAssumption
<1>3. CASE q.kind = "myOrganizations"
  <2> DEFINE D == {x \in OrgIds : Passes(q.all, member[x][q.user])}
             f == [o \in D |-> [at |-> member[o][q.user].at, id |-> o]]
  <2>1. Listable(member, q) = {f[o] : o \in D}
    BY <1>3 DEF Listable
  <2>2. f \in Surjection(D, Listable(member, q)) /\ IsFiniteSet(D)
    BY <2>1, FS_Subset DEF Surjection
  <2>3. \A o \in D : f[o] \in Position
    BY <1>1, <1>2 DEF Position, Passes
  <2> HIDE DEF f, D
  <2> QED
    BY <2>1, <2>2, <2>3, FS_Surjection
<1>4. CASE q.kind # "myOrganizations"
  <2> DEFINE D == {x \in Users : Passes(q.all, member[q.org][x])}
             f == [u \in D |-> [at |-> member[q.org][u].at, id |-> u]]
  <2>1. Listable(member, q) = {f[u] : u \in D}
    BY <1>4 DEF Listable
  <2>2. f \in Surjection(D, Listable(member, q)) /\ IsFiniteSet(D)
    BY <2>1, FS_Subset DEF Surjection
  <2>3. \A u \in D : f[u] \in Position
    BY <1>1, <1>2, <1>4 DEF Position, Passes
  <2> HIDE DEF f, D
  <2> QED
    BY <2>1, <2>2, <2>3, FS_Surjection
<1> QED
  BY <1>3, <1>4

\* A page of the rows left: they come newest first and each once; without a next
\* page they are all there, and with one those that are not there precede the cursor.
LEMMA PageIsExact ==
    ASSUME NEW S, S \subseteq Position, IsFiniteSet(S), NEW rows \in NewestFirst(S)
    PROVE  LET page == PageOf(S, rows)
           IN  /\ page.items \in Seq(Position) /\ IsInjective(page.items)
               /\ \A i \in DOMAIN page.items : page.items[i] \in S
               /\ page.nextCursor \in Position \union {None}
               /\ page.nextCursor = None => S \subseteq ToSet(page.items)
               /\ page.nextCursor # None =>
                     /\ page.nextCursor \in S
                     /\ \A i \in DOMAIN page.items : ~Precedes(page.items[i], page.nextCursor)
                     /\ \A x \in S : x \in ToSet(page.items) \/ Precedes(x, page.nextCursor)
<1> DEFINE n == Cardinality(S)
           fetched == SubSeq(rows, 1, Take(S))
<1>1. n \in Nat /\ PageSize \in Nat /\ PageSize # 0
  BY FS_CardinalityType, SetupAssumption
<1>2. /\ rows \in [1 .. n -> S] /\ DOMAIN rows = 1 .. n
      /\ \A x \in S : \E i \in 1 .. n : rows[i] = x
      /\ \A i, j \in 1 .. n : i < j => Precedes(rows[j], rows[i])
  BY DEF NewestFirst, Precedes
<1>3. Take(S) \in 0 .. n /\ Take(S) = IF n > PageSize THEN PageSize + 1 ELSE n
  BY <1>1 DEF Take
<1>4. \A i \in 1 .. n : rows[i] \in S /\ rows[i] \in Position
  BY <1>2
<1>5. \A i, j \in 1 .. n : rows[i] = rows[j] => i = j
  <2> SUFFICES ASSUME NEW i \in 1 .. n, NEW j \in 1 .. n, i < j, rows[i] = rows[j] PROVE FALSE
    BY <1>1
  <2> QED
    BY <1>2, <1>4, PositionsOrdered
<1> HIDE DEF n
<1>6. /\ fetched \in Seq(Position) /\ Len(fetched) = Take(S)
      /\ \A i \in 1 .. Take(S) : fetched[i] = rows[i]
  <2>1. \A i \in 1 .. Take(S) : rows[i] \in Position
    BY <1>1, <1>3, <1>4
  <2>2. /\ fetched \in Seq(Position)
        /\ Len(fetched) = IF 1 <= Take(S) THEN Take(S) - 1 + 1 ELSE 0
        /\ \A i \in 1 .. Take(S) - 1 + 1 : fetched[i] = rows[1 + i - 1]
    BY <1>3, <2>1, SubSeqProperties
  <2> QED
    BY <1>1, <1>3, <2>2
<1> HIDE DEF fetched
<1>7. CASE n <= PageSize
  <2>1. PageOf(S, rows) = [items |-> fetched, nextCursor |-> None] /\ Take(S) = n
    BY <1>1, <1>3, <1>6, <1>7 DEF PageOf, paginate, fetched
  <2>2. DOMAIN fetched = 1 .. n
    BY <1>6, <2>1, LenProperties
  <2>3. IsInjective(fetched)
    BY <1>5, <1>6, <2>1, <2>2 DEF IsInjective
  <2>4. S \subseteq ToSet(fetched)
    BY <1>2, <1>6, <2>1, <2>2 DEF ToSet
  <2> QED
    BY <1>4, <1>6, <2>1, <2>2, <2>3, <2>4
<1>8. CASE n > PageSize
  <2> DEFINE items == SubSeq(fetched, 1, PageSize)
             cursor == fetched[PageSize]
  <2>1. Take(S) = PageSize + 1 /\ PageSize \in 1 .. n /\ PageSize \in 1 .. Take(S)
    BY <1>1, <1>3, <1>8
  <2>2. PageOf(S, rows) = [items |-> items, nextCursor |-> cursor]
    BY <1>1, <1>6, <2>1 DEF PageOf, paginate, fetched
  <2>3. cursor = rows[PageSize] /\ cursor \in S /\ cursor \in Position /\ cursor # None
    BY <1>4, <1>6, <2>1, PositionAssumption
  <2>4. /\ items \in Seq(Position) /\ Len(items) = PageSize
        /\ \A i \in 1 .. PageSize : items[i] = rows[i]
    <3>1. \A i \in 1 .. PageSize : fetched[i] \in Position /\ fetched[i] = rows[i]
      BY <1>1, <1>4, <1>6, <2>1
    <3>2. /\ items \in Seq(Position)
          /\ Len(items) = IF 1 <= PageSize THEN PageSize - 1 + 1 ELSE 0
          /\ \A i \in 1 .. PageSize - 1 + 1 : items[i] = fetched[1 + i - 1]
      BY <1>1, <3>1, SubSeqProperties
    <3> QED
      BY <1>1, <3>1, <3>2
  <2>5. DOMAIN items = 1 .. PageSize
    BY <2>4, LenProperties
  <2> HIDE DEF items, cursor
  <2>6. IsInjective(items)
    BY <1>1, <1>5, <2>1, <2>4, <2>5 DEF IsInjective
  <2>7. ASSUME NEW i \in DOMAIN items
        PROVE  items[i] \in S /\ ~Precedes(items[i], cursor)
    <3>1. i \in 1 .. n /\ i <= PageSize /\ i \in Int /\ items[i] = rows[i]
      BY <1>1, <2>1, <2>4, <2>5
    <3>2. CASE i = PageSize
      BY <1>4, <2>3, <3>1, <3>2, PositionsOrdered
    <3>3. CASE i # PageSize
      <4>1. Precedes(cursor, items[i])
        BY <1>1, <1>2, <2>1, <2>3, <3>1, <3>3
      <4> QED
        BY <1>4, <2>3, <3>1, <4>1, PositionsOrdered
    <3> QED
      BY <3>2, <3>3
  <2>8. ASSUME NEW x \in S
        PROVE  x \in ToSet(items) \/ Precedes(x, cursor)
    <3>1. PICK i \in 1 .. n : rows[i] = x
      BY <1>2
    <3>2. CASE i <= PageSize
      <4>1. i \in 1 .. PageSize
        BY <1>1, <3>2
      <4> QED
        BY <2>4, <2>5, <3>1, <4>1 DEF ToSet
    <3>3. CASE i > PageSize
      BY <1>1, <1>2, <2>1, <2>3, <3>1, <3>3
    <3> QED
      BY <1>1, <3>2, <3>3
  <2> QED
    BY <2>2, <2>3, <2>4, <2>6, <2>7, <2>8
<1> QED
  BY <1>1, <1>7, <1>8

\* A listing knows its organization; no row has been shown twice; between two pages
\* the rows shown do not precede the cursor, and of the rows listable ever since the
\* first page those not shown yet do; in the end all of them have been shown.
Paged(q, M) ==
    q.pc \in {"page", "listed"} =>
        /\ q.kind # "myOrganizations" => q.org \in OrgIds
        /\ q.seen \in Seq(Position) /\ IsInjective(q.seen)
        /\ q.pc = "page" =>
              /\ q.cursor \in Position \union {None}
              /\ q.cursor = None => q.seen = <<>>
              /\ q.cursor # None => \A i \in DOMAIN q.seen : ~Precedes(q.seen[i], q.cursor)
              /\ q.stable \subseteq Listable(M, q)
              /\ q.cursor # None =>
                    \A x \in q.stable : x \in ToSet(q.seen) \/ Precedes(x, q.cursor)
        /\ q.pc = "listed" => q.stable \subseteq ToSet(q.seen)

PagesInv == \A r \in Requests : Paged(req[r], member)

\* Pages already turned stay as they are while rows are added.
LEMMA PagesStand ==
    ASSUME NEW q, NEW M, NEW N, Paged(q, M), q.pc = "page" => Listable(M, q) \subseteq Listable(N, q)
    PROVE  Paged(q, N)
BY DEF Paged

\* What was shown and what is shown next, together.
LEMMA Appended ==
    ASSUME NEW a \in Seq(Position), NEW b \in Seq(Position), IsInjective(a), IsInjective(b),
           ToSet(a) \intersect ToSet(b) = {}
    PROVE  /\ a \o b \in Seq(Position) /\ IsInjective(a \o b)
           /\ ToSet(a \o b) = ToSet(a) \union ToSet(b)
<1> DEFINE m == Len(a)
           k == Len(b)
           c == a \o b
<1>1. m \in Nat /\ k \in Nat /\ DOMAIN a = 1 .. m /\ DOMAIN b = 1 .. k
  BY LenProperties
<1>2. /\ c \in Seq(Position) /\ Len(c) = m + k
      /\ \A i \in 1 .. m + k : c[i] = IF i <= m THEN a[i] ELSE b[i - m]
  BY ConcatProperties
<1>3. DOMAIN c = 1 .. Len(c)
  BY <1>2, LenProperties
<1> HIDE DEF m, k, c
<1>4. DOMAIN c = 1 .. m + k
  BY <1>2, <1>3
<1>5. \A i \in 1 .. m : i \in 1 .. m + k /\ c[i] = a[i]
  BY <1>1, <1>2
<1>6. \A j \in 1 .. k : m + j \in 1 .. m + k /\ c[m + j] = b[j]
  <2> SUFFICES ASSUME NEW j \in 1 .. k, NEW i, i = m + j
               PROVE  i \in 1 .. m + k /\ c[i] = b[j]
    OBVIOUS
  <2>1. i \in 1 .. m + k /\ ~(i <= m) /\ i - m = j
    BY <1>1
  <2>2. c[i] = IF i <= m THEN a[i] ELSE b[i - m]
    BY <1>2, <2>1
  <2> QED
    BY <2>1, <2>2
<1>7. ASSUME NEW i \in 1 .. m + k
      PROVE  \/ i \in 1 .. m /\ c[i] = a[i]
             \/ \E j \in 1 .. k : i = m + j /\ c[i] = b[j]
  <2>1. CASE i <= m
    BY <1>1, <1>2, <2>1
  <2>2. CASE i > m
    <3>1. i - m \in 1 .. k /\ i = m + (i - m) /\ ~(i <= m)
      BY <1>1, <2>2
    <3>2. c[i] = b[i - m]
      BY <1>2, <3>1
    <3> QED
      BY <3>1, <3>2
  <2> QED
    BY <1>1, <2>1, <2>2
<1>8. ToSet(c) = ToSet(a) \union ToSet(b)
  <2>1. ToSet(c) \subseteq ToSet(a) \union ToSet(b)
    BY <1>1, <1>4, <1>7 DEF ToSet
  <2>2. ToSet(a) \subseteq ToSet(c)
    BY <1>1, <1>4, <1>5 DEF ToSet
  <2>3. ToSet(b) \subseteq ToSet(c)
    BY <1>1, <1>4, <1>6 DEF ToSet
  <2> QED
    BY <2>1, <2>2, <2>3
<1>9. \A i \in 1 .. m, j \in 1 .. k : a[i] # b[j]
  BY <1>1 DEF ToSet
<1>10. IsInjective(c)
  <2> SUFFICES ASSUME NEW i \in 1 .. m + k, NEW j \in 1 .. m + k, c[i] = c[j]
               PROVE  i = j
    BY <1>4 DEF IsInjective
  <2>1. CASE i \in 1 .. m /\ c[i] = a[i]
    <3>1. j \in 1 .. m /\ c[j] = a[j]
      BY <1>7, <1>9, <2>1
    <3> QED
      BY <1>1, <2>1, <3>1 DEF IsInjective
  <2>2. CASE \E l \in 1 .. k : i = m + l /\ c[i] = b[l]
    <3>1. PICK l \in 1 .. k : i = m + l /\ c[i] = b[l]
      BY <2>2
    <3>2. PICK n \in 1 .. k : j = m + n /\ c[j] = b[n]
      BY <1>7, <1>9, <3>1
    <3>3. l = n
      BY <1>1, <3>1, <3>2 DEF IsInjective
    <3> QED
      BY <3>1, <3>2, <3>3
  <2> QED
    BY <1>7, <2>1, <2>2
<1> QED
  BY <1>2, <1>8, <1>10 DEF c

\* One page more.
LEMMA TurnKeepsPages ==
    ASSUME TypeOK, IsFiniteSet(Users), IsFiniteSet(OrgIds), NEW q, IsListing(q), q.pc = "page",
           Paged(q, member), NEW rows \in NewestFirst(After(member, q))
    PROVE  Paged(Turned(q, PageOf(After(member, q), rows)), member)
<1> DEFINE S == After(member, q)
           page == PageOf(S, rows)
           new == Turned(q, page)
<1> SUFFICES Paged(new, member)
  OBVIOUS
<1>1. /\ q.kind # "myOrganizations" => q.org \in OrgIds
      /\ q.seen \in Seq(Position) /\ IsInjective(q.seen)
      /\ q.cursor \in Position \union {None}
      /\ q.cursor = None => q.seen = <<>>
      /\ q.cursor # None => \A i \in DOMAIN q.seen : ~Precedes(q.seen[i], q.cursor)
      /\ q.stable \subseteq Listable(member, q)
      /\ q.cursor # None => \A x \in q.stable : x \in ToSet(q.seen) \/ Precedes(x, q.cursor)
  BY DEF Paged
<1>2. Listable(member, q) \subseteq Position /\ IsFiniteSet(Listable(member, q))
  BY <1>1, ListableRows DEF IsListing
<1>3. S \subseteq Position /\ IsFiniteSet(S)
  BY <1>2, FS_Subset DEF After
<1>4. \A x \in S : q.cursor # None => Precedes(x, q.cursor)
  BY DEF After
<1>5. \A x \in q.stable : x \in ToSet(q.seen) \/ x \in S
  BY <1>1 DEF After
<1> HIDE DEF S
<1>6. /\ page.items \in Seq(Position) /\ IsInjective(page.items)
      /\ \A i \in DOMAIN page.items : page.items[i] \in S
      /\ page.nextCursor \in Position \union {None}
      /\ page.nextCursor = None => S \subseteq ToSet(page.items)
      /\ page.nextCursor # None =>
            /\ page.nextCursor \in S
            /\ \A i \in DOMAIN page.items : ~Precedes(page.items[i], page.nextCursor)
            /\ \A x \in S : x \in ToSet(page.items) \/ Precedes(x, page.nextCursor)
  BY <1>3, PageIsExact DEF S
<1> HIDE DEF page
<1>7. /\ new.pc = IF page.nextCursor = None THEN "listed" ELSE "page"
      /\ new.kind = q.kind /\ new.user = q.user /\ new.org = q.org /\ new.all = q.all
      /\ new.seen = q.seen \o page.items /\ new.cursor = page.nextCursor
      /\ new.stable = q.stable
  <2>1. /\ new.pc = IF page.nextCursor = None THEN "listed" ELSE q.pc
        /\ new.kind = q.kind /\ new.user = q.user
        /\ new.org = q.org /\ new.all = q.all
        /\ new.seen = q.seen \o page.items /\ new.cursor = page.nextCursor
        /\ new.stable = q.stable
    BY DEF Turned, IsListing, ListingFields
  <2> HIDE DEF new
  <2> QED
    BY <2>1
<1> HIDE DEF new
<1>8. ToSet(q.seen) \intersect ToSet(page.items) = {}
  <2> SUFFICES ASSUME NEW i \in DOMAIN q.seen, NEW j \in DOMAIN page.items,
                      q.seen[i] = page.items[j]
               PROVE  FALSE
    BY DEF ToSet
  <2>1. q.cursor # None
    <3>1. q.seen # <<>>
      BY LenProperties, <1>1
    <3> QED
      BY <1>1, <3>1
  <2>2. Precedes(page.items[j], q.cursor)
    BY <1>4, <1>6, <2>1
  <2> QED
    BY <1>1, <2>1, <2>2
<1>9. /\ new.seen \in Seq(Position) /\ IsInjective(new.seen)
      /\ ToSet(new.seen) = ToSet(q.seen) \union ToSet(page.items)
  BY <1>1, <1>6, <1>7, <1>8, Appended
<1>10. \A x \in q.stable :
          x \in ToSet(new.seen) \/ (page.nextCursor # None /\ Precedes(x, page.nextCursor))
  BY <1>5, <1>6, <1>9
<1>11. ASSUME page.nextCursor # None, NEW x \in ToSet(new.seen)
       PROVE  ~Precedes(x, page.nextCursor)
  <2>1. CASE x \in ToSet(page.items)
    BY <1>6, <1>11, <2>1 DEF ToSet
  <2>2. CASE x \in ToSet(q.seen)
    <3>1. PICK i \in DOMAIN q.seen : x = q.seen[i]
      BY <2>2 DEF ToSet
    <3>2. q.cursor # None
      <4>1. q.seen # <<>>
        BY <1>1, <3>1, LenProperties
      <4> QED
        BY <1>1, <4>1
    <3>3. q.cursor \in Position /\ ~Precedes(x, q.cursor) /\ x \in Position
      BY <1>1, <3>1, <3>2, LenProperties
    <3>4. page.nextCursor \in Position /\ Precedes(page.nextCursor, q.cursor)
      BY <1>3, <1>4, <1>6, <1>11, <3>2
    <3> QED
      BY <3>3, <3>4, PositionsOrdered
  <2> QED
    BY <1>9, <2>1, <2>2
<1>12. Listable(member, new) = Listable(member, q)
  BY <1>7 DEF Listable
<1>13. CASE page.nextCursor = None
  <2>1. new.pc = "listed" /\ new.stable \subseteq ToSet(new.seen)
    BY <1>7, <1>10, <1>13
  <2> QED
    BY <1>1, <1>7, <1>9, <2>1 DEF Paged
<1>14. CASE page.nextCursor # None
  <2>1. /\ new.pc = "page" /\ new.cursor \in Position \union {None} /\ new.cursor # None
        /\ \A i \in DOMAIN new.seen : ~Precedes(new.seen[i], new.cursor)
        /\ \A x \in new.stable : x \in ToSet(new.seen) \/ Precedes(x, new.cursor)
        /\ new.stable \subseteq Listable(member, new)
    BY <1>1, <1>6, <1>7, <1>10, <1>11, <1>12, <1>14 DEF ToSet
  <2> QED
    BY <1>1, <1>7, <1>9, <2>1 DEF Paged
<1> QED
  BY <1>13, <1>14

\* A request moves, to a place outside the lists, and no membership changes.
LEMMA MoveKeepsPages ==
    ASSUME IInv, PagesInv, NEW r \in Requests, NEW new, new.pc \notin {"page", "listed"},
           req' = [req EXCEPT ![r] = new], UNCHANGED member
    PROVE  PagesInv'
<1> SUFFICES ASSUME NEW s \in Requests PROVE Paged(req'[s], member')
  BY DEF PagesInv
<1>1. CASE s = r
  <2>1. req'[s] = new
    BY <1>1 DEF IInv
  <2> QED
    BY <2>1 DEF Paged
<1>2. CASE s # r
  <2>1. req'[s] = req[s]
    BY <1>2 DEF IInv
  <2> QED
    BY <2>1 DEF PagesInv
<1> QED
  BY <1>1, <1>2

\* The first page has still to be asked for.
LEMMA StartKeepsPages ==
    ASSUME IInv, PagesInv, NEW r \in Requests, NEW kind, NEW u \in Users, NEW o, NEW all,
           kind # "myOrganizations" => o \in OrgIds, startList(r, kind, u, o, all)
    PROVE  PagesInv'
<1> DEFINE q == [pc |-> "page", kind |-> kind, user |-> u, org |-> o, all |-> all,
                 cursor |-> None, seen |-> <<>>, full |-> {}, stable |-> {},
                 belonged |-> {x \in OrgIds : o = None /\ ActiveIn(x, u)}]
           rows == Listable(member, q)
           new == [q EXCEPT !.stable = rows]
<1>1. req' = [req EXCEPT ![r] = new] /\ UNCHANGED member
  BY DEF startList
<1>2. /\ new.pc = "page" /\ new.kind = kind /\ new.org = o /\ new.user = q.user
      /\ new.all = q.all /\ new.cursor = None /\ new.seen = <<>> /\ new.stable = rows
      /\ q.kind = kind /\ q.org = o
  OBVIOUS
<1> HIDE DEF q, rows, new
<1>3. rows = Listable(member, new)
  BY <1>2 DEF Listable, rows
<1>4. new.seen \in Seq(Position) /\ IsInjective(new.seen)
  <2>1. DOMAIN new.seen = {}
    BY <1>2
  <2> QED
    BY <1>2, <2>1 DEF IsInjective
<1>5. Paged(new, member)
  BY <1>2, <1>3, <1>4 DEF Paged
<1> SUFFICES ASSUME NEW s \in Requests PROVE Paged(req'[s], member')
  BY DEF PagesInv
<1>6. req'[s] = IF s = r THEN new ELSE req[s]
  BY <1>1 DEF IInv
<1> QED
  BY <1>1, <1>5, <1>6 DEF PagesInv

LEMMA ListKeepsPages ==
    ASSUME IsFiniteSet(Users), IsFiniteSet(OrgIds), IInv, PagesInv, NEW r \in Requests, list(r)
    PROVE  PagesInv'
<1>1. UNCHANGED member /\ req[r].pc = "page" /\ IsListing(req[r]) /\ TypeOK /\ Paged(req[r], member)
  BY ListMoves DEF IInv, PagesInv
<1>2. CASE req' = [req EXCEPT ![r] = Idle]
  BY <1>1, <1>2, MoveKeepsPages DEF Idle
<1>3. CASE req' # [req EXCEPT ![r] = Idle]
  <2>1. PICK rows \in NewestFirst(After(member, req[r])) :
          req' = [req EXCEPT ![r] = Turned(req[r], PageOf(After(member, req[r]), rows))]
    BY <1>3, ListMoves
  <2> DEFINE new == Turned(req[r], PageOf(After(member, req[r]), rows))
  <2>2. Paged(new, member)
    BY <1>1, TurnKeepsPages
  <2>3. req' = [req EXCEPT ![r] = new]
    BY <2>1
  <2> HIDE DEF new
  <2> SUFFICES ASSUME NEW s \in Requests PROVE Paged(req'[s], member')
    BY DEF PagesInv
  <2>4. req'[s] = IF s = r THEN new ELSE req[s]
    BY <2>3 DEF IInv
  <2> QED
    BY <1>1, <2>2, <2>4 DEF PagesInv
<1> QED
  BY <1>2, <1>3

\* What a listing notes of its user changes nothing of its pages.
LEMMA JoinedPages ==
    ASSUME NEW q, IsListing(q), NEW o, NEW u, NEW M
    PROVE  LET n == Joined(q, o, u)
           IN  /\ n.pc = q.pc /\ n.kind = q.kind /\ n.org = q.org /\ n.user = q.user
               /\ n.all = q.all /\ n.seen = q.seen /\ n.cursor = q.cursor /\ n.stable = q.stable
               /\ Listable(M, n) = Listable(M, q)
               /\ Paged(n, M) <=> Paged(q, M)
<1> DEFINE n == Joined(q, o, u)
           new == [q EXCEPT !.belonged = @ \union {o}]
<1>1. /\ new.pc = q.pc /\ new.kind = q.kind /\ new.org = q.org /\ new.user = q.user
      /\ new.all = q.all /\ new.seen = q.seen /\ new.cursor = q.cursor /\ new.stable = q.stable
  BY DEF IsListing, ListingFields
<1> HIDE DEF new
<1>2. n = new \/ n = q
  BY DEF Joined, new
<1> HIDE DEF n
<1>3. /\ n.pc = q.pc /\ n.kind = q.kind /\ n.org = q.org /\ n.user = q.user
      /\ n.all = q.all /\ n.seen = q.seen /\ n.cursor = q.cursor /\ n.stable = q.stable
  BY <1>1, <1>2
<1>4. Listable(M, n) = Listable(M, q)
  BY <1>3 DEF Listable
<1>5. Paged(n, M) <=> Paged(q, M)
  BY <1>3, <1>4 DEF Paged
<1> QED
  BY <1>3, <1>4, <1>5 DEF n

\* A new shop adds a row to the lists and takes none away.
LEMMA CommitKeepsPages ==
    ASSUME IInv, PagesInv, NEW r \in Requests, TxCommit(r)
    PROVE  PagesInv'
<1> DEFINE o == req[r].org
           u == req[r].user
<1>1. /\ req[r].pc = "tx" /\ o \in OrgIds /\ u \in Users
      /\ member' = [member EXCEPT ![o][u] = Owner(req[r].at)]
  BY FormByPlace DEF TxCommit, IInv, Sound, Creating
<1>2. member[o][u] = None
  BY <1>1 DEF IInv, Sound, TxSound, ShopsSound
<1>3. \A p \in OrgIds, v \in Users : member[p][v] # None => member'[p][v] = member[p][v]
  BY <1>1, <1>2 DEF IInv, TypeOK
<1> SUFFICES ASSUME NEW s \in Requests PROVE Paged(req'[s], member')
  BY DEF PagesInv
<1>4. CASE s = r
  <2>1. req'[s].pc = "emit"
    BY <1>4 DEF TxCommit
  <2> QED
    BY <2>1 DEF Paged
<1>5. CASE s # r /\ req[s].pc = "page"
  <2>1. req'[s] = Joined(req[s], o, u)
    BY <1>5 DEF TxCommit
  <2>2. IsListing(req[s]) /\ Paged(req[s], member)
    BY <1>5, FormByPlace DEF IInv, Sound, PagesInv
  <2>3. /\ req[s].user \in Users
        /\ req[s].kind # "myOrganizations" => req[s].org \in OrgIds
    BY <1>5, <2>2 DEF IsListing, Paged
  <2>4. Listable(member, req[s]) \subseteq Listable(member', req[s])
    <3>1. ASSUME NEW p \in OrgIds, NEW v \in Users, Passes(req[s].all, member[p][v])
          PROVE  Passes(req[s].all, member'[p][v]) /\ member'[p][v] = member[p][v]
      BY <1>3, <3>1 DEF Passes
    <3>2. CASE req[s].kind = "myOrganizations"
      BY <2>3, <3>1, <3>2 DEF Listable
    <3>3. CASE req[s].kind # "myOrganizations"
      BY <2>3, <3>1, <3>3 DEF Listable
    <3> QED
      BY <3>2, <3>3
  <2>5. Paged(req[s], member')
    BY <2>2, <2>4, PagesStand
  <2> QED
    BY <2>1, <2>2, <2>5, JoinedPages
<1>6. CASE s # r /\ req[s].pc # "page"
  <2>1. req'[s] = req[s]
    BY <1>6 DEF TxCommit
  <2>2. Paged(req[s], member)
    BY DEF PagesInv
  <2> QED
    BY <1>6, <2>1, <2>2 DEF Paged
<1> QED
  BY <1>4, <1>5, <1>6

\* A membership changes: the rows that are listable ever since are still listable.
LEMMA ChangeKeepsPages ==
    ASSUME IInv, PagesInv, NEW o, NEW u, NEW status, NEW manages,
           ChangeMember(o, u, status, manages)
    PROVE  PagesInv'
<1> SUFFICES ASSUME NEW s \in Requests PROVE Paged(req'[s], member')
  BY DEF PagesInv
<1>1. CASE req[s].pc = "page"
  <2> DEFINE mid == IF status = "active" THEN Joined(req[s], o, u) ELSE req[s]
             left == req[s].stable \intersect Listable(member', req[s])
             new == [mid EXCEPT !.stable = @ \intersect Listable(member', req[s])]
  <2>1. req'[s] = new
    BY <1>1 DEF ChangeMember
  <2>2. IsListing(req[s]) /\ Paged(req[s], member)
    BY <1>1, FormByPlace DEF IInv, Sound, PagesInv
  <2>3. /\ IsListing(mid) /\ mid.pc = "page" /\ mid.kind = req[s].kind /\ mid.org = req[s].org
        /\ mid.user = req[s].user /\ mid.all = req[s].all /\ mid.seen = req[s].seen
        /\ mid.cursor = req[s].cursor /\ mid.stable = req[s].stable
    <3> DEFINE n == Joined(req[s], o, u)
    <3>1. IsListing(n)
      BY <2>2, JoinedListing
    <3>2. /\ n.pc = req[s].pc /\ n.kind = req[s].kind /\ n.org = req[s].org
          /\ n.user = req[s].user /\ n.all = req[s].all /\ n.seen = req[s].seen
          /\ n.cursor = req[s].cursor /\ n.stable = req[s].stable
      BY <2>2, JoinedPages
    <3>3. mid = n \/ mid = req[s]
      OBVIOUS
    <3> HIDE DEF mid, n
    <3> QED
      BY <1>1, <2>2, <3>1, <3>2, <3>3
  <2> HIDE DEF mid
  <2>4. /\ new.pc = "page" /\ new.kind = req[s].kind /\ new.org = req[s].org
        /\ new.user = req[s].user /\ new.all = req[s].all /\ new.seen = req[s].seen
        /\ new.cursor = req[s].cursor /\ new.stable = left
    BY <2>3 DEF IsListing, ListingFields
  <2> HIDE DEF new
  <2>5. left \subseteq Listable(member', new) /\ left \subseteq req[s].stable
    BY <2>4 DEF Listable
  <2> HIDE DEF left
  <2> QED
    BY <1>1, <2>1, <2>2, <2>4, <2>5 DEF Paged
<1>2. CASE req[s].pc = "view"
  <2>1. req[s] \in Viewing
    BY <1>2, FormByPlace DEF IInv, Sound
  <2> DEFINE may == req[s].allowed \/ ManagesIn(member', req[s].org, req[s].user)
  <2>2. req'[s] = [req[s] EXCEPT !.allowed = may]
    BY <1>2 DEF ChangeMember
  <2> HIDE DEF may
  <2>3. req'[s].pc = "view"
    BY <2>1, <2>2 DEF Viewing
  <2> QED
    BY <2>3 DEF Paged
<1>3. CASE req[s].pc \notin {"page", "view"}
  <2>1. req'[s] = req[s]
    BY <1>3 DEF ChangeMember
  <2>2. Paged(req[s], member)
    BY DEF PagesInv
  <2> QED
    BY <1>3, <2>1, <2>2 DEF Paged
<1> QED
  BY <1>1, <1>2, <1>3

LEMMA NextKeepsPages ==
    ASSUME IsFiniteSet(Users), IsFiniteSet(OrgIds), IInv, PagesInv, [Next]_vars
    PROVE  PagesInv'
<1>0. BusyOrgs \subseteq OrgIds
  BY SetupAssumption
<1>1. ASSUME NEW r \in Requests, NEW u \in Users, NEW body \in NewOrgs, create(r, u, body)
      PROVE  PagesInv'
  BY <1>1, MoveKeepsPages DEF create
<1>2. ASSUME NEW r \in Requests, NEW u \in Users, NEW all \in BOOLEAN,
             \/ startList(r, "myOrganizations", u, None, all)
             \/ \E o \in BusyOrgs : startList(r, "members", u, o, all)
      PROVE  PagesInv'
  BY <1>0, <1>2, StartKeepsPages
<1>3. ASSUME NEW r \in Requests, NEW u \in Users, NEW o \in BusyOrgs,
             \/ get(r, u, o)
             \/ \E body \in Patches : update(r, u, o, body)
             \/ \E body \in TaxBodies : set(r, u, o, body)
      PROVE  PagesInv'
  <2>1. PICK mine : req' = [req EXCEPT ![r] = View(u, o, mine)] /\ UNCHANGED member
    BY <1>3 DEF get, update, set
  <2>2. View(u, o, mine).pc = "view"
    BY DEF View
  <2> QED
    BY <2>1, <2>2, MoveKeepsPages
<1>4. ASSUME NEW r \in Requests, NEW u \in Users, NEW o \in BusyOrgs, reveal(r, u, o)
      PROVE  PagesInv'
  BY <1>4, MoveKeepsPages DEF reveal
<1>5. ASSUME NEW r \in Requests, resolveForNewOrg(r)
      PROVE  PagesInv'
  <2>1. CASE req' = [req EXCEPT ![r] = Idle]
    BY <1>5, <2>1, MoveKeepsPages DEF resolveForNewOrg, Idle
  <2>2. CASE req' # [req EXCEPT ![r] = Idle]
    <3>1. PICK o : req' = [req EXCEPT ![r] = [pc |-> "tx", user |-> req[r].user, org |-> o,
                                   timezone |-> req[r].timezone, parts |-> {}, at |-> None]]
      BY <1>5, <2>2 DEF resolveForNewOrg, IInv
    <3>2. UNCHANGED member
      BY <1>5 DEF resolveForNewOrg
    <3> QED
      BY <3>1, <3>2, MoveKeepsPages
  <2> QED
    BY <2>1, <2>2
<1>6. ASSUME NEW r \in Requests,
             \/ TxStatement(r) \/ emitCreated(r) \/ readOrganization(r) \/ readMembership(r)
             \/ toOrgProfileView(r) \/ toTaxProfileReveal(r) \/ Die(r) \/ Finish(r)
      PROVE  PagesInv'
  <2>1. UNCHANGED member /\ \A s \in Requests \ {r} : req'[s] = req[s]
    BY <1>6 DEF TxStatement, emitCreated, readOrganization, readMembership, toOrgProfileView,
                toTaxProfileReveal, Die, Finish, IInv
  <2>2. req'[r].pc \notin {"page", "listed"}
    <3>1. CASE TxStatement(r)
      <4>1. req[r] \in Creating
        BY <3>1, FormByPlace DEF TxStatement, IInv, Sound
      <4> QED
        BY <3>1, <4>1 DEF TxStatement, Creating, IInv
    <3>2. CASE emitCreated(r)
      <4>1. req[r] \in Announcing
        BY <3>2, FormByPlace DEF emitCreated, IInv, Sound
      <4> QED
        BY <3>2, <4>1 DEF emitCreated, Announcing, IInv
    <3>3. CASE readOrganization(r) \/ readMembership(r)
      <4>1. req[r] \in Viewing
        BY <3>3, FormByPlace DEF readOrganization, readMembership, IInv, Sound
      <4> QED
        BY <3>3, <4>1 DEF readOrganization, readMembership, Viewing, IInv
    <3>4. CASE toOrgProfileView(r)
      BY <3>4 DEF toOrgProfileView, IInv
    <3>5. CASE toTaxProfileReveal(r)
      <4>1. req' = [req EXCEPT ![r] = Idle] \/ req' = [req EXCEPT ![r] = [pc |-> "revealed"]]
        BY <3>5 DEF toTaxProfileReveal
      <4> QED
        BY <4>1 DEF IInv, Idle
    <3>6. CASE Die(r) \/ Finish(r)
      BY <3>6 DEF Die, Finish, IInv, Idle
    <3> QED
      BY <1>6, <3>1, <3>2, <3>3, <3>4, <3>5, <3>6
  <2> SUFFICES ASSUME NEW s \in Requests PROVE Paged(req'[s], member')
    BY DEF PagesInv
  <2>3. CASE s = r
    BY <2>2, <2>3 DEF Paged
  <2>4. CASE s # r
    BY <2>1, <2>4 DEF PagesInv
  <2> QED
    BY <2>3, <2>4
<1>7. ASSUME NEW r \in Requests, list(r)
      PROVE  PagesInv'
  BY <1>7, ListKeepsPages
<1>8. ASSUME NEW r \in Requests, TxCommit(r)
      PROVE  PagesInv'
  BY <1>8, CommitKeepsPages
<1>9. ASSUME NEW o \in BusyOrgs, NEW u \in Users, NEW st \in {"active", "revoked"},
             NEW mg \in BOOLEAN, ChangeMember(o, u, st, mg)
      PROVE  PagesInv'
  BY <1>9, ChangeKeepsPages
<1>10. CASE Tick \/ Seed \/ UNCHANGED vars
  <2>1. UNCHANGED <<member, req>>
    BY <1>10 DEF Tick, Seed, vars
  <2> QED
    BY <2>1 DEF PagesInv
<1> QED
  BY <1>1, <1>2, <1>3, <1>4, <1>5, <1>6, <1>7, <1>8, <1>9, <1>10 DEF Next

\* cursor.ts, my-organizations.service, members.service: a listing, however many
\* pages it takes and whatever the size of a page, shows every row that was listable
\* from its first page to its last and no row twice, though memberships start, end
\* and come back between the pages and shops are created meanwhile.
THEOREM ListingsAreExact ==
    ASSUME IsFiniteSet(Users), IsFiniteSet(OrgIds)
    PROVE  Spec => []ListingExact
<1>1. Init => PagesInv
  BY DEF Init, PagesInv, Paged, Idle
<1>2. IInv /\ PagesInv /\ [Next]_vars => PagesInv'
  BY NextKeepsPages
<1>3. PagesInv => ListingExact
  BY DEF PagesInv, Paged, ListingExact
<1> QED
  BY <1>1, <1>2, <1>3, Invariant, PTL DEF Spec

=============================================================================
