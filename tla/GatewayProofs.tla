--------------------------- MODULE GatewayProofs ---------------------------
(***************************************************************************)
(* Theorems about Gateway and the seam of Tenancy, for every set of        *)
(* organizations, users, routes, calls and queries that the assumptions    *)
(* admit, and every value of the bounds.                                   *)
(***************************************************************************)
EXTENDS Gateway, FiniteSetTheorems, WellFoundedInduction, TLAPS

-----------------------------------------------------------------------------
\* The seam's own value of the column is a value, and says o.
LEMMA LiteralNamesOrg ==
    ASSUME NEW o \in Orgs
    PROVE  Literal(o) # None /\ Literal(o).org = o
<1>1. Literal(o) \in [form : Forms, org : Orgs] /\ Literal(o).org = o
  BY DEF Literal, Forms
<1> QED
  BY <1>1, NullAssumption

\* What the seam lets through is of an operation the database model knows, and is
\* no change of a ledger.
LEMMA SeamPasses ==
    ASSUME NEW q, NEW o, withOrgScope(q, o) # Refused
    PROVE  /\ q.operation \in Reads \union Creates \union Updates \union Deletes
           /\ ~isForbiddenLedgerMutation(q.model, q.operation)
           /\ withOrgScope(q, o) = applyOrgScope(q, o)
           /\ o # None
<1>1. /\ applyOrgScope(q, o) # Refused /\ o # None
      /\ ~isForbiddenLedgerMutation(q.model, q.operation)
      /\ withOrgScope(q, o) = applyOrgScope(q, o)
  BY DEF withOrgScope
<1>2. ORG_SCOPE_OPERATION_STRATEGY(q.operation) \notin {None, "reject"}
  BY <1>1 DEF applyOrgScope
<1>3. q.operation \in Reads \union Creates \union Updates \union Deletes
  BY <1>2 DEF ORG_SCOPE_OPERATION_STRATEGY, Reads, Creates, Updates, Deletes
<1> QED
  BY <1>1, <1>3

\* A filter of the seam names the organization of the context and nothing else.
LEMMA WhereScoped ==
    ASSUME NEW where \in {Malformed} \union [org : Clauses, key : Ids \union {None}],
           NEW o \in Orgs, scopedWhere(where, o) # Refused
    PROVE  scopedWhere(where, o).org = Literal(o)
<1>1. where # Malformed /\ scopedWhere(where, o) = [where EXCEPT !.org = Literal(o)]
  BY DEF scopedWhere
<1> QED
  BY <1>1

\* A payload to create belongs to the organization of the context.
LEMMA CreateScoped ==
    ASSUME NEW data \in Payloads \union {Malformed}, NEW o \in Orgs, NEW column,
           scopedCreateData(data, column, o) # Refused
    PROVE  OrgOfPayload(scopedCreateData(data, column, o)) = o
<1> DEFINE related == data.org = None /\ column = "organizationId" /\ data.relation # None
<1>1. data # Malformed
  BY DEF scopedCreateData
<1>2. data \in Payloads
  BY <1>1
<1>3. CASE related
  <2>1. readConnectId(data.relation) = o /\ scopedCreateData(data, column, o) = data
    BY <1>1, <1>3 DEF scopedCreateData
  <2>2. data.relation.org = o
    BY <2>1, NoneAssumption DEF readConnectId
  <2> QED
    BY <1>3, <2>1, <2>2 DEF OrgOfPayload
<1>4. CASE ~related
  <2>1. scopedCreateData(data, column, o) = [data EXCEPT !.org = Literal(o)]
    BY <1>1, <1>4 DEF scopedCreateData
  <2>2. [data EXCEPT !.org = Literal(o)].org = Literal(o)
    BY <1>2 DEF Payloads
  <2>3. Literal(o) # None /\ Literal(o).org = o
    BY LiteralNamesOrg
  <2> QED
    BY <2>1, <2>2, <2>3 DEF OrgOfPayload
<1> QED
  BY <1>3, <1>4

\* An update payload that passes moves no row to another organization.
LEMMA DataScoped ==
    ASSUME NEW data, NEW o, guardWriteData(data, o) # Refused
    PROVE  /\ guardWriteData(data, o) = data
           /\ ~data.nested
           /\ data.org # None => data.org.org = o
  BY DEF guardWriteData, assertMatchesContext

\* The payload of the update s moves no row away from o.
Keeps(s, o) == ~s.data.nested /\ (s.data.org # None => s.data.org.org = o)

\* A query about rows of organizations that the seam lets through reads, changes
\* and creates rows of the organization of the context only.
ScopedTo(s, o) ==
    /\ s.operation \notin Creates => s.where.org = Literal(o)
    /\ s.operation \in Updates => Keeps(s, o)
    /\ \A k \in DOMAIN s.create : OrgOfPayload(s.create[k]) = o

\* What scoping by a column leaves alone, and what it makes sure of.
LEMMA ColumnScoped ==
    ASSUME NEW q, Written(q), NEW o \in Orgs, NEW column,
           q.operation \in Reads \union Creates \union Updates \union Deletes,
           scopeByColumn(q, column, o) # Refused
    PROVE  /\ scopeByColumn(q, column, o).model = q.model
           /\ scopeByColumn(q, column, o).operation = q.operation
           /\ ScopedTo(scopeByColumn(q, column, o), o)
<1> DEFINE strategy == ORG_SCOPE_OPERATION_STRATEGY(q.operation)
           where == IF q.where # None THEN scopedWhere(q.where, o)
                    ELSE IF strategy = "filterWhere" THEN scopedWhere(NoFilter, o)
                    ELSE Refused
           data == IF q.data = None THEN None ELSE guardWriteData(q.data, o)
           create == [k \in DOMAIN q.create |-> scopedCreateData(q.create[k], column, o)]
           created == [q EXCEPT !.create = create]
           scoped == [q EXCEPT !.where = where, !.data = data, !.create = create]
<1>1. /\ q \in QueryForms
      /\ q.operation \in Updates => q.data # None
  BY DEF Written
<1>2. /\ q.where \in Wheres
      /\ \A k \in DOMAIN q.create : q.create[k] \in Payloads \union {Malformed}
  BY <1>1 DEF QueryForms
<1>3. strategy \in {"createData", "createManyData"} <=> q.operation \in Creates
  BY DEF ORG_SCOPE_OPERATION_STRATEGY, Reads, Creates, Updates, Deletes
<1>4. /\ Refused \notin Range(create)
      /\ q.operation \in Creates => scopeByColumn(q, column, o) = created
      /\ q.operation \notin Creates =>
           /\ scopeByColumn(q, column, o) = scoped
           /\ where # Refused /\ data # Refused
  <2> HIDE DEF strategy, where, data, create
  <2> QED
    BY <1>3 DEF scopeByColumn, strategy, where, data, create
<1>5. \A k \in DOMAIN create : OrgOfPayload(create[k]) = o
  <2> SUFFICES ASSUME NEW k \in DOMAIN q.create
               PROVE  OrgOfPayload(create[k]) = o
    OBVIOUS
  <2>1. create[k] # Refused
    BY <1>4 DEF Range
  <2> QED
    BY <1>2, <2>1, CreateScoped
<1>6. where # Refused => where.org = Literal(o)
  <2>1. NoFilter \in [org : Clauses, key : Ids \union {None}]
    BY DEF NoFilter, Clauses
  <2>2. q.where # None => q.where \in {Malformed} \union [org : Clauses, key : Ids \union {None}]
    BY <1>2 DEF Wheres
  <2> QED
    BY <2>1, <2>2, WhereScoped
<1>7. data # Refused /\ q.operation \in Updates =>
         ~data.nested /\ (data.org # None => data.org.org = o)
  BY <1>1, DataScoped
<1> HIDE DEF strategy, where, data, create
<1>8. created.model = q.model /\ created.operation = q.operation /\ created.create = create
  BY <1>1 DEF QueryForms
<1>9. /\ scoped.model = q.model /\ scoped.operation = q.operation
      /\ scoped.where = where /\ scoped.data = data /\ scoped.create = create
  BY <1>1 DEF QueryForms
<1>10. q.operation \in Creates => q.operation \notin Updates
  BY DEF Creates, Updates
<1> QED
  BY <1>4, <1>5, <1>6, <1>7, <1>8, <1>9, <1>10 DEF ScopedTo, Keeps

-----------------------------------------------------------------------------
\* The rows a scoped query finds belong to the organization.
LEMMA HitsInOrg ==
    ASSUME NEW s, NEW o \in Orgs, s.where.org = Literal(o)
    PROVE  \A i \in Hits(s) : i \in Ids /\ rows[i] # None /\ rows[i].org = o
  BY LiteralNamesOrg DEF Hits

\* Rows of a table that differ from it, or were found, all belong to o.
OnlyIn(s, after, o) ==
    /\ after \in [Ids -> Row \union {None}]
    /\ \A i \in Ids : after[i] # rows[i] \/ (s.operation \notin Creates /\ i \in Hits(s)) =>
          /\ rows[i] # None => rows[i].org = o
          /\ after[i] # None => after[i].org = o

\* Rows are created where there were none, one for a payload.
LEMMA CreatedFillsFree ==
    ASSUME NEW s, NEW after \in Created(s)
    PROVE  /\ after = [i \in Ids |-> after[i]]
           /\ \A i \in Ids :
                 \/ after[i] = rows[i]
                 \/ /\ rows[i] = None
                    /\ \E k \in DOMAIN s.create :
                          after[i] = [model |-> s.model, edited |-> FALSE,
                                      org |-> OrgOfPayload(s.create[k])]
<1> DEFINE free == {i \in Ids : rows[i] = None}
           Key(at, i) == CHOOSE k \in DOMAIN at : at[k] = i
<1>1. PICK at \in [DOMAIN s.create -> free] :
        after = [i \in Ids |->
                   IF \E k \in DOMAIN at : at[k] = i
                   THEN [model |-> s.model, edited |-> FALSE,
                         org |-> OrgOfPayload(s.create[Key(at, i)])]
                   ELSE rows[i]]
  BY DEF Created
<1>2. ASSUME NEW i \in Ids, \E k \in DOMAIN at : at[k] = i
      PROVE  /\ rows[i] = None
             /\ \E k \in DOMAIN s.create :
                   after[i] = [model |-> s.model, edited |-> FALSE,
                               org |-> OrgOfPayload(s.create[k])]
  <2>1. Key(at, i) \in DOMAIN s.create /\ at[Key(at, i)] = i
    BY <1>1, <1>2
  <2>2. rows[i] = None
    BY <1>1, <2>1
  <2>3. after[i] = [model |-> s.model, edited |-> FALSE,
                    org |-> OrgOfPayload(s.create[Key(at, i)])]
    BY <1>1, <1>2
  <2> QED
    BY <2>1, <2>2, <2>3
<1>3. ASSUME NEW i \in Ids, ~ \E k \in DOMAIN at : at[k] = i
      PROVE  after[i] = rows[i]
  BY <1>1, <1>3
<1>4. after = [i \in Ids |-> after[i]]
  BY <1>1
<1> QED
  BY <1>2, <1>3, <1>4

\* What is created belongs to the organization of its payload.
LEMMA CreatedInOrg ==
    ASSUME rows \in [Ids -> Row \union {None}], NEW s, NEW o,
           \A k \in DOMAIN s.create : OrgOfPayload(s.create[k]) = o,
           [model |-> s.model, edited |-> FALSE, org |-> o] \in Row,
           NEW after \in Created(s)
    PROVE  /\ after \in [Ids -> Row \union {None}]
           /\ \A i \in Ids : after[i] # rows[i] => rows[i] = None /\ after[i].org = o
<1> DEFINE new == [model |-> s.model, edited |-> FALSE, org |-> o]
<1>1. \A i \in Ids : after[i] = rows[i] \/ (rows[i] = None /\ after[i] = new)
  BY CreatedFillsFree
<1>2. after = [i \in Ids |-> after[i]] /\ new.org = o
  BY CreatedFillsFree
<1> HIDE DEF new
<1>3. \A i \in Ids : after[i] \in Row \union {None}
  BY <1>1 DEF new
<1>4. after \in [Ids -> Row \union {None}]
  BY <1>2, <1>3
<1> QED
  BY <1>1, <1>2, <1>4

\* The rows S belong to o.
RowsOf(S, o) == \A i \in S : rows[i] # None /\ rows[i].org = o

\* What an update leaves, when it names no other organization.
LEMMA UpdatedInOrg ==
    ASSUME rows \in [Ids -> Row \union {None}], NEW s, NEW o, NEW S \in SUBSET Ids,
           RowsOf(S, o), Keeps(s, o), S # {}, NEW after \in Updated(s, S)
    PROVE  /\ after \in [Ids -> Row \union {None}]
           /\ \A i \in S : after[i].org = o
           /\ \A i \in Ids \ S : after[i] = rows[i]
<1>1. after = [i \in Ids |-> IF i \in S THEN [rows[i] EXCEPT !.edited = TRUE, !.org = o]
                             ELSE rows[i]]
  <2>1. {rows[i].org : i \in S} = {o}
    BY DEF RowsOf
  <2>2. CASE s.data.org # None
    BY <2>2 DEF Updated, Keeps
  <2>3. CASE s.data.org = None
    BY <2>1, <2>3 DEF Updated, Keeps
  <2> QED
    BY <2>2, <2>3
<1>2. ASSUME NEW i \in S
      PROVE  after[i] \in Row /\ after[i].org = o
  <2>1. rows[i] \in Row /\ rows[i].org = o
    BY DEF RowsOf
  <2>2. after[i] = [rows[i] EXCEPT !.edited = TRUE, !.org = o]
    BY <1>1
  <2>3. CASE rows[i] \in [model : Models \ ORG_AGNOSTIC_MODELS, org : Orgs, edited : BOOLEAN]
    BY <2>1, <2>2, <2>3 DEF Row
  <2>4. CASE rows[i] \in [model : ORG_AGNOSTIC_MODELS, org : {None}, edited : BOOLEAN]
    BY <2>1, <2>2, <2>4 DEF Row
  <2> QED
    BY <2>1, <2>3, <2>4 DEF Row
<1>3. \A i \in Ids \ S : after[i] = rows[i]
  BY <1>1
<1>4. DOMAIN after = Ids /\ after = [i \in Ids |-> after[i]]
  BY <1>1
<1>5. \A i \in Ids : after[i] \in Row \union {None}
  BY <1>2, <1>3
<1> QED
  BY <1>2, <1>3, <1>4, <1>5

\* A query whose filter and payloads stay with o changes and finds rows of o only.
LEMMA EffectsInOrg ==
    ASSUME rows \in [Ids -> Row \union {None}], NEW s, NEW o,
           [model |-> s.model, edited |-> FALSE, org |-> o] \in Row,
           s.operation \notin Creates => RowsOf(Hits(s), o),
           s.operation \in Updates => Keeps(s, o),
           \A k \in DOMAIN s.create : OrgOfPayload(s.create[k]) = o,
           s.operation \in Reads \union Creates \union Updates \union Deletes,
           NEW after \in Effects(s)
    PROVE  OnlyIn(s, after, o)
<1>2. s.operation \notin Creates => \A i \in Hits(s) : rows[i] # None /\ rows[i].org = o
  BY DEF RowsOf
<1>3. after \in Created(s) =>
        /\ after \in [Ids -> Row \union {None}]
        /\ \A i \in Ids : after[i] # rows[i] => rows[i] = None /\ after[i].org = o
  BY CreatedInOrg
<1>4. CASE s.operation \in Reads
  <2>1. after = rows /\ s.operation \notin Creates
    BY <1>4 DEF Effects, Reads, Creates, Updates, Deletes
  <2> QED
    BY <1>2, <2>1 DEF OnlyIn
<1>5. CASE s.operation \in Deletes
  <2>1. /\ after = [i \in Ids |-> IF i \in Hits(s) THEN None ELSE rows[i]]
        /\ s.operation \notin Creates
    BY <1>5 DEF Effects, Reads, Creates, Updates, Deletes
  <2> QED
    BY <1>2, <2>1 DEF OnlyIn
<1>6. CASE s.operation \in Creates
  <2>1. after \in Created(s)
    BY <1>6 DEF Effects, Reads, Creates, Updates, Deletes
  <2> QED
    BY <1>3, <1>6, <2>1 DEF OnlyIn
<1>7. CASE s.operation \in Updates
  <2>1. /\ s.operation \notin Creates
        /\ Hits(s) # {} => after \in Updated(s, Hits(s))
        /\ Hits(s) = {} => after = rows \/ after \in Created(s)
    BY <1>7 DEF Effects, Reads, Creates, Updates, Deletes
  <2>2. CASE Hits(s) # {}
    <3>1. Hits(s) \in SUBSET Ids
      BY DEF Hits
    <3>2. RowsOf(Hits(s), o) /\ Keeps(s, o) /\ after \in Updated(s, Hits(s))
      BY <1>7, <2>1, <2>2
    <3>3. /\ after \in [Ids -> Row \union {None}]
          /\ \A i \in Hits(s) : after[i].org = o
          /\ \A i \in Ids \ Hits(s) : after[i] = rows[i]
      BY <2>2, <3>1, <3>2, UpdatedInOrg
    <3> QED
      BY <1>2, <2>1, <3>3 DEF OnlyIn
  <2>3. CASE Hits(s) = {}
    BY <1>3, <2>1, <2>3 DEF OnlyIn
  <2> QED
    BY <2>2, <2>3
<1> QED
  BY <1>4, <1>5, <1>6, <1>7

\* What a request comes to have touched, given that only rows of o were.
LEMMA TouchedInOrg ==
    ASSUME NEW s, NEW after, NEW o, OnlyIn(s, after, o)
    PROVE  Touched(s, after) \subseteq {o} \ {None}
<1> DEFINE changed == {i \in Ids : after[i] # rows[i]}
           reached == changed \union (IF s.operation \in Creates THEN {} ELSE Hits(s))
<1>1. ASSUME NEW i \in reached, NEW t \in {rows, after}, t[i] # None
      PROVE  t[i].org = o
  <2>1. i \in Ids /\ (after[i] # rows[i] \/ (s.operation \notin Creates /\ i \in Hits(s)))
    BY DEF Hits
  <2>2. /\ rows[i] # None => rows[i].org = o
        /\ after[i] # None => after[i].org = o
    BY <2>1 DEF OnlyIn
  <2> QED
    BY <1>1, <2>2
<1>2. Touched(s, after) =
        {row.org : row \in {t[i] : t \in {rows, after}, i \in reached} \ {None}} \ {None}
  BY DEF Touched
<1> HIDE DEF reached
<1>3. ASSUME NEW x \in Touched(s, after)
      PROVE  x = o /\ x # None
  <2>1. x # None
    BY <1>2
  <2>2. PICK t \in {rows, after}, i \in reached : t[i] # None /\ x = t[i].org
    BY <1>2
  <2> QED
    BY <1>1, <2>1, <2>2
<1> QED
  BY <1>3

\* Rows of other models, and all rows under a read or a create, stay as they are.
LEMMA EffectsByModel ==
    ASSUME NEW s, s.operation \in Reads \union Creates \union Updates \union Deletes,
           NEW after \in Effects(s), NEW i \in Ids, rows[i] # None,
           rows[i].model # s.model \/ s.operation \notin Updates \union Deletes
    PROVE  after[i] = rows[i]
<1>1. after \in Created(s) => after[i] = rows[i]
  BY CreatedFillsFree
<1>2. CASE s.operation \in Reads \union Creates
  BY <1>1, <1>2 DEF Effects, Reads, Creates, Updates, Deletes
<1>3. CASE s.operation \in Deletes
  BY <1>3 DEF Effects, Reads, Creates, Updates, Deletes, Hits
<1>4. CASE s.operation \in Updates
  <2>1. \/ after \in Updated(s, Hits(s))
        \/ after = rows \/ after \in Created(s)
    BY <1>4 DEF Effects, Reads, Creates, Updates, Deletes
  <2>2. i \notin Hits(s)
    BY <1>4 DEF Hits
  <2>3. after \in Updated(s, Hits(s)) => after[i] = rows[i]
    BY <2>2 DEF Updated
  <2> QED
    BY <1>1, <2>1, <2>3
<1> QED
  BY <1>2, <1>3, <1>4

-----------------------------------------------------------------------------
\* The seam, as a whole: a query it lets through changes no ledger row, keeps the
\* table's types, and touches rows of the context's organization only.
LEMMA SeamConfines ==
    ASSUME rows \in [Ids -> Row \union {None}], NEW q, Written(q), NEW o \in Orgs,
           withOrgScope(q, o) # Refused, NEW after \in Effects(withOrgScope(q, o))
    PROVE  /\ after \in [Ids -> Row \union {None}]
           /\ Touched(withOrgScope(q, o), after) \subseteq {o}
           /\ \A i \in Ids : rows[i] # None /\ rows[i].model \in LEDGER_MODELS =>
                 after[i] = rows[i]
<1> DEFINE s == withOrgScope(q, o)
<1>1. /\ q.operation \in Reads \union Creates \union Updates \union Deletes
      /\ ~isForbiddenLedgerMutation(q.model, q.operation)
      /\ s = applyOrgScope(q, o)
  BY SeamPasses
<1>2. /\ s.model = q.model /\ s.operation = q.operation
      /\ \/ q.model \in ORG_AGNOSTIC_MODELS /\ s = q
         \/ q.model \in Models \ ORG_AGNOSTIC_MODELS /\ ScopedTo(s, o)
  <2>1. CASE q.model \in ORG_AGNOSTIC_MODELS
    BY <1>1, <2>1 DEF applyOrgScope, ORG_AGNOSTIC_MODELS, ORG_SCOPED_MODELS,
                      ORGANIZATION_MODEL, LEDGER_MODELS
  <2>2. CASE q.model = ORGANIZATION_MODEL
    <3>1. s = scopeByColumn(q, "id", o)
      BY <1>1, <2>2 DEF applyOrgScope, scopeTenantRoot, ORG_AGNOSTIC_MODELS,
                        ORG_SCOPED_MODELS, ORGANIZATION_MODEL, LEDGER_MODELS
    <3>2. q.model \in Models \ ORG_AGNOSTIC_MODELS
      BY <2>2 DEF Models, ORG_AGNOSTIC_MODELS, ORGANIZATION_MODEL
    <3> QED
      BY <1>1, <3>1, <3>2, ColumnScoped
  <2>3. CASE q.model \in ORG_SCOPED_MODELS
    <3>1. s = scopeByColumn(q, "organizationId", o)
      BY <1>1, <2>3 DEF applyOrgScope, ORG_AGNOSTIC_MODELS,
                        ORG_SCOPED_MODELS, ORGANIZATION_MODEL, LEDGER_MODELS
    <3>2. q.model \in Models \ ORG_AGNOSTIC_MODELS
      BY <2>3 DEF Models, ORG_SCOPED_MODELS, LEDGER_MODELS, ORG_AGNOSTIC_MODELS
    <3> QED
      BY <1>1, <3>1, <3>2, ColumnScoped
  <2> QED
    BY <1>1, <2>1, <2>2, <2>3 DEF applyOrgScope
<1> HIDE DEF s
<1>3. s.operation \in Reads \union Creates \union Updates \union Deletes /\ after \in Effects(s)
  BY <1>1, <1>2 DEF s
<1>4. ASSUME NEW i \in Ids, rows[i] # None, rows[i].model \in LEDGER_MODELS
      PROVE  after[i] = rows[i]
  <2>1. rows[i].model # s.model \/ s.operation \notin Updates \union Deletes
    BY <1>1, <1>2, <1>4 DEF isForbiddenLedgerMutation
  <2> QED
    BY <1>3, <1>4, <2>1, EffectsByModel
<1>5. CASE q.model \in Models \ ORG_AGNOSTIC_MODELS /\ ScopedTo(s, o)
  <2>1. [model |-> s.model, edited |-> FALSE, org |-> o] \in Row
    BY <1>2, <1>5 DEF Row
  <2>2. s.operation \notin Creates => RowsOf(Hits(s), o)
    BY <1>5, HitsInOrg DEF ScopedTo, RowsOf
  <2>3. OnlyIn(s, after, o)
    BY <1>3, <1>5, <2>1, <2>2, EffectsInOrg DEF ScopedTo
  <2> QED
    BY <1>4, <2>3, TouchedInOrg DEF OnlyIn, s
<1>6. CASE q.model \in ORG_AGNOSTIC_MODELS /\ s = q
  <2>1. [model |-> s.model, edited |-> FALSE, org |-> None] \in Row
    BY <1>6 DEF Row
  <2>2. RowsOf(Hits(s), None)
    BY <1>6 DEF Hits, Row, RowsOf
  <2>3. \A k \in DOMAIN s.create : OrgOfPayload(s.create[k]) = None
    BY <1>6 DEF Written, Range, OrgOfPayload
  <2>4. s.operation \in Updates => Keeps(s, None)
    BY <1>6 DEF Written, Keeps
  <2>5. OnlyIn(s, after, None)
    BY <1>3, <2>1, <2>2, <2>3, <2>4, EffectsInOrg
  <2> QED
    BY <1>4, <2>5, TouchedInOrg DEF OnlyIn, s
<1> QED
  BY <1>2, <1>5, <1>6

-----------------------------------------------------------------------------
\* A set of naturals that is not empty has a least element.
LEMMA LeastNatural ==
    ASSUME NEW T \in SUBSET Nat, T # {}
    PROVE  \E n \in T : \A k \in T : n <= k
<1> DEFINE R == OpToRel(<, Nat)
<1>1. \A x, y \in Nat : <<x, y>> \in R <=> x < y
  BY DEF OpToRel
<1>2. IsWellFoundedOn(R, Nat)
  BY NatLessThanWellFounded
<1> HIDE DEF R
<1>3. PICK n \in T : \A k \in T : ~(<<k, n>> \in R)
  BY <1>2, WFMin
<1>4. ASSUME NEW k \in T PROVE n <= k
  <2>1. n \in Nat /\ k \in Nat /\ ~(<<k, n>> \in R)
    BY <1>3
  <2>2. ~ (k < n)
    BY <1>1, <2>1
  <2> QED
    BY <2>1, <2>2
<1> QED
  BY <1>4

\* Every call is served by a registered handler.
LEMMA DispatchFinds ==
    ASSUME NEW call \in Calls
    PROVE  Dispatch(call.verb, call.path) \in DOMAIN Routes
<1> DEFINE T == {n \in DOMAIN Routes : Serves(Routes[n], call.verb, call.path)}
<1>1. DOMAIN Routes = 1 .. Len(Routes) /\ Len(Routes) \in Nat
  BY GatewayAssumption
<1>2. T \in SUBSET Nat /\ T # {}
  BY <1>1, CallsAssumption
<1>3. PICK n \in T : \A k \in T : n <= k
  BY <1>2, LeastNatural
<1>4. \A k \in 1 .. n - 1 : ~Serves(Routes[k], call.verb, call.path)
  BY <1>1, <1>3
<1> QED
  BY <1>3, <1>4 DEF Dispatch

Tiers == {"public", "user", "system", "org"}

\* The marks of a route give it one of the four tiers.
LEMMA TierOfRoute ==
    ASSUME NEW n \in DOMAIN Routes
    PROVE  /\ tierOf(Routes[n]) \in Tiers
           /\ readDeclaration(Routes[n]) \in Marks
           /\ Routes[n].jwt \in BOOLEAN
<1>1. Routes[n] \in RouteForms
  BY GatewayAssumption
<1>2. Routes[n].handler \in Marks /\ Routes[n].class \in Marks /\ Routes[n].jwt \in BOOLEAN
  BY <1>1 DEF RouteForms
<1> QED
  BY <1>2 DEF tierOf, readDeclaration, Marks, Tiers

\* The middleware assumes a tier or leaves it unknown.
LEMMA MatchTier ==
    ASSUME NEW verb, NEW path
    PROVE  match(verb, path) \in AssumedRouteTier
<1>1. \A v : matchVerb(v, path) \subseteq Tiers
  BY TierOfRoute DEF matchVerb, Range
<1>2. IsFiniteSet(Tiers)
  <2>1. IsFiniteSet({"public"})
    BY FS_Singleton
  <2>2. IsFiniteSet({"public", "user"})
    BY <2>1, FS_AddElement, {"public", "user"} = {"public"} \union {"user"}
  <2>3. IsFiniteSet({"public", "user", "system"})
    BY <2>2, FS_AddElement, {"public", "user", "system"} = {"public", "user"} \union {"system"}
  <2> QED
    BY <2>3, FS_AddElement, Tiers = {"public", "user", "system"} \union {"org"} DEF Tiers
<1>3. ASSUME NEW T \in SUBSET Tiers, Cardinality(T) = 1
      PROVE  (CHOOSE t \in T : TRUE) \in Tiers
  <2>1. \E x : T = {x}
    BY <1>2, <1>3, FS_Subset, FS_Singleton
  <2> QED
    BY <2>1
<1>4. Tiers \union {"unknown"} = AssumedRouteTier
  BY DEF Tiers, AssumedRouteTier
<1> DEFINE direct == matchVerb(verb, path)
           tiers == IF direct = {} /\ verb = "HEAD" THEN matchVerb("GET", path) ELSE direct
<1>5. match(verb, path) = IF Cardinality(tiers) = 1 THEN CHOOSE t \in tiers : TRUE ELSE "unknown"
  BY DEF match
<1>6. tiers \in SUBSET Tiers
  BY <1>1
<1> HIDE DEF tiers
<1> QED
  BY <1>3, <1>4, <1>5, <1>6

-----------------------------------------------------------------------------
(***************************************************************************)
(* The invariant of the requests.                                          *)
(***************************************************************************)
Contexts == [organizationId : Orgs, capabilities : SUBSET Capabilities]

InFlightForms ==
    [pc : {"lookup", "guards", "handler"}, route : DOMAIN Routes,
     key : {<<call.verb, call.path>> : call \in Calls},
     user : Users \union {None}, routeTier : AssumedRouteTier,
     orgOutcome : OrgAuthOutcome \union {"lookup"}, org : Orgs \union {None},
     ctx : Contexts \union {None}, queries : 0 .. MaxQueries,
     touched : SUBSET Orgs, held : SUBSET (Orgs \X RoleIds)]

\* The tier the middleware assumed and the handler that runs are the call's own.
Routed(q) ==
    /\ q.routeTier = match(q.key[1], q.key[2])
    /\ q.route = Dispatch(q.key[1], q.key[2])
    /\ q.org # None => q.routeTier = "org" /\ q.user \in Users

\* A context is of the organization asked for, and comes from a role its user
\* held there since the request arrived; rows are touched under it only.
InContext(q) ==
    /\ q.ctx # None =>
          /\ q.org # None /\ q.ctx.organizationId = q.org
          /\ \E role \in HeldIn(q, q.org) : q.ctx.capabilities = roleCapabilities[role]
    /\ q.touched # {} => q.ctx # None /\ q.touched = {q.org}

\* What was found out about the organization, and what still will be: until the
\* membership is read, the roles held include the present ones.
LookedUp(q, m) ==
    /\ q.pc = "lookup" =>
          /\ q.org # None /\ q.ctx = None
          /\ RolesNow(m, q.user) \subseteq q.held
    /\ q.pc # "lookup" /\ q.org # None =>
          /\ q.orgOutcome \in {"ok", "no_membership", "revoked"}
          /\ q.orgOutcome = "ok" => HeldIn(q, q.org) # {}

\* A handler that runs was admitted by all guards.
Admitted(q) ==
    q.pc = "handler" => Served(q) /\ (q.org # None => q.orgOutcome = "ok")

\* The answer about an organization one never belonged to while asking.
Refuses(q) ==
    q.pc = "done" /\ q.outside # None => q.answer \in {"INTERNAL", "ORG_ACCESS_DENIED"}

Sound(q, m) ==
    /\ q.pc \in {"idle", "done"} \/ q \in InFlightForms
    /\ q.pc \notin {"idle", "done"} =>
          Routed(q) /\ InContext(q) /\ LookedUp(q, m) /\ Admitted(q)
    /\ Refuses(q)

IInv ==
    /\ rows \in [Ids -> Row \union {None}]
    /\ member \in [Orgs -> [Users -> Membership \union {None}]]
    /\ changes \in 0 .. MaxChanges
    /\ req = [r \in Requests |-> req[r]]
    /\ \A r \in Requests : Sound(req[r], member)

\* One request moves, the tables of memberships stay.
LEMMA OneRequestMoves ==
    ASSUME IInv, NEW r \in Requests, NEW new, req' = [req EXCEPT ![r] = new],
           Sound(new, member), UNCHANGED <<member, changes>>,
           rows' \in [Ids -> Row \union {None}]
    PROVE  IInv'
<1>1. /\ req' = [q \in Requests |-> req'[q]] /\ req'[r] = new
      /\ \A q \in Requests \ {r} : req'[q] = req[q]
  BY DEF IInv
<1>2. \A q \in Requests : Sound(req'[q], member')
  BY <1>1 DEF IInv
<1> QED
  BY <1>1, <1>2 DEF IInv

\* The facts of a request in flight.
LEMMA Flying ==
    ASSUME IInv, NEW r \in Requests, InFlight(r)
    PROVE  /\ req[r] \in InFlightForms /\ Routed(req[r]) /\ InContext(req[r])
           /\ LookedUp(req[r], member) /\ Admitted(req[r])
  BY DEF IInv, Sound, InFlight

\* Roles a user holds are pairs of an organization and a role.
LEMMA RolesNowType ==
    ASSUME NEW m, NEW user
    PROVE  RolesNow(m, user) \in SUBSET (Orgs \X RoleIds)
  BY DEF RolesNow

\* A request ends; about a stranger's organization with one of two codes.
LEMMA AnswerKeepsIInv ==
    ASSUME IInv, NEW r \in Requests, NEW code, Answer(r, code),
           UNCHANGED <<rows, member, changes>>,
           req[r].org # None /\ HeldIn(req[r], req[r].org) = {} =>
               code \in {"INTERNAL", "ORG_ACCESS_DENIED"}
    PROVE  IInv'
<1> DEFINE new == [pc |-> "done", answer |-> code,
                   outside |-> IF req[r].org # None /\ HeldIn(req[r], req[r].org) = {}
                               THEN req[r].route ELSE None]
<1>1. req' = [req EXCEPT ![r] = new]
  BY DEF Answer, IInv
<1>2. /\ new.pc = "done" /\ new.answer = code
      /\ new.outside # None => code \in {"INTERNAL", "ORG_ACCESS_DENIED"}
  OBVIOUS
<1> HIDE DEF new
<1>3. Sound(new, member)
  BY <1>2 DEF Sound, Refuses
<1>4. rows' \in [Ids -> Row \union {None}]
  BY DEF IInv
<1> QED
  BY <1>1, <1>3, <1>4, OneRequestMoves

\* A request comes in.
LEMMA UseKeepsIInv ==
    ASSUME IInv, NEW r \in Requests, NEW call \in Calls, use(r, call)
    PROVE  IInv'
<1> DEFINE tier == match(call.verb, call.path)
           user == verify(call.token)
           org == IF call.header # None THEN call.header ELSE call.param
           outcome == CASE tier # "org" -> "skipped"
                        [] tier = "org" /\ {call.header, call.param} \subseteq Orgs
                               /\ call.header # call.param -> "mismatch"
                        [] OTHER -> IF None \in {org, user} THEN "none" ELSE "lookup"
           held == IF user = None THEN {} ELSE RolesNow(member, user)
           asked == IF outcome = "lookup" THEN org ELSE None
           new == [pc |-> IF outcome = "lookup" THEN "lookup" ELSE "guards",
                   route |-> Dispatch(call.verb, call.path),
                   key |-> <<call.verb, call.path>>,
                   user |-> user, routeTier |-> tier, orgOutcome |-> outcome,
                   org |-> asked, ctx |-> None, queries |-> 0, touched |-> {},
                   held |-> held]
<1>1. req' = [req EXCEPT ![r] = new] /\ UNCHANGED <<rows, member, changes>>
  BY DEF use
<1>2. call \in CallForms
  BY GatewayAssumption
<1>3. user \in Users \union {None} /\ org \in Orgs \union {None}
  BY <1>2 DEF CallForms, TokenForms, verify
<1>4. outcome \in {"skipped", "mismatch", "none", "lookup"}
  OBVIOUS
<1>5. outcome = "lookup" => tier = "org" /\ org # None /\ user # None
  OBVIOUS
<1>6. held \in SUBSET (Orgs \X RoleIds) /\ (user # None => held = RolesNow(member, user))
  BY RolesNowType
<1>7. tier \in AssumedRouteTier /\ Dispatch(call.verb, call.path) \in DOMAIN Routes
  BY MatchTier, DispatchFinds
<1> HIDE DEF tier, user, org, outcome, held
<1>8. outcome \in OrgAuthOutcome \union {"lookup"} /\ asked \in Orgs \union {None}
  BY <1>3, <1>4 DEF OrgAuthOutcome
<1> HIDE DEF asked
<1>9. /\ new.pc = (IF outcome = "lookup" THEN "lookup" ELSE "guards")
      /\ new.route = Dispatch(call.verb, call.path) /\ new.key = <<call.verb, call.path>>
      /\ new.user = user /\ new.routeTier = tier /\ new.org = asked
      /\ new.ctx = None /\ new.touched = {} /\ new.held = held
  OBVIOUS
<1>10. new \in InFlightForms
  <2>1. 0 \in 0 .. MaxQueries
    BY GatewayAssumption
  <2> QED
    BY <1>3, <1>6, <1>7, <1>8, <2>1 DEF InFlightForms
<1> HIDE DEF new
<1>11. new.org # None => outcome = "lookup"
  BY <1>9 DEF asked
<1>12. Routed(new)
  <2>1. new.key[1] = call.verb /\ new.key[2] = call.path
    BY <1>9
  <2>2. new.routeTier = match(call.verb, call.path)
    BY <1>9 DEF tier
  <2>3. new.org # None => new.routeTier = "org" /\ new.user \in Users
    BY <1>3, <1>5, <1>9, <1>11
  <2> QED
    BY <1>9, <2>1, <2>2, <2>3 DEF Routed
<1>13. InContext(new) /\ Admitted(new) /\ Refuses(new)
  BY <1>9 DEF InContext, Admitted, Refuses
<1>14. LookedUp(new, member)
  BY <1>5, <1>6, <1>9, <1>11 DEF LookedUp, asked
<1>15. rows' \in [Ids -> Row \union {None}]
  BY <1>1 DEF IInv
<1> QED
  BY <1>1, <1>10, <1>12, <1>13, <1>14, <1>15, OneRequestMoves DEF Sound

\* The membership is read.
LEMMA ResolveKeepsIInv ==
    ASSUME IInv, NEW r \in Requests, resolveOrgScoped(r)
    PROVE  IInv'
<1> DEFINE q == req[r]
           m == member[q.org][q.user]
           outcome == IF m = None THEN "no_membership"
                      ELSE IF m.status = "active" THEN "ok"
                      ELSE IF m.status = "revoked" THEN "revoked" ELSE "not_active"
           ctx == IF outcome # "ok" THEN None
                  ELSE [organizationId |-> q.org, capabilities |-> roleCapabilities[m.role]]
           new == [q EXCEPT !.pc = "guards", !.orgOutcome = outcome, !.ctx = ctx]
<1>1. q.pc = "lookup" /\ UNCHANGED <<rows, member, changes>>
  BY DEF resolveOrgScoped
<1>2. req' = [req EXCEPT ![r] = new]
  BY DEF resolveOrgScoped, IInv
<1>3. q \in InFlightForms /\ Routed(q) /\ InContext(q) /\ LookedUp(q, member)
  BY <1>1, Flying DEF InFlight
<1>4. q.org \in Orgs /\ q.user \in Users /\ RolesNow(member, q.user) \subseteq q.held
      /\ q.touched = {}
  BY <1>1, <1>3 DEF InFlightForms, Routed, LookedUp, InContext
<1>5. m \in Membership \union {None}
  BY <1>4 DEF IInv
<1>6. outcome \in {"ok", "no_membership", "revoked"}
  BY <1>5 DEF Membership
<1>7. ASSUME outcome = "ok"
      PROVE  /\ m.role \in HeldIn(q, q.org)
             /\ ctx \in Contexts /\ ctx.organizationId = q.org
             /\ ctx.capabilities = roleCapabilities[m.role]
  <2>1. m \in Membership /\ m.status = "active"
    BY <1>5, <1>7
  <2>2. m = [status |-> "active", role |-> m.role] /\ m.role \in RoleIds
    BY <2>1, RolesAssumption DEF Membership
  <2>3. <<q.org, m.role>> \in RolesNow(member, q.user)
    BY <1>4, <2>2 DEF RolesNow
  <2>4. m.role \in HeldIn(q, q.org)
    BY <1>4, <2>2, <2>3 DEF HeldIn
  <2>5. roleCapabilities[m.role] \in SUBSET Capabilities
    BY <2>2, RolesAssumption
  <2>6. ctx = [organizationId |-> q.org, capabilities |-> roleCapabilities[m.role]]
    BY <1>7
  <2> HIDE DEF m, outcome, ctx, q
  <2>7. ctx \in Contexts
    BY <1>4, <2>5, <2>6 DEF Contexts
  <2>8. ctx.organizationId = q.org /\ ctx.capabilities = roleCapabilities[m.role]
    BY <2>6
  <2> QED
    BY <2>4, <2>7, <2>8
<1>8. outcome # "ok" => ctx = None
  OBVIOUS
<1> HIDE DEF m, outcome, ctx, q
<1>9. new \in InFlightForms
  <2>1. outcome \in OrgAuthOutcome \union {"lookup"} /\ ctx \in Contexts \union {None}
    BY <1>6, <1>7, <1>8 DEF OrgAuthOutcome
  <2> QED
    BY <1>3, <2>1 DEF InFlightForms
<1>10. /\ new.pc = "guards" /\ new.orgOutcome = outcome /\ new.ctx = ctx
       /\ new.org = q.org /\ new.held = q.held /\ new.touched = {} /\ new.user = q.user
       /\ new.key = q.key /\ new.route = q.route /\ new.routeTier = q.routeTier
  BY <1>3, <1>4 DEF InFlightForms
<1> HIDE DEF new
<1>11. Routed(new)
  BY <1>3, <1>10 DEF Routed
<1>12. HeldIn(new, new.org) = HeldIn(q, q.org)
  BY <1>10 DEF HeldIn
<1>13. InContext(new)
  <2>1. new.org # None
    BY <1>4, <1>10, NoneAssumption
  <2>2. CASE outcome = "ok"
    BY <1>7, <1>10, <1>12, <2>1, <2>2 DEF InContext
  <2>3. CASE outcome # "ok"
    BY <1>8, <1>10, <2>3 DEF InContext
  <2> QED
    BY <2>2, <2>3
<1>14. LookedUp(new, member)
  BY <1>6, <1>7, <1>10, <1>12 DEF LookedUp
<1>15. Admitted(new) /\ Refuses(new)
  BY <1>10 DEF Admitted, Refuses
<1>16. rows' \in [Ids -> Row \union {None}]
  BY <1>1 DEF IInv
<1> QED
  BY <1>1, <1>2, <1>9, <1>11, <1>13, <1>14, <1>15, <1>16, OneRequestMoves DEF Sound

\* The read fails: an error of no kind the filter knows.
LEMMA FailureKeepsIInv ==
    ASSUME IInv, NEW r \in Requests, LookupFails(r)
    PROVE  IInv'
<1>1. catch([kind |-> "unknown"]) = "INTERNAL"
  BY DEF catch, describeOrgBusy
<1> QED
  BY <1>1, AnswerKeepsIInv DEF LookupFails

\* What the guards make sure of before a handler runs.
LEMMA GuardsAdmit ==
    ASSUME NEW q \in InFlightForms, Routed(q), InContext(q),
           OrgScopeGuard(q) = None, CapabilityGuard(q) = None, JwtAuthGuard(q) = None
    PROVE  Served(q) /\ (q.org # None => q.orgOutcome = "ok")
<1> DEFINE route == Routes[q.route]
           tier == tierOf(route)
           marks == readDeclaration(route)
           kind == declarationOn(marks)
<1>1. q.route \in DOMAIN Routes /\ tier \in Tiers /\ route.jwt \in BOOLEAN
  BY TierOfRoute DEF InFlightForms
<1>2. /\ q.routeTier \in {"unknown", tier} /\ (tier = "org" => q.routeTier # "unknown")
      /\ tier # "system"
      /\ tier = "user" => q.user # None
      /\ tier = "org" => decideOrgScoped(q) = None
  BY <1>1, GatewayAssumption DEF OrgScopeGuard, Tiers
<1>3. tier = "org" => q.orgOutcome = "ok" /\ q.user # None
  BY <1>2, GatewayAssumption DEF decideOrgScoped
<1>4. route.jwt => q.user # None
  BY <1>1, GatewayAssumption DEF JwtAuthGuard
<1>5. q.org # None => tier = "org"
  BY <1>1, <1>2 DEF Routed, Tiers
<1>6. tier # "org" => q.ctx = None
  BY <1>5 DEF InContext
<1>7. ASSUME tier = "org"
      PROVE  /\ kind \in {"capability", "any-active-member"} /\ q.ctx # None
             /\ kind = "capability" => hasCapability(q.ctx.capabilities, marks.capability)
  <2>1. kind \in {"conflict", "invalid", "none", "capability", "any-active-member"}
    BY DEF declarationOn
  <2> HIDE DEF kind, marks
  <2>2. CapabilityGuard(q) =
          CASE kind \in {"conflict", "invalid"} -> "INTERNAL"
            [] kind = "none" -> "FORBIDDEN"
            [] OTHER ->
                 IF q.ctx = None THEN "INTERNAL"
                 ELSE IF kind = "any-active-member"
                         \/ hasCapability(q.ctx.capabilities, marks.capability)
                 THEN None ELSE "FORBIDDEN"
    BY <1>7 DEF CapabilityGuard, kind, marks
  <2> QED
    BY <2>1, <2>2, GatewayAssumption
<1>8. ASSUME tier = "org"
      PROVE  FollowsTable(marks, q.key[1], q.key[2])
  <2>1. PICK call \in Calls : q.key = <<call.verb, call.path>>
    BY DEF InFlightForms
  <2>2. q.key[1] = call.verb /\ q.key[2] = call.path
    BY <2>1
  <2>3. match(call.verb, call.path) = "org" /\ q.route = Dispatch(call.verb, call.path)
    BY <1>2, <1>8, <2>2 DEF Routed
  <2> QED
    BY <2>2, <2>3, TableAssumption
<1> DEFINE required == capabilityForRoute(q.key[1], q.key[2])
           declared == IF kind = "capability" THEN {marks.capability} ELSE {}
<1> HIDE DEF route, tier, marks, kind
<1>9. ASSUME tier = "org"
      PROVE  /\ required \union declared = declared
             /\ required = {} =>
                  <<capabilityLookupMethod(q.key[1]), q.key[2]>> \in ANY_ACTIVE_MEMBER_ROUTES
  BY <1>7, <1>8, <1>9 DEF FollowsTable, kind
<1>10. ASSUME tier = "org"
       PROVE  \E role \in HeldIn(q, q.ctx.organizationId) :
                \A c \in required \union declared : hasCapability(roleCapabilities[role], c)
  <2>1. PICK role \in HeldIn(q, q.org) : q.ctx.capabilities = roleCapabilities[role]
    BY <1>7, <1>10 DEF InContext
  <2>2. q.ctx.organizationId = q.org
    BY <1>7, <1>10 DEF InContext
  <2>3. \A c \in declared : hasCapability(roleCapabilities[role], c)
    BY <1>7, <1>10, <2>1
  <2> QED
    BY <1>9, <1>10, <2>1, <2>2, <2>3
<1>11. Served(q)
  BY <1>2, <1>4, <1>6, <1>7, <1>9, <1>10 DEF Served, route, tier, marks, kind
<1> QED
  BY <1>3, <1>5, <1>11

\* What the guards answer about an organization one never belonged to meanwhile.
LEMMA GuardsRefuse ==
    ASSUME NEW q \in InFlightForms, Routed(q), q.org # None,
           q.orgOutcome \in {"no_membership", "revoked"}
    PROVE  OrgScopeGuard(q) \in {"INTERNAL", "ORG_ACCESS_DENIED"}
<1>1. q.route \in DOMAIN Routes /\ tierOf(Routes[q.route]) \in Tiers
  BY TierOfRoute DEF InFlightForms
<1>2. q.routeTier = "org" /\ q.user # None
  BY GatewayAssumption DEF Routed
<1>3. decideOrgScoped(q) = "ORG_ACCESS_DENIED"
  BY <1>2 DEF decideOrgScoped
<1> QED
  BY <1>1, <1>2, <1>3 DEF OrgScopeGuard, Tiers

\* The guards decide.
LEMMA GuardsKeepIInv ==
    ASSUME IInv, NEW r \in Requests, canActivate(r)
    PROVE  IInv'
<1> DEFINE q == req[r]
           verdict == IF OrgScopeGuard(q) # None THEN OrgScopeGuard(q)
                      ELSE IF CapabilityGuard(q) # None THEN CapabilityGuard(q)
                      ELSE JwtAuthGuard(q)
           new == [q EXCEPT !.pc = "handler"]
<1>1. /\ q.pc = "guards" /\ UNCHANGED <<rows, member, changes>>
      /\ verdict = None => req' = [req EXCEPT ![r].pc = "handler"]
      /\ verdict # None => Answer(r, Domain(verdict))
  BY DEF canActivate
<1>2. q \in InFlightForms /\ Routed(q) /\ InContext(q) /\ LookedUp(q, member)
  BY <1>1, Flying DEF InFlight
<1>3. rows' \in [Ids -> Row \union {None}]
  BY <1>1 DEF IInv
<1>4. CASE verdict = None
  <2>1. req' = [req EXCEPT ![r] = new]
    BY <1>1, <1>4 DEF IInv
  <2>2. OrgScopeGuard(q) = None /\ CapabilityGuard(q) = None /\ JwtAuthGuard(q) = None
    BY <1>4
  <2>3. Served(q) /\ (q.org # None => q.orgOutcome = "ok")
    BY <1>2, <2>2, GuardsAdmit
  <2> HIDE DEF q
  <2>4. /\ new.pc = "handler" /\ new.orgOutcome = q.orgOutcome /\ new.ctx = q.ctx
        /\ new.org = q.org /\ new.held = q.held /\ new.touched = q.touched
        /\ new.user = q.user /\ new.key = q.key /\ new.route = q.route
        /\ new.routeTier = q.routeTier
    BY <1>2 DEF InFlightForms
  <2>5. new \in InFlightForms
    BY <1>2 DEF InFlightForms
  <2> HIDE DEF new
  <2>6. \A o : HeldIn(new, o) = HeldIn(q, o)
    BY <2>4 DEF HeldIn
  <2>7. Routed(new) /\ InContext(new)
    BY <1>2, <2>4, <2>6 DEF Routed, InContext
  <2>8. LookedUp(new, member)
    BY <1>1, <1>2, <2>4, <2>6 DEF LookedUp
  <2>9. Admitted(new) /\ Refuses(new)
    BY <2>3, <2>4, <2>6 DEF Admitted, Refuses, Served
  <2> QED
    BY <1>1, <1>3, <2>1, <2>5, <2>7, <2>8, <2>9, OneRequestMoves DEF Sound
<1>5. CASE verdict # None
  <2>1. Domain(verdict) = verdict
    BY DEF Domain, catch
  <2>2. ASSUME q.org # None, HeldIn(q, q.org) = {}
        PROVE  verdict \in {"INTERNAL", "ORG_ACCESS_DENIED"}
    <3>1. q.orgOutcome \in {"no_membership", "revoked"}
      BY <1>1, <1>2, <2>2 DEF LookedUp
    <3>2. OrgScopeGuard(q) \in {"INTERNAL", "ORG_ACCESS_DENIED"}
      BY <1>2, <2>2, <3>1, GuardsRefuse
    <3> QED
      BY <3>2, GatewayAssumption
  <2> HIDE DEF verdict
  <2> QED
    BY <1>1, <1>5, <2>1, <2>2, AnswerKeepsIInv
<1> QED
  BY <1>4, <1>5

\* A handler is about an organization only if its user belonged to it meanwhile.
LEMMA HandlerBelongs ==
    ASSUME IInv, NEW r \in Requests, req[r].pc = "handler"
    PROVE  req[r].org # None => HeldIn(req[r], req[r].org) # {}
  BY Flying DEF InFlight, Admitted, LookedUp

\* A query that goes through: whose context it runs in, and what it leaves.
LEMMA QueryConfined ==
    ASSUME IInv, NEW r \in Requests, req[r].pc = "handler", NEW q \in Queries,
           scopedClient(r, q) # Refused, NEW after \in Effects(scopedClient(r, q))
    PROVE  /\ req[r].ctx # None /\ req[r].org \in Orgs
           /\ after \in [Ids -> Row \union {None}]
           /\ Touched(scopedClient(r, q), after) \subseteq {req[r].org}
           /\ \A i \in Ids : rows[i] # None /\ rows[i].model \in LEDGER_MODELS =>
                 after[i] = rows[i]
<1>1. req[r] \in InFlightForms /\ InContext(req[r])
  BY Flying DEF InFlight
<1>2. req[r].ctx # None
  BY SeamPasses DEF scopedClient
<1>3. req[r].org \in Orgs /\ req[r].ctx.organizationId = req[r].org
  BY <1>1, <1>2 DEF InContext, InFlightForms
<1>4. scopedClient(r, q) = withOrgScope(q, req[r].org)
  BY <1>2, <1>3 DEF scopedClient
<1>5. Written(q) /\ rows \in [Ids -> Row \union {None}]
  BY GatewayAssumption DEF IInv
<1> QED
  BY <1>2, <1>3, <1>4, <1>5, SeamConfines

\* A handler queries.
LEMMA QueryKeepsIInv ==
    ASSUME IInv, NEW r \in Requests, NEW q \in Queries, Query(r, q)
    PROVE  IInv'
<1> DEFINE scoped == scopedClient(r, q)
<1>1. req[r].pc = "handler" /\ req[r].queries < MaxQueries /\ UNCHANGED <<member, changes>>
  BY DEF Query
<1>2. ASSUME NEW code, Answer(r, code), UNCHANGED rows
      PROVE  IInv'
  BY <1>1, <1>2, HandlerBelongs, AnswerKeepsIInv
<1>3. ASSUME NEW after \in Effects(scoped), scoped # Refused, rows' = after,
             req' = [req EXCEPT ![r].queries = @ + 1,
                                ![r].touched = @ \union Touched(scoped, after)]
      PROVE  IInv'
  <2> DEFINE old == req[r]
             touched == old.touched \union Touched(scoped, after)
             new == [old EXCEPT !.queries = old.queries + 1, !.touched = touched]
  <2>1. req' = [req EXCEPT ![r] = new]
    BY <1>3 DEF IInv
  <2>2. /\ old.ctx # None /\ old.org \in Orgs /\ after \in [Ids -> Row \union {None}]
        /\ Touched(scoped, after) \subseteq {old.org}
    BY <1>1, <1>3, QueryConfined
  <2>3. /\ old \in InFlightForms /\ Routed(old) /\ InContext(old)
        /\ LookedUp(old, member) /\ Admitted(old) /\ old.pc = "handler"
    BY <1>1, Flying DEF InFlight
  <2> HIDE DEF old, scoped
  <2>4. touched \in SUBSET Orgs /\ (touched # {} => touched = {old.org})
    BY <2>2, <2>3 DEF InContext
  <2>5. old.queries + 1 \in 0 .. MaxQueries
    <3>1. old.queries \in 0 .. MaxQueries /\ old.queries < MaxQueries
      BY <1>1, <2>3 DEF InFlightForms, old
    <3> QED
      BY <3>1, GatewayAssumption
  <2> HIDE DEF touched
  <2>6. new \in InFlightForms
    BY <2>3, <2>4, <2>5 DEF InFlightForms
  <2>7. /\ new.pc = old.pc /\ new.orgOutcome = old.orgOutcome /\ new.ctx = old.ctx
        /\ new.org = old.org /\ new.held = old.held /\ new.touched = touched
        /\ new.user = old.user /\ new.key = old.key /\ new.route = old.route
        /\ new.routeTier = old.routeTier
    BY <2>3 DEF InFlightForms
  <2> HIDE DEF new
  <2>8. \A o : HeldIn(new, o) = HeldIn(old, o)
    BY <2>7 DEF HeldIn
  <2>9. Routed(new) /\ LookedUp(new, member)
    BY <2>3, <2>7, <2>8 DEF Routed, LookedUp
  <2>10. InContext(new)
    BY <2>2, <2>3, <2>4, <2>7, <2>8 DEF InContext
  <2>11. Admitted(new) /\ Refuses(new)
    BY <2>3, <2>7, <2>8 DEF Admitted, Refuses, Served
  <2> QED
    BY <1>1, <1>3, <2>1, <2>2, <2>6, <2>9, <2>10, <2>11, OneRequestMoves DEF Sound
<1> QED
  BY <1>2, <1>3 DEF Query

\* A handler is done.
LEMMA RespondKeepsIInv ==
    ASSUME IInv, NEW r \in Requests, Respond(r)
    PROVE  IInv'
  BY HandlerBelongs, AnswerKeepsIInv DEF Respond

\* More roles held spoil nothing, and the present ones are always among them.
LEMMA MoreHeld ==
    ASSUME NEW q \in InFlightForms, NEW m, NEW n, NEW roles \in SUBSET (Orgs \X RoleIds),
           Sound(q, m), RolesNow(n, q.user) \subseteq roles \union q.held
    PROVE  Sound([q EXCEPT !.held = q.held \union roles], n)
<1> DEFINE new == [q EXCEPT !.held = q.held \union roles]
<1>1. q.pc \in {"lookup", "guards", "handler"}
  BY DEF InFlightForms
<1>2. Routed(q) /\ InContext(q) /\ LookedUp(q, m) /\ Admitted(q)
  BY <1>1 DEF Sound
<1>3. new \in InFlightForms
  BY DEF InFlightForms
<1>4. /\ new.pc = q.pc /\ new.orgOutcome = q.orgOutcome /\ new.ctx = q.ctx
      /\ new.org = q.org /\ new.held = q.held \union roles /\ new.touched = q.touched
      /\ new.user = q.user /\ new.key = q.key /\ new.route = q.route
      /\ new.routeTier = q.routeTier
  BY DEF InFlightForms
<1> HIDE DEF new
<1>5. \A o : HeldIn(q, o) \subseteq HeldIn(new, o)
  BY <1>4 DEF HeldIn
<1>6. Routed(new) /\ InContext(new)
  BY <1>2, <1>4, <1>5 DEF Routed, InContext
<1>7. LookedUp(new, n)
  BY <1>2, <1>4, <1>5 DEF LookedUp
<1>8. Admitted(new)
  <2>1. Served(q) => Served(new)
    BY <1>4, <1>5 DEF Served
  <2> QED
    BY <1>2, <1>4, <2>1 DEF Admitted
<1>9. Refuses(new)
  BY <1>1, <1>4 DEF Refuses
<1> QED
  BY <1>3, <1>6, <1>7, <1>8, <1>9 DEF Sound, new

\* A membership changes under the requests in flight.
LEMMA ChangeKeepsIInv ==
    ASSUME IInv, NEW o \in Orgs, NEW u \in Users, NEW m \in Membership, ChangeMember(o, u, m)
    PROVE  IInv'
<1>1. /\ member' = [member EXCEPT ![o][u] = m] /\ changes < MaxChanges
      /\ changes' = changes + 1 /\ rows' = rows
      /\ req' = [r \in Requests |->
            IF InFlight(r) /\ req[r].user = u
            THEN [req[r] EXCEPT !.held = @ \union RolesNow(member', u)] ELSE req[r]]
  BY DEF ChangeMember
<1>2. member' \in [Orgs -> [Users -> Membership \union {None}]]
  BY <1>1 DEF IInv
<1>3. changes' \in 0 .. MaxChanges
  BY <1>1, GatewayAssumption DEF IInv
<1>4. \A p \in Orgs, v \in Users \ {u} : member'[p][v] = member[p][v]
  BY <1>1 DEF IInv
<1>5. \A v \in Users \ {u} : RolesNow(member', v) = RolesNow(member, v)
  BY <1>4 DEF RolesNow
<1>6. ASSUME NEW r \in Requests
      PROVE  Sound(req'[r], member')
  <2>1. Sound(req[r], member)
    BY DEF IInv
  <2>2. CASE InFlight(r) /\ req[r].user = u
    <3>1. req'[r] = [req[r] EXCEPT !.held = req[r].held \union RolesNow(member', u)]
      BY <1>1, <2>2
    <3>2. req[r] \in InFlightForms
      BY <2>2, Flying
    <3> QED
      BY <2>1, <2>2, <3>1, <3>2, RolesNowType, MoreHeld
  <2>3. CASE InFlight(r) /\ req[r].user # u
    <3>1. req'[r] = req[r] /\ req[r] \in InFlightForms
      BY <1>1, <2>3, Flying
    <3>2. LookedUp(req[r], member')
      <4>1. LookedUp(req[r], member) /\ Routed(req[r])
        BY <2>3, Flying
      <4>2. req[r].pc = "lookup" => req[r].user \in Users \ {u}
        BY <2>3, <4>1 DEF LookedUp, Routed
      <4> QED
        BY <1>5, <4>1, <4>2 DEF LookedUp
    <3> QED
      BY <2>1, <3>1, <3>2 DEF Sound
  <2>4. CASE ~InFlight(r)
    <3>1. req'[r] = req[r] /\ req[r].pc \in {"idle", "done"}
      BY <1>1, <2>1, <2>4 DEF Sound, InFlight, InFlightForms
    <3> QED
      BY <2>1, <3>1 DEF Sound
  <2> QED
    BY <2>2, <2>3, <2>4
<1>7. req' = [r \in Requests |-> req'[r]]
  BY <1>1
<1> QED
  BY <1>1, <1>2, <1>3, <1>6, <1>7 DEF IInv

-----------------------------------------------------------------------------
\* The invariant holds of every behaviour of the pipeline.
THEOREM Invariant == Spec => []IInv
<1>1. Init => IInv
  BY GatewayAssumption DEF Init, IInv, Sound, Idle, Refuses
<1>2. IInv /\ [Next]_vars => IInv'
  <2> SUFFICES ASSUME IInv, [Next]_vars PROVE IInv'
    OBVIOUS
  <2>1. ASSUME NEW r \in Requests, NEW call \in Calls, use(r, call)
        PROVE  IInv'
    BY <2>1, UseKeepsIInv
  <2>2. ASSUME NEW r \in Requests, resolveOrgScoped(r) \/ LookupFails(r)
        PROVE  IInv'
    BY <2>2, ResolveKeepsIInv, FailureKeepsIInv
  <2>3. ASSUME NEW r \in Requests, canActivate(r)
        PROVE  IInv'
    BY <2>3, GuardsKeepIInv
  <2>4. ASSUME NEW r \in Requests, NEW q \in Queries, Query(r, q)
        PROVE  IInv'
    BY <2>4, QueryKeepsIInv
  <2>5. ASSUME NEW r \in Requests, Respond(r)
        PROVE  IInv'
    BY <2>5, RespondKeepsIInv
  <2>6. ASSUME NEW pair \in Moving, NEW m \in Membership, ChangeMember(pair[1], pair[2], m)
        PROVE  IInv'
    <3>1. pair[1] \in Orgs /\ pair[2] \in Users
      BY GatewayAssumption
    <3> QED
      BY <2>6, <3>1, ChangeKeepsIInv
  <2>7. CASE UNCHANGED vars
    BY <2>7 DEF vars, IInv
  <2> QED
    BY <2>1, <2>2, <2>3, <2>4, <2>5, <2>6, <2>7 DEF Next
<1> QED
  BY <1>1, <1>2, PTL DEF Spec

\* Every row a request touches belongs to the one organization it asked for, of
\* which its user was an active member since the request arrived.
THEOREM TenantsConfined == Spec => []Confined
<1>1. IInv => Confined
  <2> SUFFICES ASSUME IInv PROVE Confined
    OBVIOUS
  <2>1. ASSUME NEW r \in Requests
        PROVE  /\ req[r].pc \in {"idle", "lookup", "guards", "handler", "done"}
               /\ InFlight(r) =>
                    /\ req[r].touched \subseteq Orgs
                    /\ req[r].orgOutcome \in OrgAuthOutcome \union {"lookup"}
                    /\ req[r].routeTier \in AssumedRouteTier
    BY Flying DEF IInv, Sound, InFlightForms
  <2>2. ASSUME NEW r \in Requests, InFlight(r), req[r].touched # {}
        PROVE  req[r].touched = {req[r].org} /\ HeldIn(req[r], req[r].org) # {}
    BY <2>2, Flying DEF InContext
  <2>3. TypeOK
    BY <2>1 DEF TypeOK, IInv
  <2> QED
    BY <2>2, <2>3 DEF Confined
<1> QED
  BY <1>1, Invariant, PTL

\* A handler runs only for whom its route declares, whatever the routes are.
THEOREM HandlersServedAsDeclared == Spec => []ServedAsDeclared
<1>1. IInv => ServedAsDeclared
  BY Flying DEF ServedAsDeclared, InFlight, Admitted
<1> QED
  BY <1>1, Invariant, PTL

\* Organizations the caller never belonged to while asking are refused alike.
THEOREM StrangersRefusedAlike == Spec => []SameRefusal
<1>1. IInv => SameRefusal
  <2>1. IInv => \A r \in Requests : Refuses(req[r])
    BY DEF IInv, Sound
  <2> QED
    BY <2>1 DEF SameRefusal, Refuses
<1> QED
  BY <1>1, Invariant, PTL

\* No step changes or removes a row of a ledger.
THEOREM LedgersAppendOnly == Spec => LedgerAppendOnly
<1>1. IInv /\ [Next]_vars => [LedgerStands]_vars
  <2> SUFFICES ASSUME IInv, Next PROVE LedgerStands
    OBVIOUS
  <2>1. ASSUME NEW r \in Requests, NEW q \in Queries, Query(r, q)
        PROVE  LedgerStands
    <3>1. CASE rows' = rows
      BY <3>1 DEF LedgerStands
    <3>2. CASE scopedClient(r, q) # Refused /\ rows' \in Effects(scopedClient(r, q))
      BY <2>1, <3>2, QueryConfined DEF Query, LedgerStands
    <3> QED
      BY <2>1, <3>1, <3>2 DEF Query
  <2>2. ASSUME NEW r \in Requests,
               \/ \E call \in Calls : use(r, call)
               \/ resolveOrgScoped(r) \/ LookupFails(r) \/ canActivate(r) \/ Respond(r)
        PROVE  rows' = rows
    BY <2>2 DEF use, resolveOrgScoped, LookupFails, canActivate, Respond
  <2>3. ASSUME NEW pair \in Moving, NEW m \in Membership, ChangeMember(pair[1], pair[2], m)
        PROVE  rows' = rows
    BY <2>3 DEF ChangeMember
  <2> QED
    BY <2>1, <2>2, <2>3 DEF Next, LedgerStands
<1> QED
  BY <1>1, Invariant, PTL DEF Spec, LedgerAppendOnly
=============================================================================
