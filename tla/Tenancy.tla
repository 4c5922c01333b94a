------------------------------ MODULE Tenancy ------------------------------
(***************************************************************************)
(* packages/db/src: the seam every query of a request passes, as pure      *)
(* operators.  ledger-guard.ts refuses changes of ledger rows; tenancy.ts  *)
(* rewrites a query so that it stays in one organization, or refuses it.   *)
(*                                                                         *)
(* A query is what a service wrote, reduced to what the seam looks at: the *)
(* model, the operation, the value given for the organization column in    *)
(* `where` and in the payloads, and whether a payload writes a relation.   *)
(***************************************************************************)
EXTENDS Integers, Sequences, Functions

CONSTANTS
    Orgs,           \* ids of organizations, existing or made up
    Ids,            \* row ids
    None,           \* an absent value
    Malformed,      \* a value that is no object
    Refused         \* the outcome of a query that throws before it is sent

ASSUME NoneAssumption == {None, Malformed, Refused} \intersect (Orgs \union Ids) = {}

ORGANIZATION_MODEL == "Organization"
\* The fourteen tenant models behave alike; one stands for those that are no ledger.
LEDGER_MODELS == {"StockMovement", "UsageEvent"}
ORG_SCOPED_MODELS == {"Membership"} \union LEDGER_MODELS
ORG_AGNOSTIC_MODELS == {"User"}
Models == ORG_SCOPED_MODELS \union ORG_AGNOSTIC_MODELS \union {ORGANIZATION_MODEL}

Reads == {"findMany", "findFirst", "count", "aggregate", "groupBy", "findUnique"}
Creates == {"create", "createMany", "createManyAndReturn"}
Updates == {"update", "updateMany", "upsert"}
Deletes == {"delete", "deleteMany"}

\* An operation the table does not know has no strategy.  The ...OrThrow forms
\* are those of findFirst and findUnique.
ORG_SCOPE_OPERATION_STRATEGY(operation) ==
    CASE operation \in {"findMany", "findFirst", "count", "aggregate", "groupBy",
                        "updateMany", "deleteMany"}         -> "filterWhere"
      [] operation \in {"findUnique", "update", "delete"}   -> "uniqueWhere"
      [] operation = "create"                               -> "createData"
      [] operation \in {"createMany", "createManyAndReturn"} -> "createManyData"
      [] operation = "upsert"                               -> "upsert"
      [] operation \in {"updateManyAndReturn", "findRaw", "aggregateRaw"} -> "reject"
      [] OTHER                                              -> None

\* What a caller may have written for the organization column: nothing, an id,
\* an id in a filter or write wrapper, or something richer ({in: ..}, {not: ..}).
Forms == {"literal", "equals", "set", "other"}
Clauses == {None} \union [form : Forms, org : Orgs]

\* None is a value of its own and no clause (an object).
ASSUME NullAssumption == None \notin [form : Forms, org : Orgs]

Literal(o) == [form |-> "literal", org |-> o]

\* `where`: missing, no object, or the column's clause and the key it names, if any.
Wheres == {None, Malformed} \union [org : Clauses, key : Ids \union {None}]
NoFilter == [org |-> None, key |-> None]

\* A payload: the column's clause, what `organization: ..` says (connect to an id,
\* or a form the seam cannot read), and whether another key writes a relation.
Relations == {None} \union [form : {"connect", "other"}, org : Orgs]
Payloads == [org : Clauses, relation : Relations, nested : BOOLEAN]

-----------------------------------------------------------------------------
\* Mutant: upsert looks like a create and is let through.
isForbiddenLedgerMutationNoUpsert(model, operation) ==
    model \in LEDGER_MODELS /\ operation \in {"update", "updateMany"} \union Deletes

isForbiddenLedgerMutation(model, operation) ==
    model \in LEDGER_MODELS /\ operation \in Updates \union Deletes

\* Only a value that provably equals the context's organization passes: the id
\* itself or the id alone in the wrapper of that place.
assertMatchesContext(clause, wrapper, o) ==
    clause.form \in {"literal", wrapper} /\ clause.org = o

\* The column is verified where given, and then always set.
scopedWhere(where, o) ==
    IF where = Malformed THEN Refused
    ELSE IF where.org # None /\ ~assertMatchesContext(where.org, "equals", o)
    THEN Refused ELSE [where EXCEPT !.org = Literal(o)]

readConnectId(relation) == IF relation.form = "connect" THEN relation.org ELSE None

\* The organization of a row to create: verified in either form, or injected.
scopedCreateData(data, column, o) ==
    LET given == data.org # None
        related == ~given /\ column = "organizationId" /\ data.relation # None
    IN  CASE data = Malformed -> Refused
          [] data # Malformed /\ given /\ ~assertMatchesContext(data.org, "set", o) -> Refused
          [] data # Malformed /\ related ->
                IF readConnectId(data.relation) = o THEN data ELSE Refused
          [] OTHER -> [data EXCEPT !.org = Literal(o)]

\* Mutant: relations are left to the foreign keys.
guardWriteDataScalar(data, o) ==
    IF data.org # None /\ ~assertMatchesContext(data.org, "set", o)
    THEN Refused ELSE data

\* An update injects nothing, but may neither name another organization nor
\* write a relation, which could move the row without naming the column.
guardWriteData(data, o) ==
    IF \/ data.nested \/ data.relation # None
       \/ data.org # None /\ ~assertMatchesContext(data.org, "set", o)
    THEN Refused ELSE data

-----------------------------------------------------------------------------
(***************************************************************************)
(* A query: where, data (the update payload, None if it has none) and      *)
(* create (the sequence of payloads to create; createMany has several).    *)
(***************************************************************************)
QueryForms ==
    [model : STRING, operation : STRING, where : Wheres,
     data : Payloads \union {None}, create : Seq(Payloads \union {Malformed})]

\* What the services write: an update has a payload, and a row without an
\* organization is written by its own columns alone (nothing in the application
\* writes through a relation of it).
Written(q) ==
    /\ q \in QueryForms
    /\ q.operation \in Updates => q.data # None
    /\ q.model \in ORG_AGNOSTIC_MODELS =>
          \A p \in Range(q.create) \union ({q.data} \ {None}) :
              p # Malformed /\ p.org = None /\ p.relation = None /\ ~p.nested

scopeByColumn(q, column, o) ==
    LET strategy == ORG_SCOPE_OPERATION_STRATEGY(q.operation)
        where == IF q.where # None THEN scopedWhere(q.where, o)
                 ELSE IF strategy = "filterWhere" THEN scopedWhere(NoFilter, o)
                 ELSE Refused
        data == IF q.data = None THEN None ELSE guardWriteData(q.data, o)
        create == [k \in DOMAIN q.create |-> scopedCreateData(q.create[k], column, o)]
    IN  IF strategy \in {"createData", "createManyData"}
        THEN IF Refused \in Range(create) THEN Refused ELSE [q EXCEPT !.create = create]
        ELSE IF Refused \in {where, data} \union Range(create) THEN Refused
             ELSE [q EXCEPT !.where = where, !.data = data, !.create = create]

\* An organization has no organizationId: it is scoped by its own id, and none
\* can be created here.
scopeTenantRoot(q, o) ==
    IF ORG_SCOPE_OPERATION_STRATEGY(q.operation) \in {"createData", "createManyData", "upsert"}
    THEN Refused ELSE scopeByColumn(q, "id", o)

applyOrgScope(q, o) ==
    IF ORG_SCOPE_OPERATION_STRATEGY(q.operation) \in {None, "reject"} THEN Refused
    ELSE CASE q.model \in ORG_AGNOSTIC_MODELS -> q
           [] q.model = ORGANIZATION_MODEL -> scopeTenantRoot(q, o)
           [] q.model \in ORG_SCOPED_MODELS -> scopeByColumn(q, "organizationId", o)
           [] OTHER -> Refused

\* withOrgScope around the ledger-guarded client: o is the organization of the
\* request's context, None when it has none. 
withOrgScope(q, o) ==
    LET scoped == IF o = None THEN Refused ELSE applyOrgScope(q, o)
    IN  IF scoped = Refused \/ isForbiddenLedgerMutation(q.model, q.operation)
        THEN Refused ELSE scoped
=============================================================================
