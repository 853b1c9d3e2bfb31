--------------------------- MODULE ProcessQueries ---------------------------
(***************************************************************************)
(* A client walks through the pages of a query while the read model and    *)
(* the authorization policy change under it.  Every page is a request of   *)
(* its own: it is authorized again, its filter is intersected with the     *)
(* policy's, and the signed cursor of the page before is accepted only for *)
(* the same query under the same policy.  The pages of an export are read  *)
(* by the worker under the authorization stored with it.                   *)
(*                                                                         *)
(* Tables, filters and orderings follow the SQL the service compiles:      *)
(* comparisons with NULL are unknown, WHERE keeps what is true, NULL sorts *)
(* as the largest value, and a keyset condition compares with values.      *)
(***************************************************************************)
EXTENDS Naturals, Sequences, FiniteSets, SequencesExt

CONSTANTS
    Row,            \* identities of rows: numbers, for their order
    Table,          \* the tables a walk may start with
    Content,        \* the rows an update may write
    Query,          \* the queries: [export, events, sort, filter, collapse]
    Grant,          \* what a policy grants: [filter, fields]
    Limit,          \* bound: page sizes
    MaxFilterDepth, MaxPredicates, MaxSortFields,   \* of the tenant's policy
    MaxUpdates,     \* bound: changes of rows during a walk
    MaxPolicies,    \* bound: versions of the policy
    Null, NoFilter, NoCursor

VARIABLES
    table,      \* the rows of the read model
    policy,     \* the policy in force: its version and what it grants
    walk,       \* the client's walk through the pages
    steady      \* the rows that did not change since the walk began

queryVars == <<table, policy, walk, steady>>

(***************************************************************************)
(* Filters.                                                                *)
(***************************************************************************)
RECURSIVE Eval(_, _)
Eval(x, row) ==
    CASE x.op = "is_null" -> IF row[x.field] = Null THEN "true" ELSE "false"
      [] x.op = "equal"   -> IF row[x.field] = Null THEN "unknown"
                             ELSE IF row[x.field] = x.value THEN "true" ELSE "false"
      [] x.op = "not"     -> LET v == Eval(x.arg, row) IN
                             CASE v = "true" -> "false" [] v = "false" -> "true"
                               [] OTHER -> "unknown"
      [] x.op \in {"and", "or"} ->
            LET vs     == {Eval(a, row) : a \in x.args}
                strong == IF x.op = "and" THEN "false" ELSE "true"
            IN IF strong \in vs THEN strong
               ELSE IF "unknown" \in vs THEN "unknown"
               ELSE IF x.op = "and" THEN "true" ELSE "false"

Satisfies(row, x) == x = NoFilter \/ Eval(x, row) = "true"

RECURSIVE Depth(_)
Depth(x) ==
    CASE x.op = "not" -> 1 + Depth(x.arg)
      [] x.op \in {"and", "or"} -> 1 + Max({Depth(a) : a \in x.args})
      [] OTHER -> 1

RECURSIVE Predicates(_)
Predicates(x) ==
    CASE x.op = "not" -> Predicates(x.arg)
      [] x.op \in {"and", "or"} ->
            FoldSet(LAMBDA a, n : n + Predicates(a), 0, x.args)
      [] OTHER -> 1

RECURSIVE FieldsOf(_)
FieldsOf(x) ==
    CASE x.op = "not" -> FieldsOf(x.arg)
      [] x.op \in {"and", "or"} -> UNION {FieldsOf(a) : a \in x.args}
      [] OTHER -> {x.field}

IntersectFilters(client, granted) ==
    IF client = NoFilter THEN granted
    ELSE IF granted = NoFilter THEN client
    ELSE [op |-> "and", args |-> {granted, client}]

(***************************************************************************)
(* Sorting and cursors.                                                    *)
(***************************************************************************)
DefaultSort(q) ==
    <<[field |-> IF q.events THEN "sequence" ELSE "completed", desc |-> TRUE, coalesce |-> Null]>>

Asked(q) == IF q.sort = <<>> THEN DefaultSort(q) ELSE q.sort


\* The columns of ORDER BY: process queries end with the instance, which is
\* the row, unless they name it; event queries always end with the instance
\* of the event.
SortOf(q) ==
    IF ~q.events /\ \E i \in 1..Len(q.sort) : q.sort[i].field = "id"
    THEN q.sort
    ELSE Append(Asked(q), [field |-> IF q.events THEN "instance" ELSE "id",
                           desc |-> FALSE, coalesce |-> Null])

Value(row, s) == IF row[s.field] = Null THEN s.coalesce ELSE row[s.field]

Precedes(a, b, desc) ==
    CASE a = b -> FALSE
      [] a = Null -> desc
      [] b = Null -> ~desc
      [] OTHER -> IF desc THEN a > b ELSE a < b

Before(a, b, sort) ==
    \E i \in 1..Len(sort) :
        /\ \A j \in 1..(i - 1) : Value(a, sort[j]) = Value(b, sort[j])
        /\ Precedes(Value(a, sort[i]), Value(b, sort[i]), sort[i].desc)

\* The keyset condition; no comparison with NULL is true.
Beyond(row, sort, values) ==
    \E i \in 1..Len(sort) :
        /\ \A j \in 1..(i - 1) : Value(row, sort[j]) = values[j]
        /\ Value(row, sort[i]) # Null
        /\ Precedes(values[i], Value(row, sort[i]), sort[i].desc)

CursorFor(row, sort) == [i \in 1..Len(sort) |-> Value(row, sort[i])]

\* DISTINCT ON the first column keeps one row of each of its values.
Collapse(rows, q) ==
    IF ~q.collapse THEN rows
    ELSE SelectSeq(rows, LAMBDA r : \A k \in 1..Len(rows) :
            (Value(table[rows[k]], SortOf(q)[1]) = Value(table[r], SortOf(q)[1])) =>
                \A m \in 1..Len(rows) : rows[m] = r => m <= k)

\* The results in any order the database may give rows that tie.
Results(q, filter, after) ==
    LET sort == SortOf(q)
        rows == {r \in Row : /\ table[r] # Null
                             /\ Satisfies(table[r], filter)
                             /\ after = NoCursor \/ Beyond(table[r], sort, after)}
    IN {Collapse(s, q) : s \in {s \in SetToSeqs(rows) :
            \A i, j \in 1..Len(s) : i < j => ~Before(table[s[j]], table[s[i]], sort)}}

(***************************************************************************)
(* The walk.                                                               *)
(***************************************************************************)
NoWalk == [status |-> "none"]

QueryInit ==
    /\ table \in Table
    /\ \E g \in Grant : policy = [version |-> 1, grant |-> g]
    /\ walk = NoWalk
    /\ steady = Row

ValidateFieldAccess(q, grant) ==
    /\ {q.sort[i].field : i \in 1..Len(q.sort)} \subseteq grant.fields
    /\ q.filter # NoFilter => FieldsOf(q.filter) \subseteq grant.fields

NormalizeAndValidate(q, filter) ==
    /\ Len(SortOf(q)) <= MaxSortFields
    /\ filter # NoFilter => Depth(filter) <= MaxFilterDepth /\ Predicates(filter) <= MaxPredicates

\* Bug: the cursor is bound to the client's query only.
QueryOnly(q, filter, version) == [query |-> q]

\* Page size and cursor left out.
Fingerprint(q, filter, version) == [query |-> q, filter |-> filter, version |-> version]

\* The client asks for the first page, or for an export, which is accepted
\* under the authorization of the moment and rendered later.
StartWalk(q, limit) ==
    /\ walk = NoWalk
    /\ walk' = [status |-> "running", query |-> q, limit |-> limit, kept |-> policy,
                after |-> NoCursor, hash |-> NoCursor, rows |-> <<>>]
    /\ steady' = Row
    /\ UNCHANGED <<table, policy>>

Authorization == IF walk.query.export THEN walk.kept ELSE policy

\* One row more than the page tells whether there is another page.
NextPage ==
    LET q      == walk.query
        grant  == Authorization.grant
        filter == IntersectFilters(q.filter, grant.filter)
        hash   == Fingerprint(q, filter, Authorization.version)
        sort   == SortOf(q)
    IN
    /\ walk.status = "running"
    /\ IF \/ ~ValidateFieldAccess(q, grant)
          \/ ~NormalizeAndValidate(q, filter)
          \/ walk.hash # NoCursor /\ walk.hash # hash
       THEN walk' = [walk EXCEPT !.status = "refused"]
       ELSE \E s \in Results(q, filter, walk.after) :
            LET page == SubSeq(s, 1, IF Len(s) < walk.limit THEN Len(s) ELSE walk.limit)
                got  == walk.rows \o [i \in 1..Len(page) |->
                           [row |-> page[i], version |-> Authorization.version,
                            granted |-> Satisfies(table[page[i]], grant.filter)]]
            IN IF Len(s) <= walk.limit
               THEN walk' = [walk EXCEPT !.status = "done", !.rows = got]
               ELSE LET cursor == CursorFor(table[page[walk.limit]], sort) IN
                    walk' = IF \E i \in 1..Len(cursor) : cursor[i] = Null
                            THEN [walk EXCEPT !.status = "failed"]
                            ELSE [walk EXCEPT !.rows = got, !.after = cursor, !.hash = hash]
    /\ UNCHANGED <<table, policy, steady>>

\* Between two requests of a walk.
Underway == walk.status = "running" /\ (walk.query.export \/ walk.hash # NoCursor)

\* The projection writes a row; the row of an event never changes.
UpdateRow(r) ==
    /\ Underway
    /\ Cardinality(Row \ steady) < MaxUpdates
    /\ walk.query.events => table[r] = Null
    /\ \E c \in Content : c.id = r /\ c # table[r] /\ table' = [table EXCEPT ![r] = c]
    /\ steady' = steady \ {r}
    /\ UNCHANGED <<policy, walk>>

ChangePolicy ==
    /\ Underway
    /\ policy.version < MaxPolicies
    /\ \E g \in Grant : policy' = [version |-> policy.version + 1, grant |-> g]
    /\ UNCHANGED <<table, walk, steady>>

QueryNext ==
    \/ \E q \in Query, n \in Limit : StartWalk(q, n)
    \/ NextPage
    \/ \E r \in Row : UpdateRow(r)
    \/ ChangePolicy
-----------------------------------------------------------------------------
Times(r) == Cardinality({k \in 1..Len(walk.rows) : walk.rows[k].row = r})

\* A walk that started as a valid query ends, and its pages hold every row
\* that matched all along exactly once, and no row that did not: other rows
\* came, went and moved between the pages meanwhile.
PagesCoverTheResult ==
    walk # NoWalk =>
        /\ walk.status # "failed"
        /\ walk.status = "done" => \A r \in steady :
              LET sought == IntersectFilters(walk.query.filter, walk.kept.grant.filter)
              IN Times(r) = IF table[r] # Null /\ Satisfies(table[r], sought) THEN 1 ELSE 0

\* All rows of a walk were granted by one version of the policy, and each by
\* its filter when it was read, whatever Boolean shape the client's filter has.
WalkKeepsItsAuthorization ==
    walk # NoWalk =>
        /\ \A k \in 1..Len(walk.rows) :
              walk.rows[k].granted /\ walk.rows[k].version = walk.rows[1].version
=============================================================================
