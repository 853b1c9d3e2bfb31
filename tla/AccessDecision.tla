--------------------------- MODULE AccessDecision ---------------------------
(***************************************************************************)
(* The decision point of the authorization control plane, for one user and *)
(* one action of one tenant: the grant rows in the database, the relation  *)
(* graph with its write triggers, the structures a server warms at start   *)
(* (the membership filter and the windows of each permission), the circuit *)
(* breaker of the relation search, and one request at a time going through *)
(* the layers of the pipeline.  A check uses the warmed structures; a      *)
(* query reads the database throughout and returns filters.                *)
(***************************************************************************)
EXTENDS AccessAlgorithms, FiniteSets

CONSTANTS
  Role, Parent, NoRole,      \* the roles, and the role each inherits from
  Permission, ActionOf,      \* the permissions and the action of each
  ScopeAll,                  \* the permissions whose scope is "all"
  FiltersOf, NoFilter,       \* the row filters of a permission: sets of documents
  FieldsOf, NoFields,        \* its field filters: [allowed, masked]
  Extra, NoCondition,        \* the condition of each role's grant of a permission
  Rule, NoRule,              \* the policy rules: [action, effect, priority, condition]
  WindowChoice,              \* the windows each permission may have, as read
  OtherGrants,               \* other users of the tenant hold permissions
  Unparsable,                \* the conditions that are not a condition tree
  Attributes,                \* the attributes a request may carry
  Action,                    \* the action asked for
  UserNode, Edge,            \* the user's node, and the tuples an administrator may add
  Materialized,              \* what the reachability table holds
  Midnight,                  \* the hours of a day
  ZoneOffset,                \* the hours the windows' time zone is ahead of UTC
  MaxDepth, MaxFanout, MaxObjects, QueryLimit, Threshold,
  MaxWrites, MaxFailures, MaxRequests

VARIABLES
  direct,    \* the roles assigned to the user
  holds,     \* the permissions granted to each role
  rules,     \* the rules of active policies
  windows,   \* the windows of each permission, in the order they are read
  active,    \* the user may sign in
  tuples,    \* the relation tuples: "live" or "expired"
  inserting, \* tuples whose triggers have run and that are not committed
  warm,      \* what the server loaded at its last start
  circuit,   \* the breaker: failures counted, and whether it is open
  request,   \* the request being evaluated, or the last one answered
  budget     \* how many writes, failures and requests are left

accessVars == <<direct, holds, rules, windows, active, tuples, inserting, warm, circuit,
                request, budget>>
database == <<direct, holds, rules, windows, active, tuples, inserting>>

----------------------------------------------------------------------------
(* What the tables answer.                                                 *)

Live == {e \in DOMAIN tuples : tuples[e] = "live"}

RECURSIVE Inherits(_)
\* The role and everything above it.
Inherits(r) == {r} \union (IF Parent[r] = NoRole THEN {} ELSE Inherits(Parent[r]))

OneOr(set, none) == IF set = {} THEN {none} ELSE set

\* The rows of the permission query: one per assignment, role above it,
\* grant, row filter, field filter and active rule of the action.
GrantRows ==
  UNION {{[via |-> d, role |-> r, permission |-> p, filter |-> f, fields |-> g, rule |-> u]
            : f \in OneOr(FiltersOf[p], NoFilter), g \in OneOr(FieldsOf[p], NoFields),
              u \in OneOr({v \in rules : v.action = ActionOf[p]}, NoRule)}
         : <<d, r, p>> \in {t \in direct \X Role \X Permission :
                              t[2] \in Inherits(t[1]) /\ t[3] \in holds[t[2]]}}

\* The grants a start-up loads name only the roles assigned directly.
DirectGrants == UNION {{ActionOf[p] : p \in holds[d]} : d \in direct}

\* A row comes before another: the higher priority first, and a row without
\* a rule, whose priority is null, before any.
Before(g, h) == h.rule # NoRule /\ (g.rule = NoRule \/ g.rule.priority > h.rule.priority)

NoRequest == [mode |-> "none", answer |-> "none"]

\* load_initial.  A tenant without any grant has no filter.
WarmUp == [filter |-> DirectGrants, hasFilter |-> OtherGrants \/ DirectGrants # {},
           index |-> [p \in Permission |-> TreeOf(windows[p])]]

AccessInit ==
  /\ direct \in SUBSET Role
  /\ holds \in [Role -> SUBSET Permission]
  /\ rules \in SUBSET Rule
  /\ windows \in WindowChoice
  /\ active = TRUE
  /\ tuples = <<>>
  /\ inserting = {}
  /\ warm = WarmUp
  /\ circuit = [failures |-> 0, open |-> FALSE]
  /\ request = NoRequest
  /\ budget = [writes |-> MaxWrites, failures |-> MaxFailures, requests |-> MaxRequests]

Spend(what) == budget[what] > 0 /\ budget' = [budget EXCEPT ![what] = @ - 1]

----------------------------------------------------------------------------
(* Administration and time.                                                *)

\* assign_role.
AssignRole(r) ==
  /\ r \notin direct
  /\ Spend("writes")
  /\ direct' = direct \union {r}
  /\ UNCHANGED <<holds, rules, windows, active, tuples, inserting, warm, circuit, request>>

\* create_permission, linked to a role.
LinkPermission(r, p) ==
  /\ p \notin holds[r]
  /\ Spend("writes")
  /\ holds' = [holds EXCEPT ![r] = @ \union {p}]
  /\ UNCHANGED <<direct, rules, windows, active, tuples, inserting, warm, circuit, request>>

\* A policy becomes active or is retired, and its rule with it.
ChangeRule(u) ==
  /\ Spend("writes")
  /\ rules' = IF u \in rules THEN rules \ {u} ELSE rules \union {u}
  /\ UNCHANGED <<direct, holds, windows, active, tuples, inserting, warm, circuit, request>>

\* deactivate_inactive_users.
DeactivateUser ==
  /\ active
  /\ Spend("writes")
  /\ active' = FALSE
  /\ UNCHANGED <<direct, holds, rules, windows, tuples, inserting, warm, circuit, request>>

\* The triggers of an insert: no cycle and no more tuples than the fan-out.
\* They run before the conflict with an existing tuple is noticed.
TriggersPass(e) ==
  /\ ~ClosesCycle(Live, e[1], e[2])
  /\ Cardinality(Neighbours(Live, e[1])) < MaxFanout

StartInsert(e) ==
  /\ e \notin inserting
  /\ TriggersPass(e)
  /\ Spend("writes")
  /\ inserting' = inserting \union {e}
  /\ UNCHANGED <<direct, holds, rules, windows, active, tuples, warm, circuit, request>>

\* The insert commits; a tuple that exists already is left as it is, an
\* expired one included.
CommitInsert(e) ==
  /\ e \in inserting
  /\ inserting' = inserting \ {e}
  /\ tuples' = IF e \in DOMAIN tuples THEN tuples ELSE tuples @@ (e :> "live")
  /\ UNCHANGED <<direct, holds, rules, windows, active, warm, circuit, request, budget>>

ExpireTuple(e) ==
  /\ e \in Live
  /\ Spend("writes")
  /\ tuples' = [tuples EXCEPT ![e] = "expired"]
  /\ UNCHANGED <<direct, holds, rules, windows, active, inserting, warm, circuit, request>>

\* The server starts again: it warms its structures or, when that fails,
\* serves with empty ones; the breaker is closed.
RestartServer ==
  /\ Spend("failures")
  /\ warm' \in {WarmUp, [filter |-> {}, hasFilter |-> FALSE, index |-> <<>>]}
  /\ circuit' = [failures |-> 0, open |-> FALSE]
  /\ request' = NoRequest
  /\ UNCHANGED database

\* The reset window of the breaker passes: the next search is a probe.
ResetWindowPasses ==
  /\ circuit.open
  /\ circuit' = [circuit EXCEPT !.open = FALSE]
  /\ UNCHANGED <<database, warm, request, budget>>

----------------------------------------------------------------------------
(* A request.                                                              *)

MayBeRejected(mode) == mode = "check" /\ warm.hasFilter /\ Action \notin warm.filter

\* The layers up to the permission rows.  The membership filter may answer
\* that an absent action is present, never the other way round.
BeginRequest(mode, attributes, hour) ==
  LET matching == {g \in GrantRows : ActionOf[g.permission] = Action}
      Ends(a) == request' = [mode |-> mode, answer |-> a, granted |-> matching # {}, reads |-> {}]
  IN /\ request.answer # "pending"
     /\ Spend("requests")
     /\ UNCHANGED <<database, warm, circuit>>
     /\ \/ ~active /\ Ends("INACTIVE")
        \/ active /\ MayBeRejected(mode) /\ Ends("CUCKOO_FAST_REJECT")
        \/ active /\ mode = "query" /\ Cardinality(GrantRows) > QueryLimit /\ Ends("ERROR")
        \/ /\ active
           /\ mode = "query" => Cardinality(GrantRows) <= QueryLimit
           /\ IF matching = {} THEN Ends("NO_MATCHING_PERMISSION")
              ELSE request' = [mode |-> mode, answer |-> "pending", granted |-> TRUE,
                               attributes |-> attributes, hour |-> hour, rows |-> matching,
                               left |-> matching, chosen |-> NoRole, filter |-> NoFilter,
                               fields |-> NoFields, reads |-> {}]

\* The permission rows cannot be read: a check is answered by the fail mode.
ReadFails(mode) ==
  /\ request.answer # "pending"
  /\ active
  /\ Spend("failures")
  /\ request' = [mode |-> mode, answer |-> IF mode = "query" THEN "ERROR" ELSE "UNAVAILABLE",
                 granted |-> FALSE, reads |-> {}]
  /\ UNCHANGED <<database, warm, circuit>>

Within(w, hour) == w.from <= hour /\ hour <= w.until

\* evaluate_temporal_gate: every window of the permission holds, in its zone.
GateOpen(p, hour) ==
  \A k \in 1..Len(windows[p]) : Within(windows[p][k], (hour + ZoneOffset) % Midnight)

\* evaluate_temporal_for_permission: a check asks the index first, in UTC.
TemporalHolds(p) ==
  IF request.mode = "query" THEN GateOpen(p, request.hour)
  ELSE warm.index # <<>> /\ windows[p] # <<>> =>
         HasTimeWindow(warm.index[p], request.hour) /\ GateOpen(p, request.hour)

ConditionsOf(row) ==
  SelectSeq(<<IF row.rule = NoRule THEN NoCondition ELSE row.rule.condition,
              Extra[<<row.role, row.permission>>]>>, LAMBDA c : c # NoCondition)

Broken(row) == ToSet(ConditionsOf(row)) \intersect Unparsable # {}

\* The relation search of a check: the table first, then the graph.
Related(o) == <<UserNode, o>> \in Materialized \/ CheckPath(Live, UserNode, o, MaxDepth)

\* Whether a row's grant applies: evaluate_permission_conditions.
Applies(row) ==
  LET tree == Both(ConditionsOf(row))
      found == ReachableLive(Live, UserNode, MaxDepth)
      plain == Evaluate(tree, request.attributes)
  IN CASE ~TemporalHolds(row.permission) -> "false"
       [] ConditionsOf(row) = <<>> -> "true"
       [] Broken(row) -> IF request.mode = "query" THEN "error" ELSE "false"
       [] request.mode = "query" ->
            IF HasUnsupported(tree) \/ (HasRelation(tree) /\ Cardinality(found) > MaxObjects)
            THEN "error"
            ELSE Evaluate(ResolveRelations(tree, found), request.attributes)
       [] plain # "true" \/ ~HasRelation(tree) -> plain
       [] circuit.open -> "error"
       [] OTHER -> IF \A o \in Targets(tree) : Related(o) THEN "true" ELSE "false"

\* The row's conditions are reached and ask the relation graph.
Searches(row) ==
  /\ TemporalHolds(row.permission)
  /\ ConditionsOf(row) # <<>>
  /\ ~Broken(row)
  /\ HasRelation(Both(ConditionsOf(row)))
  /\ \/ request.mode = "query" /\ ~HasUnsupported(Both(ConditionsOf(row)))
     \/ request.mode = "check" /\ ~circuit.open
        /\ Evaluate(Both(ConditionsOf(row)), request.attributes) = "true"

MergeFilters(a, b) == IF a = NoFilter THEN b ELSE IF b = NoFilter THEN a ELSE a \intersect b

MergeFields(a, b) ==
  IF a = NoFields THEN b ELSE IF b = NoFields THEN a
  ELSE [allowed |-> IF a.allowed = {} THEN b.allowed ELSE IF b.allowed = {} THEN a.allowed
                    ELSE a.allowed \intersect b.allowed,
        masked |-> a.masked \union b.masked]

\* Field grants that leave nothing.
Disjoint(a, b) ==
  /\ a # NoFields /\ b # NoFields
  /\ a.allowed # {} /\ b.allowed # {}
  /\ a.allowed \intersect b.allowed = {}

\* The loop goes on, or ends with an answer when no row is left.
Advance(r) ==
  IF r.left # {} THEN r
  ELSE [r EXCEPT !.answer = IF r.chosen = NoRole THEN "POLICY_CONDITION_FAILED" ELSE "ALLOW"]

\* The loop's body once a grant has been found to apply, with the loop left
\* at the first grant that allows.
TakeFirst(r, row) ==
  IF row.rule # NoRule /\ row.rule.effect = "DENY" THEN [r EXCEPT !.answer = "EXPLICIT_DENY"]
  ELSE [r EXCEPT !.chosen = row.permission, !.filter = row.filter, !.fields = row.fields,
                 !.answer = "ALLOW"]

\* The loop's body once a grant has been found to apply: a DENY ends it, the
\* first ALLOW is taken, and a query narrows it by the permission's others.
TakeRow(r, row) ==
  CASE row.rule # NoRule /\ row.rule.effect = "DENY" -> [r EXCEPT !.answer = "EXPLICIT_DENY"]
    [] r.chosen = NoRole /\ r.mode = "query" /\ row.permission \notin ScopeAll
         /\ row.filter = NoFilter -> Advance(r)
    [] r.chosen = NoRole ->
         Advance([r EXCEPT !.chosen = row.permission, !.filter = row.filter, !.fields = row.fields])
    [] r.mode = "query" /\ r.chosen = row.permission ->
         IF Disjoint(r.fields, row.fields) THEN [r EXCEPT !.answer = "ERROR"]
         ELSE Advance([r EXCEPT !.filter = MergeFilters(@, row.filter),
                                !.fields = MergeFields(@, row.fields)])
    [] OTHER -> Advance(r)

\* The rows the loop may come to next: rows of one priority have no order.
NextRows == {g \in request.left : ~\E h \in request.left : Before(h, g)}

\* One row of the loop.  A search that finds a path in the graph forgets the
\* failures counted before it.
EvaluateRow ==
  /\ request.answer = "pending"
  /\ \E row \in NextRows :
       LET seen == [request EXCEPT !.left = @ \ {row}, !.reads = @ \union {Live}]
       IN /\ request' = CASE Applies(row) = "error" -> [seen EXCEPT !.answer = "ERROR"]
                          [] Applies(row) = "false" -> Advance(seen)
                          [] OTHER -> TakeRow(seen, row)
          /\ circuit' = IF request.mode = "check" /\ Searches(row)
                           /\ \E o \in Targets(Both(ConditionsOf(row))) :
                                 <<UserNode, o>> \notin Materialized /\ Related(o)
                        THEN [failures |-> 0, open |-> FALSE] ELSE circuit
  /\ UNCHANGED <<database, warm, budget>>

\* The search of a row's relations times out or cannot read the table; only
\* a check counts it.
SearchFails ==
  /\ request.answer = "pending"
  /\ \E row \in NextRows : Searches(row)
  /\ Spend("failures")
  /\ request' = [request EXCEPT !.answer = "ERROR"]
  /\ circuit' = IF request.mode = "query" THEN circuit
                ELSE [failures |-> circuit.failures + 1,
                      open |-> circuit.failures + 1 >= Threshold]
  /\ UNCHANGED <<database, warm>>

AccessNext ==
  \/ \E r \in Role : AssignRole(r) \/ \E p \in Permission : LinkPermission(r, p)
  \/ \E u \in Rule : ChangeRule(u)
  \/ \E e \in Edge : StartInsert(e) \/ CommitInsert(e) \/ ExpireTuple(e)
  \/ DeactivateUser
  \/ RestartServer
  \/ ResetWindowPasses
  \/ \E mode \in {"check", "query"} :
       \/ ReadFails(mode)
       \/ \E a \in Attributes, h \in 0..(Midnight - 1) : BeginRequest(mode, a, h)
  \/ EvaluateRow
  \/ SearchFails

----------------------------------------------------------------------------
(* Properties.                                                             *)

\* The nodes a graph reaches from a node in one to n steps.
Image(edges, nodes) == {e[2] : e \in {f \in edges : f[1] \in nodes}}
Reaches(edges, n) ==
  LET layer[k \in 0..n] == IF k = 0 THEN {UserNode} ELSE Image(edges, layer[k - 1])
  IN UNION {layer[k] : k \in 1..n}

\* A row's grant applies, read as a whole: its windows and its conditions.
Granted(row, edges) ==
  /\ GateOpen(row.permission, request.hour)
  /\ ~Broken(row)
  /\ ~HasUnsupported(Both(ConditionsOf(row)))
  /\ Truth(Both(ConditionsOf(row)), request.attributes, Reaches(edges, MaxDepth))

\* A query is answered by what its rows grant, in whatever order they came:
\* one DENY that applies refuses it, otherwise it is allowed exactly when an
\* ALLOW with a scope or a filter applies, and the filter returned is narrowed
\* by every grant of the permission that was taken (evaluate_query: the loop
\* of evaluate_inner, resolve_query_relations and the recursive query).
QueryAnsweredAsGranted ==
  /\ request.mode = "query"
  /\ request.answer \in {"ALLOW", "EXPLICIT_DENY", "POLICY_CONDITION_FAILED"}
  /\ Cardinality(request.reads) = 1
  => LET edges == CHOOSE l \in request.reads : TRUE
         applying == {g \in request.rows : Granted(g, edges)}
         Denies(g) == g.rule # NoRule /\ g.rule.effect = "DENY"
         usable == {g \in applying : g.permission \in ScopeAll \/ g.filter # NoFilter}
         taken == {g \in applying : g.permission = request.chosen}
     IN /\ request.answer = "EXPLICIT_DENY" <=> \E g \in applying : Denies(g)
        /\ request.answer = "ALLOW" => /\ usable # {}
                                       /\ taken # {}
                                       /\ \A g \in taken : MergeFilters(g.filter, request.filter) = request.filter
                                       /\ \A g \in taken : MergeFields(g.fields, request.fields) = request.fields
        /\ request.answer = "POLICY_CONDITION_FAILED" => usable = {}

\* The two fast structures answer as the plain ones: the interval tree finds
\* a window of the day exactly when some window covers the hour, and the
\* deepening search reaches exactly the objects of the recursive query, in a
\* graph that concurrent inserts may have closed into a cycle
\* (interval_tree.rs, iddfs.rs, resolve_reachable_objects_live).
FastPathsAgree ==
  /\ \A p \in Permission, h \in 0..(Midnight - 1) :
       HasTimeWindow(TreeOf(windows[p]), h) <=> \E k \in 1..Len(windows[p]) : Within(windows[p][k], h)
  /\ \A o \in {e[2] : e \in Edge} \ {UserNode} :
       CheckPath(Live, UserNode, o, MaxDepth) <=> o \in ReachableLive(Live, UserNode, MaxDepth)

\* A check refused by the membership filter is refused because no grant of
\* the user names the action (cuckoo.rs: "If this returns `false`, it is 100%
\* guaranteed the user does not have the permission").
FastRejectIsSound == request.answer = "CUCKOO_FAST_REJECT" => ~request.granted
=============================================================================
