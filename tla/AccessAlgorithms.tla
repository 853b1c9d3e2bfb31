------------------------- MODULE AccessAlgorithms -------------------------
(***************************************************************************)
(* The pure parts of the authorization control plane's decision pipeline:  *)
(* the evaluation of a condition tree over attributes and relations, the   *)
(* bounded depth-first search of the relation graph, its SQL counterpart,  *)
(* and the interval tree that indexes a permission's windows of the day.   *)
(* A JSON value is a tagged pair; a relation graph is a set of pairs of    *)
(* nodes; one relation name is modelled.                                   *)
(***************************************************************************)
EXTENDS Integers, SequencesExt

RECURSIVE HasRelation(_), Evaluate(_, _), ResolveRelations(_, _)
RECURSIVE Targets(_), Truth(_, _, _), Dfs(_, _, _, _, _)
RECURSIVE Grow(_, _, _), InsertNode(_, _), Overlapping(_, _), OverlappingRight(_, _)

----------------------------------------------------------------------------
(* Conditions.  A leaf compares two sources; an inner node is an AND or OR.*)

JsonNull == <<"null">>
JsonBool(b) == <<"bool", b>>
JsonNum(n) == <<"num", n>>
JsonList(s) == <<"list", s>>

Leaf(left, op, right) == [node |-> "leaf", left |-> left, op |-> op, right |-> right]
Both(s) == [node |-> "and", args |-> s]
Either(s) == [node |-> "or", args |-> s]
Attribute(key) == [from |-> "attribute", key |-> key]
Literal(v) == [from |-> "literal", value |-> v]
Relation(target) == [from |-> "relation", target |-> target]
External == [from |-> "external"]

\* The value of a source: an absent attribute is null, and so is a relation.
ResolveValue(source, attributes) ==
  CASE source.from = "attribute" ->
         IF source.key \in DOMAIN attributes THEN attributes[source.key] ELSE JsonNull
    [] source.from = "literal" -> source.value
    [] OTHER -> JsonNull

Numbers(left, right) == left[1] = "num" /\ right[1] = "num"

ApplyOperator(op, left, right) ==
  CASE op = "eq" -> left = right
    [] op = "neq" -> left # right
    [] op = "in" -> right[1] = "list" /\ left \in right[2]
    [] op = "not_in" -> right[1] = "list" => left \notin right[2]
    [] op = "gte" -> Numbers(left, right) /\ left[2] >= right[2]
    [] op = "lte" -> Numbers(left, right) /\ left[2] <= right[2]
    [] op = "is_null" -> left = JsonNull
    [] op = "exists" -> left # JsonNull

\* evaluate_node: "true", "false", or "error" when a source that is reached
\* has no provider.  The first child that decides the node ends it.
Evaluate(tree, attributes) ==
  IF tree.node = "leaf"
  THEN IF External \in {tree.left, tree.right} THEN "error"
       ELSE IF ApplyOperator(tree.op, ResolveValue(tree.left, attributes),
                             ResolveValue(tree.right, attributes)) THEN "true" ELSE "false"
  ELSE LET results == [k \in 1..Len(tree.args) |-> Evaluate(tree.args[k], attributes)]
           neutral == IF tree.node = "and" THEN "true" ELSE "false"
           deciding == {k \in 1..Len(tree.args) : results[k] # neutral}
       IN IF deciding = {} THEN neutral
          ELSE results[CHOOSE k \in deciding : \A l \in deciding : k <= l]

HasRelation(tree) ==
  IF tree.node = "leaf" THEN "relation" \in {tree.left.from, tree.right.from}
  ELSE \E k \in 1..Len(tree.args) : HasRelation(tree.args[k])

\* collect_relation_leaves: what every relation of the tree points at.
Targets(tree) ==
  IF tree.node = "leaf"
  THEN {s.target : s \in {t \in {tree.left, tree.right} : t.from = "relation"}}
  ELSE UNION {Targets(tree.args[k]) : k \in 1..Len(tree.args)}

\* The relations resolve_query_relations refuses.
Unsupported(tree) ==
  /\ tree.node = "leaf"
  /\ \/ tree.left.from = "relation" /\ tree.op # "exists"
     \/ tree.left.from # "relation" /\ tree.right.from = "relation"

\* resolve_query_relations: each relation leaf becomes the comparison of a
\* literal, whether the target is among the reachable objects, with true.
ResolveRelations(tree, reachable) ==
  IF tree.node # "leaf"
  THEN [tree EXCEPT !.args = [k \in 1..Len(tree.args) |-> ResolveRelations(tree.args[k], reachable)]]
  ELSE IF tree.left.from = "relation"
       THEN Leaf(Literal(JsonBool(tree.left.target \in reachable)), "eq", Literal(JsonBool(TRUE)))
       ELSE tree

HasUnsupported(tree) ==
  LET RECURSIVE Found(_)
      Found(t) == IF t.node = "leaf" THEN Unsupported(t)
                  ELSE \E k \in 1..Len(t.args) : Found(t.args[k])
  IN Found(tree)

\* What a condition means when every source it needs has a provider: a
\* relation leaf holds exactly when its target is related to the user.
Truth(tree, attributes, related) ==
  CASE tree.node = "and" -> \A k \in 1..Len(tree.args) : Truth(tree.args[k], attributes, related)
    [] tree.node = "or" -> \E k \in 1..Len(tree.args) : Truth(tree.args[k], attributes, related)
    [] tree.node = "leaf" /\ tree.left.from = "relation" -> tree.left.target \in related
    [] OTHER -> ApplyOperator(tree.op, ResolveValue(tree.left, attributes),
                              ResolveValue(tree.right, attributes))

----------------------------------------------------------------------------
(* The relation graph.                                                     *)

Neighbours(edges, node) == {e[2] : e \in {f \in edges : f[1] = node}}

\* dfs_with_limit: a node is marked while its successors are searched.
Dfs(edges, current, target, limit, visited) ==
  \/ current = target
  \/ /\ limit # 0
     /\ current \notin visited
     /\ \E next \in Neighbours(edges, current) :
          Dfs(edges, next, target, limit - 1, visited \union {current})

\* check_permission: deepen until the target is found.
CheckPath(edges, subject, target, maxDepth) ==
  \E limit \in 1..maxDepth : Dfs(edges, subject, target, limit, {})

\* The recursive query: rows of an object and its depth, one more hop while
\* the depth is below the bound.
Grow(edges, rows, maxDepth) ==
  LET next == rows \union {<<e[2], r[2] + 1>> : <<e, r>> \in
                 {p \in edges \X rows : p[1][1] = p[2][1] /\ p[2][2] < maxDepth}}
  IN IF next = rows THEN rows ELSE Grow(edges, next, maxDepth)

\* resolve_reachable_objects_live, before the bound on its size.
ReachableLive(edges, subject, maxDepth) ==
  {r[1] : r \in Grow(edges, {<<o, 1>> : o \in Neighbours(edges, subject)}, maxDepth)}

\* check_relation_cycle: the object already reaches the subject.
ClosesCycle(edges, subject, object) ==
  subject \in ReachableLive(edges, object, Cardinality(edges))

----------------------------------------------------------------------------
(* The interval tree of the windows of a day.                              *)

NoTree == <<>>
Window(from, until) == [from |-> from, until |-> until]
Overlaps(a, b) == a.from <= b.until /\ b.from <= a.until
Later(a, b) == IF a > b THEN a ELSE b

InsertNode(tree, interval) ==
  IF tree = NoTree
  THEN [interval |-> interval, max |-> interval.until, left |-> NoTree, right |-> NoTree]
  ELSE LET side == IF interval.from < tree.interval.from THEN "left" ELSE "right"
       IN [tree EXCEPT ![side] = InsertNode(tree[side], interval),
                       !.max = Later(tree.max, interval.until)]

TreeOf(intervals) == FoldLeft(InsertNode, NoTree, intervals)

\* find_overlapping with the right child searched only above the node.
OverlappingRight(tree, query) ==
  IF tree = NoTree \/ tree.max < query.from THEN {}
  ELSE {i \in {tree.interval} : Overlaps(i, query)}
       \union (IF query.until < tree.interval.from THEN OverlappingRight(tree.left, query)
               ELSE OverlappingRight(tree.right, query))

\* find_overlapping.
Overlapping(tree, query) ==
  IF tree = NoTree \/ tree.max < query.from THEN {}
  ELSE {i \in {tree.interval} : Overlaps(i, query)}
       \union Overlapping(tree.left, query)
       \union (IF query.until >= tree.interval.from THEN Overlapping(tree.right, query) ELSE {})

HasTimeWindow(tree, now) == Overlapping(tree, Window(now, now)) # {}
=============================================================================
