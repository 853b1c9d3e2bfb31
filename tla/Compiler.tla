------------------------------ MODULE Compiler ------------------------------
(***************************************************************************)
(* The BPMN compiler's graph pipeline (bpmn-compiler): a drawn process is   *)
(* normalised, its boundary events resolved, its graph validated and       *)
(* lowered to the wire form; the engine's loader validates it again        *)
(* (workflow.rs) and an instance of the loaded definition is run by tokens *)
(* and joins.  The canonical printer turns the wire form back into a       *)
(* process.                                                                *)
(*                                                                         *)
(* Ids are numbers, ordered like the ids of the code's ordered maps.  A    *)
(* node is [kind, scope, sla, in, out, table, requires, comp, handler,     *)
(* marks]; a boundary event is [on, cancel, undo, links].  Guards and      *)
(* their coverage are GatewayRouting's: here every branch may be taken.    *)
(***************************************************************************)
EXTENDS Integers, SequencesExt

CONSTANTS Document,    \* processes [nodes, bounds, sla, drawn], drawn its first flows
          MaxMerges,   \* bound on drawn merges that are not joining gateways
          NoNode,      \* no scope, no handler, no target
          NoType,      \* no declared type
          NoTable, NoWire, NoRun

VARIABLES doc,    \* the process being drawn
          flows,  \* its sequence flows, in document order
          wire,   \* what the compiler produced and the loader made of it
          run     \* an instance of the loaded definition

compilerVars == <<doc, flows, wire, run>>

CompilerInit ==
  /\ doc \in Document
  /\ flows = doc.drawn
  /\ wire = NoWire
  /\ run = NoRun

Gateways == {"xor", "par", "inc"}
Joining == {"par", "inc"}

-----------------------------------------------------------------------------
(* Graphs.  p is a parsed process [nodes, flows, bounds, sla, ok].          *)

Sorted(S) == IF S = {} THEN <<>> ELSE SelectSeq([i \in 1..Max(S) |-> i], LAMBDA i : i \in S)

Node(p) == DOMAIN p.nodes
Kind(p, n) == p.nodes[n].kind
OfKind(p, k) == {n \in Node(p) : Kind(p, n) = k}
ScopeOf(p, n) == p.nodes[n].scope
Child(p, s, k) == {n \in OfKind(p, k) : ScopeOf(p, n) = s}
OnPath(p) == {n \in Node(p) : ~p.nodes[n].handler}

Targets(fs, n) ==
  LET out == SelectSeq(fs, LAMBDA f : f.src = n)
  IN  [i \in DOMAIN out |-> out[i].dst]

Into(fs, n) == Len(SelectSeq(fs, LAMBDA f : f.dst = n))

Timed(p) == {b \in DOMAIN p.bounds : ~p.bounds[b].undo}

FlowEdges(p) == {<<f.src, f.dst>> : f \in Range(p.flows)}

BoundaryEdges(p) == {<<p.bounds[b].on, p.bounds[b].target>> : b \in Timed(p)}

(* A retained sub-process is entered at its start and left at its end.     *)
ScopeEdges(p) ==
  UNION {{<<s, n>> : n \in Child(p, s, "start")}
           \union {<<e, t>> : e \in Child(p, s, "end"), t \in Range(Targets(p.flows, s))} :
         s \in OfKind(p, "sub")}

RECURSIVE Traverse(_, _)
Traverse(from, edges) ==
  LET more == from \union {e[2] : e \in {x \in edges : x[1] \in from}}
  IN  IF more = from THEN from ELSE Traverse(more, edges)

Reversed(edges) == {<<e[2], e[1]>> : e \in edges}

-----------------------------------------------------------------------------
(* Normalisation: the deepest sub-processes first, each replaced by its    *)
(* contents unless something is attached to it.                            *)

RECURSIVE ScopeDepth(_, _)
ScopeDepth(p, n) ==
  IF ScopeOf(p, n) \notin Node(p) THEN 0 ELSE 1 + ScopeDepth(p, ScopeOf(p, n))

ValidateSubProcessShape(p, s) ==
  /\ Cardinality(Child(p, s, "start")) = 1
  /\ Cardinality(Child(p, s, "end")) = 1
  /\ Into(p.flows, s) = 1
  /\ Len(Targets(p.flows, s)) = 1
  /\ \A n \in Child(p, s, "start") : Len(Targets(p.flows, n)) = 1
  /\ \A n \in Child(p, s, "end") : Into(p.flows, n) > 0

ShouldRetainSubProcess(p, s) ==
  \/ p.nodes[s].requires
  \/ p.nodes[s].comp # NoNode
  \/ \E b \in DOMAIN p.bounds : p.bounds[b].on = s

Tighter(inner, outer) ==
  IF inner = 0 THEN outer ELSE IF outer = 0 \/ inner < outer THEN inner ELSE outer

Inline(p, s) ==
  LET sub == p.nodes[s]
      start == CHOOSE n \in Child(p, s, "start") : TRUE
      end == CHOOSE n \in Child(p, s, "end") : TRUE
      entry == Targets(p.flows, start)[1]
      exit == Targets(p.flows, s)[1]
      moved(t) == LET u == IF t = s THEN entry ELSE t IN IF u = end THEN exit ELSE u
      kept == SelectSeq(p.flows, LAMBDA f : f.src \notin {s, start})
      lifted(n) == [p.nodes[n] EXCEPT !.scope = IF @ = s THEN sub.scope ELSE @]
      nodes == [n \in Node(p) \ {s, start, end} |->
                  IF n = entry
                  THEN [lifted(n) EXCEPT !.marks = @ + sub.marks, !.sla = Tighter(@, sub.sla)]
                  ELSE lifted(n)]
  IN  [p EXCEPT !.nodes = nodes,
                !.flows = [i \in DOMAIN kept |-> [kept[i] EXCEPT !.dst = moved(@)]]]

NormalizeSubProcess(p, s) ==
  IF ~ValidateSubProcessShape(p, s) THEN [p EXCEPT !.ok = FALSE]
  ELSE IF ShouldRetainSubProcess(p, s) THEN p
  ELSE Inline(p, s)

NormalizeSubProcesses(p) ==
  FoldLeft(NormalizeSubProcess, p,
           SortSeq(Sorted(OfKind(p, "sub")), LAMBDA a, b : ScopeDepth(p, a) > ScopeDepth(p, b)))

(* A boundary event's only flow becomes its target.                        *)
ResolveBoundaryTargets(p) ==
  LET sound == {b \in Timed(p) : p.bounds[b].on \in Node(p) /\ Len(Targets(p.flows, b)) = 1}
  IN  [p EXCEPT !.ok = @ /\ sound = Timed(p),
                !.flows = SelectSeq(@, LAMBDA f : f.src \notin sound),
                !.bounds = [b \in DOMAIN @ |->
                              [target |-> IF b \in sound THEN Targets(p.flows, b)[1] ELSE NoNode]
                                @@ @[b]]]

(* A compensation boundary names exactly one node that is a handler.       *)
Handled(p, b) ==
  LET l == p.bounds[b].links
  IN  /\ p.bounds[b].on \in Node(p)
      /\ Len(l) = 1
      /\ l[1] \in Node(p)
      /\ p.nodes[l[1]].handler

ResolveCompensationHandlers(p) ==
  LET undo == DOMAIN p.bounds \ Timed(p)
      by(n) == {b \in undo : p.bounds[b].on = n /\ Handled(p, b)}
  IN  [p EXCEPT !.ok = @ /\ \A b \in undo : Handled(p, b),
                !.nodes = [n \in DOMAIN @ |->
                             IF by(n) = {} THEN @[n]
                             ELSE [@[n] EXCEPT !.requires = TRUE,
                                               !.comp = p.bounds[CHOOSE b \in by(n) : TRUE].links[1]]]]

-----------------------------------------------------------------------------
(* Validation of the graph.                                                *)

DegreesFit(p, n) ==
  LET out == Len(Targets(p.flows, n))
      in == Into(p.flows, n) + Cardinality({b \in Timed(p) : p.bounds[b].target = n})
  IN  IF p.nodes[n].handler THEN out = 0 /\ in = 0
      ELSE CASE Kind(p, n) = "start" -> out = 1 /\ in = 0
             [] Kind(p, n) = "end" -> out = 0 /\ in = 1
             [] Kind(p, n) = "xor" -> out >= 2 /\ in = 1
             [] Kind(p, n) \in Joining -> (in = 1 /\ out >= 2) \/ (in >= 2 /\ out = 1)
             [] OTHER -> out = 1 /\ in = 1

NodesAreSound(p) ==
  /\ \A f \in Range(p.flows) : f.src \in Node(p) /\ f.dst \in Node(p)
  /\ Cardinality(Child(p, NoNode, "start")) = 1
  /\ Child(p, NoNode, "end") # {}
  /\ \A n \in Node(p) :
       /\ DegreesFit(p, n)
       /\ p.nodes[n].handler \/ (p.nodes[n].requires => p.nodes[n].comp # NoNode)

AllReachable(p) ==
  LET edges == FlowEdges(p) \union BoundaryEdges(p) \union ScopeEdges(p)
  IN  /\ OnPath(p) \subseteq Traverse(Child(p, NoNode, "start"), edges)
      /\ OnPath(p) \subseteq Traverse(Child(p, NoNode, "end"), Reversed(edges))

(* The worklist of types: what a node receives from its flows, its own     *)
(* output instead when it declares one.  A decision forgets its inputs.    *)
Sends(p, n, received) ==
  IF p.nodes[n].out # NoType THEN {p.nodes[n].out}
  ELSE IF Kind(p, n) = "decision" THEN {} ELSE received[n]

RECURSIVE TypesAgree(_, _, _)
TypesAgree(p, pending, received) ==
  IF pending = <<>> THEN TRUE
  ELSE LET n == Head(pending)
           sent == Sends(p, n, received)
           next == Targets(p.flows, n)
           grown == SelectSeq(next, LAMBDA t : ~(sent \subseteq received[t]))
       IN  /\ p.nodes[n].in # NoType => received[n] \subseteq {p.nodes[n].in}
           /\ TypesAgree(p, Tail(pending) \o grown,
                         [t \in Node(p) |-> received[t] \union IF t \in Range(next) THEN sent ELSE {}])

ValidateDataFlowPaths(p) ==
  TypesAgree(p, Sorted(OnPath(p)), [n \in Node(p) |-> {}])

(* Kahn's order, without the nodes on or behind a cycle.                   *)
RECURSIVE Ordered(_, _, _)
Ordered(p, ready, order) ==
  IF ready = <<>> THEN order
  ELSE LET done == Append(order, Head(ready))
           free(t) == \A f \in Range(p.flows) : f.dst = t => f.src \in Range(done)
           next == {t \in Range(Targets(p.flows, Head(ready))) : free(t)}
       IN  Ordered(p, Tail(ready) \o Sorted(next), done)

TopologicalOrder(p) ==
  Ordered(p, Sorted({n \in Node(p) : Into(p.flows, n) = 0}), <<>>)

(* Breadth-first distances back from a join.                               *)
RECURSIVE DistancesFrom(_, _, _, _)
DistancesFrom(edges, level, d, known) ==
  LET new == {e[1] : e \in {x \in edges : x[2] \in level}} \ DOMAIN known
  IN  IF new = {} THEN known
      ELSE DistancesFrom(edges, new, d + 1, [n \in new |-> d + 1] @@ known)

DistanceToJoin(p, j) == DistancesFrom(FlowEdges(p), {j}, 0, j :> 0)

(* A changed GuaranteedToReach: some way to the join is enough.            *)
MayReach(p, j) == DOMAIN DistanceToJoin(p, j)

GuaranteedToReach(p, j) ==
  LET visit(sure, n) ==
        LET next == Range(Targets(p.flows, n))
        IN  IF n = j \/ (next # {} /\ next \subseteq sure) THEN sure \union {n} ELSE sure
  IN  FoldLeft(visit, {j}, Reverse(TopologicalOrder(p)))

Splits(p, k) == {n \in OfKind(p, k) : Len(Targets(p.flows, n)) >= 2}
Joins(p, k) == {n \in OfKind(p, k) : Into(p.flows, n) >= 2}

(* The nearest join of its kind that every branch of the split reaches.    *)
CandidateJoin(p, s) ==
  LET branches == Range(Targets(p.flows, s))
      common == {j \in Joins(p, Kind(p, s)) : branches \subseteq DOMAIN DistanceToJoin(p, j)}
      far(j) == Max({DistanceToJoin(p, j)[b] : b \in branches})
      nearest == {j \in common : \A k \in common : far(j) <= far(k)}
  IN  IF common = {} THEN NoNode ELSE Min(nearest)

(* The splits are visited in order; the first to claim a join keeps it.    *)
PairSplit(p, pairs, s) ==
  LET j == CandidateJoin(p, s)
  IN  IF /\ j # NoNode
         /\ Range(Targets(p.flows, s)) \subseteq GuaranteedToReach(p, j)
         /\ j \notin DOMAIN pairs
      THEN (s :> j) @@ (j :> s) @@ pairs
      ELSE pairs

GatewayPairs(p) ==
  FoldLeft(LAMBDA pairs, s : PairSplit(p, pairs, s), <<>>,
           Sorted(Splits(p, "par") \union Splits(p, "inc")))

ValidateGatewayStructure(p) ==
  /\ Len(TopologicalOrder(p)) = Cardinality(Node(p))
  /\ UNION {Splits(p, k) \union Joins(p, k) : k \in Joining} \subseteq DOMAIN GatewayPairs(p)

(* The longest path by declared milliseconds, over the flows only, from    *)
(* the first start event by id.                                            *)
LongestPaths(p) ==
  LET start == Min(OfKind(p, "start"))
      better(known, n, t) ==
        LET sum == known[n] + p.nodes[t].sla
        IN  IF t \notin DOMAIN known \/ sum > known[t] THEN (t :> sum) @@ known ELSE known
      visit(known, n) ==
        IF n \notin DOMAIN known THEN known
        ELSE FoldLeft(LAMBDA k, t : better(k, n, t), known, Targets(p.flows, n))
  IN  FoldLeft(visit, start :> p.nodes[start].sla, TopologicalOrder(p))

ValidateSlaPaths(p) ==
  LET longest == LongestPaths(p)
  IN  p.sla > 0 => \A e \in OfKind(p, "end") \intersect DOMAIN longest : longest[e] <= p.sla

-----------------------------------------------------------------------------
(* The compiler's phases.  A decision task's type contract is completed    *)
(* from its table, and the types are checked again with it.                *)

ValidateGraph(p) ==
  LET q == ResolveCompensationHandlers(p)
      sound == NodesAreSound(q)
  IN  [q EXCEPT !.ok = @ /\ sound
                        /\ (sound => /\ AllReachable(q)
                                     /\ ValidateDataFlowPaths(q)
                                     /\ ValidateGatewayStructure(q)
                                     /\ ValidateSlaPaths(q))]

ContractFits(node) ==
  /\ node.table # NoTable
  /\ node.in \in {NoType, node.table.in}
  /\ node.out \in {NoType, node.table.out}

EnrichDecisionContracts(p) ==
  LET decisions == OfKind(p, "decision")
  IN  [p EXCEPT !.ok = @ /\ \A n \in decisions : ContractFits(p.nodes[n]),
                !.nodes = [n \in DOMAIN @ |->
                             IF n \in decisions /\ @[n].table # NoTable
                             THEN [@[n] EXCEPT !.in = p.nodes[n].table.in, !.out = p.nodes[n].table.out] ELSE @[n]]]

Refused == [accepted |-> FALSE]

(* Compensation handlers are not lowered; a gateway without its pair       *)
(* cannot be.                                                              *)
(* The branches of a node, by the id of their target.                      *)
LowerFlows(p, n) == SortSeq(Targets(p.flows, n), <)

(* A node with its own contract, milliseconds, handler and owning scope.   *)
LowerNode(p, n) == [p.nodes[n] EXCEPT !.requires = FALSE]

Unpaired(p, pairs) == \E k \in Joining : ~(OfKind(p, k) \subseteq DOMAIN pairs)

Lower(p) ==
  LET pairs == GatewayPairs(p)
  IN  IF Unpaired(p, pairs) THEN Refused
      ELSE [accepted |-> TRUE, loaded |-> FALSE, pairs |-> pairs,
            nodes |-> [n \in OnPath(p) |-> LowerNode(p, n)],
            flows |-> [n \in OnPath(p) |-> LowerFlows(p, n)],
            bounds |-> [b \in Timed(p) |-> p.bounds[b]]]

Compile(d, fs) ==
  LET parsed == [nodes |-> d.nodes, flows |-> fs, bounds |-> d.bounds, sla |-> d.sla, ok |-> TRUE]
      graph == ValidateGraph(ResolveBoundaryTargets(NormalizeSubProcesses(parsed)))
      typed == EnrichDecisionContracts(graph)
  IN  IF graph.ok /\ typed.ok /\ ValidateDataFlowPaths(typed) THEN Lower(typed) ELSE Refused

-----------------------------------------------------------------------------
(* The engine's own validation of a loaded definition.                     *)

EngineTargets(w, n) ==
  Range(w.flows[n])
    \union {c \in DOMAIN w.nodes : w.nodes[n].kind = "sub" /\ w.nodes[c].scope = n
                                    /\ w.nodes[c].kind = "start"}

EngineEdges(w) ==
  UNION {{<<n, t>> : t \in EngineTargets(w, n)} : n \in DOMAIN w.nodes}
    \union {<<w.bounds[b].on, w.bounds[b].target>> : b \in DOMAIN w.bounds}

RootStart(w) ==
  CHOOSE n \in DOMAIN w.nodes : w.nodes[n].kind = "start" /\ w.nodes[n].scope = NoNode

WireKind(w, k) == {n \in DOMAIN w.nodes : w.nodes[n].kind = k}

(* A gateway's branches lead to different nodes.                           *)
TargetsDiffer(w, n) == Len(w.flows[n]) >= 2 => IsInjective(w.flows[n])

(* A split and its join name each other.                                   *)
ReciprocalPair(w, n) ==
  w.nodes[n].kind \in Joining => w.pairs[n] \in DOMAIN w.nodes /\ w.pairs[w.pairs[n]] = n

(* A join has a node to go on to.                                          *)
GatewayShape(w, n) == w.nodes[n].kind \in Joining => w.flows[n] # <<>>

(* A node is owned by the process or by another node that is a sub-process. *)
OwnerIsScope(w, n) == w.nodes[n].scope \in (WireKind(w, "sub") \ {n}) \union {NoNode}

(* No property is given twice.                                             *)
PropertiesDiffer(w, n) == w.nodes[n].marks <= 1

Accepts(w) ==
  /\ \A n \in DOMAIN w.nodes : /\ w.nodes[n].kind \in Gateways => TargetsDiffer(w, n)
                               /\ GatewayShape(w, n)
                               /\ ReciprocalPair(w, n)
                               /\ OwnerIsScope(w, n)
                               /\ PropertiesDiffer(w, n)
  /\ \A n \in DOMAIN w.nodes :
       \A t \in Range(w.flows[n]) : t \in DOMAIN w.nodes \ WireKind(w, "start")
  /\ \A b \in DOMAIN w.bounds : w.bounds[b].target \in DOMAIN w.nodes
  /\ Traverse({RootStart(w)}, EngineEdges(w)) = DOMAIN w.nodes

-----------------------------------------------------------------------------
(* An instance: active task tokens, pending joins, entered scopes, armed   *)
(* boundary events.  pending holds nodes to visit with the scope they are  *)
(* visited in; pick fixes which branches a gateway selects.                *)

FreshRun == [status |-> "running", tokens |-> <<>>, joins |-> <<>>, scopes |-> {}, armed |-> {}]

Failed(r) == [r EXCEPT !.status = "refused"]

Outstanding(r) == r.tokens # <<>> \/ r.joins # <<>> \/ r.scopes # {} \/ r.armed # {}

WireOn(w, n) == {b \in DOMAIN w.bounds : w.bounds[b].on = n}

Activate(w, r, n) ==
  IF WireOn(w, n) \intersect r.armed # {} THEN Failed(r)
  ELSE [r EXCEPT !.tokens = (n :> (1 + IF n \in DOMAIN @ THEN @[n] ELSE 0)) @@ @,
                 !.armed = @ \union WireOn(w, n)]

OpenJoin(w, r, n, count) ==
  LET j == w.pairs[n]
  IN  IF j \in DOMAIN r.joins THEN Failed(r)
      ELSE [r EXCEPT !.joins = (j :> [expected |-> count, arrived |-> 0]) @@ @]

Arrive(r, j) ==
  IF j \notin DOMAIN r.joins THEN Failed(r)
  ELSE IF r.joins[j].arrived + 1 = r.joins[j].expected
       THEN [r EXCEPT !.joins = [k \in DOMAIN @ \ {j} |-> @[k]]]
       ELSE [r EXCEPT !.joins[j].arrived = @ + 1]

EnterScope(w, r, s) ==
  IF s \in r.scopes \/ WireOn(w, s) \intersect r.armed # {} THEN Failed(r)
  ELSE [r EXCEPT !.scopes = @ \union {s}, !.armed = @ \union WireOn(w, s)]

(* A branch reaches an end event: of a scope, of a branch or of the run.   *)
ReachEnd(w, r, n, scope) ==
  LET s == w.nodes[n].scope
  IN  IF s # NoNode
      THEN IF scope = s /\ s \in r.scopes
           THEN [r EXCEPT !.scopes = @ \ {s}, !.armed = @ \ WireOn(w, s)] ELSE Failed(r)
      ELSE IF Outstanding(r) THEN r ELSE [r EXCEPT !.status = "completed"]

At(nodes, scope) == [i \in DOMAIN nodes |-> [node |-> nodes[i], scope |-> scope]]

(* Visits one node: [run, next].                                           *)
Visit(w, r, n, scope, pick) ==
  LET next == w.flows[n]
      chosen == SelectSeq(next, LAMBDA t : t \in pick[n])
      join == Arrive(r, n)
      go(q, nodes) == [run |-> q, next |-> At(nodes, scope)]
  IN  CASE w.nodes[n].kind \in {"task", "user"} -> go(Activate(w, r, n), <<>>)
        [] w.nodes[n].kind \in {"start", "decision"} -> go(r, next)
        [] w.nodes[n].kind = "xor" -> go(r, chosen)
        [] w.nodes[n].kind \in Joining /\ Len(next) >= 2 ->
             go(OpenJoin(w, r, n, Len(chosen)), chosen)
        [] w.nodes[n].kind \in Joining /\ Len(next) = 1 ->
             go(join, IF n \in DOMAIN join.joins THEN <<>> ELSE next)
        [] w.nodes[n].kind = "sub" ->
             [run |-> EnterScope(w, r, n),
              next |-> At(Sorted(EngineTargets(w, n) \ Range(next)), n)]
        [] w.nodes[n].kind = "end" ->
             LET s == w.nodes[n].scope
             IN  [run |-> ReachEnd(w, r, n, scope),
                  next |-> IF s = NoNode THEN <<>> ELSE At(w.flows[s], w.nodes[s].scope)]

RECURSIVE Advance(_, _, _, _)
Advance(w, r, pending, pick) ==
  IF pending = <<>> \/ r.status = "refused" THEN r
  ELSE LET top == Last(pending)
           v == Visit(w, r, top.node, top.scope, pick)
       IN  Advance(w, v.run, Front(pending) \o v.next, pick)

(* An exclusive gateway selects one branch, a parallel one all of them, an *)
(* inclusive one some.                                                     *)
Pick(w) ==
  LET splits == {n \in DOMAIN w.nodes : w.nodes[n].kind \in Gateways}
      may(n) == CASE w.nodes[n].kind = "xor" -> {{t} : t \in Range(w.flows[n])}
                  [] w.nodes[n].kind = "par" -> {Range(w.flows[n])}
                  [] OTHER -> SUBSET Range(w.flows[n]) \ {{}}
  IN  {f \in [splits -> UNION {may(n) : n \in splits}] : \A n \in splits : f[n] \in may(n)}

Finish(w, r, n) ==
  [r EXCEPT !.tokens = IF @[n] = 1 THEN [k \in DOMAIN @ \ {n} |-> @[k]] ELSE [@ EXCEPT ![n] = @ - 1],
            !.armed = @ \ WireOn(w, n)]

(* The run after a task is completed; refused when a scope is not entered, *)
(* a join is opened twice or a token arrives at a join nobody opened.      *)
Completed(w, r, n, pick) ==
  LET s == w.nodes[n].scope
  IN  IF s # NoNode /\ s \notin r.scopes THEN Failed(r)
      ELSE Advance(w, Finish(w, r, n), At(w.flows[n], s), pick)

(* An interrupting boundary event cancels its task's tokens.               *)
Fired(w, r, b, pick) ==
  LET bound == w.bounds[b]
      after == IF bound.cancel
               THEN [r EXCEPT !.tokens = [k \in DOMAIN @ \ {bound.on} |-> @[k]],
                              !.armed = @ \ WireOn(w, bound.on)]
               ELSE [r EXCEPT !.armed = @ \ {b}]
      s == w.nodes[bound.on].scope
  IN  IF s # NoNode /\ s \notin r.scopes THEN Failed(r)
      ELSE Advance(w, after, At(<<bound.target>>, s), pick)

-----------------------------------------------------------------------------
(* The canonical printer.  User, script and call activities and            *)
(* sub-processes are written without their contract, milliseconds and      *)
(* compensation handler; the process' own milliseconds are not written.    *)

PrintNode(node) ==
  IF node.kind \in {"user", "sub"}
  THEN [node EXCEPT !.in = NoType, !.out = NoType, !.sla = 0, !.comp = NoNode]
  ELSE [node EXCEPT !.requires = (node.comp # NoNode)]


PrintBoundary(bound) == [on |-> bound.on, cancel |-> bound.cancel, undo |-> FALSE, links |-> <<>>]

PrintFlows(w) ==
  LET leaving(n) == [i \in DOMAIN w.flows[n] |-> [src |-> n, dst |-> w.flows[n][i]]]
      nodes == Sorted(DOMAIN w.nodes)
      bounds == Sorted(DOMAIN w.bounds)
  IN  FlattenSeq([i \in DOMAIN nodes |-> leaving(nodes[i])])
        \o [i \in DOMAIN bounds |-> [src |-> bounds[i], dst |-> w.bounds[bounds[i]].target]]

PrintCanonical(w) ==
  [nodes |-> [n \in DOMAIN w.nodes |-> PrintNode(w.nodes[n])],
   bounds |-> [b \in DOMAIN w.bounds |-> PrintBoundary(w.bounds[b])],
   sla |-> 0, drawn |-> <<>>]

-----------------------------------------------------------------------------
(* Drawing, compiling, loading and running.                                *)

Sources == {n \in DOMAIN doc.nodes : doc.nodes[n].kind # "end" /\ ~doc.nodes[n].handler}
             \union {b \in DOMAIN doc.bounds : ~doc.bounds[b].undo}

Undrawn == {n \in Sources : flows = <<>> \/ n > Last(flows).src}

Branches(n) ==
  LET to == {t \in DOMAIN doc.nodes : t # n /\ doc.nodes[t].kind # "start" /\ ~doc.nodes[t].handler}
      split == n \in DOMAIN doc.nodes /\ doc.nodes[n].kind \in Gateways
  IN  {<<t>> : t \in to} \union IF split THEN {<<t, u>> : t \in to, u \in to} ELSE {}

Merges(fs) ==
  Cardinality({n \in DOMAIN doc.nodes : doc.nodes[n].kind \notin Joining /\ Into(fs, n) > 1})

(* The flows leaving the next node or boundary event are drawn.            *)
Draw ==
  /\ wire = NoWire
  /\ Undrawn # {}
  /\ \E to \in Branches(Min(Undrawn)) :
       LET fs == flows \o [i \in DOMAIN to |-> [src |-> Min(Undrawn), dst |-> to[i]]]
       IN  /\ \A i \in 1..Len(to) - 1 : to[i] <= to[i + 1]
           /\ Merges(fs) <= MaxMerges
           /\ flows' = fs
  /\ UNCHANGED <<doc, wire, run>>

CompileDrawing ==
  /\ wire = NoWire
  /\ Undrawn = {}
  /\ wire' = Compile(doc, flows)
  /\ UNCHANGED <<doc, flows, run>>

LoadDefinition ==
  /\ wire # NoWire
  /\ wire.accepted
  /\ ~wire.loaded
  /\ Accepts(wire)
  /\ wire' = [wire EXCEPT !.loaded = TRUE]
  /\ UNCHANGED <<doc, flows, run>>

Loaded == wire # NoWire /\ wire.accepted /\ wire.loaded

StartRun ==
  /\ Loaded
  /\ run = NoRun
  /\ \E pick \in Pick(wire) :
       LET r == Advance(wire, FreshRun, At(wire.flows[RootStart(wire)], NoNode), pick)
       IN  r.status # "refused" /\ run' = r
  /\ UNCHANGED <<doc, flows, wire>>

Running == Loaded /\ run # NoRun /\ run.status = "running"

CompleteTask ==
  /\ Running
  /\ \E n \in DOMAIN run.tokens, pick \in Pick(wire) :
       LET r == Completed(wire, run, n, pick)
       IN  r.status # "refused" /\ run' = r
  /\ UNCHANGED <<doc, flows, wire>>

FireBoundary ==
  /\ Running
  /\ \E b \in run.armed, pick \in Pick(wire) :
       LET r == Fired(wire, run, b, pick)
       IN  /\ wire.nodes[wire.bounds[b].on].kind # "sub"
           /\ r.status # "refused"
           /\ run' = r
  /\ UNCHANGED <<doc, flows, wire>>

CompilerNext == Draw \/ CompileDrawing \/ LoadDefinition \/ StartRun \/ CompleteTask \/ FireBoundary

CompilerSpec == CompilerInit /\ [][CompilerNext]_compilerVars

-----------------------------------------------------------------------------
(* Properties.                                                             *)

StaysInScope(w) ==
  \A n \in DOMAIN w.nodes : \A t \in Range(w.flows[n]) : w.nodes[t].scope = w.nodes[n].scope

CanStart == \E pick \in Pick(wire) :
  Advance(wire, FreshRun, At(wire.flows[RootStart(wire)], NoNode), pick).status # "refused"

CanContinue == \E n \in DOMAIN run.tokens, pick \in Pick(wire) :
  Completed(wire, run, n, pick).status # "refused"

(* Structural soundness: an instance of an accepted and loaded model is    *)
(* never stuck.  While it runs, completing one of its active tasks is      *)
(* accepted, so every opened join closes and the end is reached.  Models   *)
(* with boundary paths and flows across sub-processes, which the gateway   *)
(* check does not follow, are left out.                                    *)
AcceptedModelsFinish ==
  (Loaded /\ DOMAIN wire.bounds = {} /\ StaysInScope(wire)) =>
     IF run = NoRun THEN CanStart ELSE run.status = "completed" \/ CanContinue

(* The same, with boundary events and without the scope condition: what    *)
(* the design says of every accepted model.                                *)
EveryAcceptedModelFinishes ==
  Loaded => (run = NoRun \/ run.status = "completed" \/ CanContinue)

(* Every accepted model is one the engine loads.                           *)
AcceptedModelsLoad == (wire # NoWire /\ wire.accepted) => wire.loaded \/ Accepts(wire)

RECURSIVE PathsFrom(_, _)
PathsFrom(w, path) ==
  LET n == Last(path)
  IN  IF w.flows[n] = <<>> THEN {path}
      ELSE UNION {PathsFrom(w, Append(path, t)) : t \in Range(w.flows[n])}

LastType(w, path, i) ==
  LET writers == {k \in 1..i - 1 : \/ w.nodes[path[k]].out # NoType
                                   \/ w.nodes[path[k]].kind = "decision"}
  IN  IF writers = {} THEN NoType ELSE w.nodes[path[Max(writers)]].out

(* The worklist and the longest-path pass find what walking every path     *)
(* would: on each path of an accepted model without retained sub-processes *)
(* the declared milliseconds sum to at most the process', and every node   *)
(* receives the type it declares from the last node that wrote one.        *)
EveryPathKeepsItsContracts ==
  (Loaded /\ \A n \in DOMAIN wire.nodes : wire.nodes[n].kind # "sub") =>
    \A path \in PathsFrom(wire, <<RootStart(wire)>>) :
      /\ doc.sla > 0 =>
           FoldLeft(LAMBDA sum, n : sum + wire.nodes[n].sla, 0, path) <= doc.sla
      /\ \A i \in DOMAIN path :
           wire.nodes[path[i]].in # NoType =>
             LastType(wire, path, i) \in {NoType, wire.nodes[path[i]].in}

RoundTrip == Compile(PrintCanonical(wire), PrintFlows(wire)) = [wire EXCEPT !.loaded = FALSE]

(* Printing an accepted model and compiling the print gives the same wire  *)
(* form, when no contract sits on a node the printer writes bare.          *)
PrintedModelCompilesBack ==
  (wire # NoWire /\ wire.accepted
     /\ \A n \in DOMAIN wire.nodes :
          wire.nodes[n] = [PrintNode(wire.nodes[n]) EXCEPT !.requires = FALSE]) => RoundTrip

(* The same of every accepted model, as the requirements state it.         *)
EveryPrintCompilesBack == (wire # NoWire /\ wire.accepted) => RoundTrip
=============================================================================
