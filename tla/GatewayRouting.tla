--------------------------- MODULE GatewayRouting ---------------------------
(***************************************************************************)
(* From a gateway or a decision table in a model to the branch a running   *)
(* instance takes: the compiler's coverage analysis (compiler.rs), the     *)
(* loader's and the engine's own validation (wir_loader.rs, workflow.rs),  *)
(* the engine's routing at run time and the routing of the generated Rust  *)
(* source (codegen.rs).  MinInt..MaxInt stands for the 64-bit integers.    *)
(*                                                                         *)
(* A gateway is [kind, branches, enum], a branch [target, condition,       *)
(* default] with the condition a token sequence, <<>> when it has none.    *)
(* A decision table is [kind, policy, inputs, outputs, rules]; an input is *)
(* [var, type], a rule [id, tests, values], a test [test, lo, hi, lit].     *)
(***************************************************************************)
EXTENDS GuardExpressions, FiniteSets, SequencesExt

CONSTANTS Element,        \* gateways without branches, tables without rules
          Branch,         \* the branches gateways are drawn with
          Rule,           \* the rules a table is filled with
          MaxBranches,    \* bound on the branches or rules of an element
          Variables,      \* the variables of an instance
          Value,          \* the values a variable may hold, NoValue included
          Phrase,         \* the token sequences guards are written with
          MaxPhrases,     \* bound on the length of a guard
          MinInt, MaxInt, \* the width of an integer
          OtherString,    \* the rank of "<bpmp-symbolic-other>"
          MaxSymbolicAssignments,
          NoSource

VARIABLES text,       \* a guard being written, as phrases
          source,     \* the element being drawn, then compiled
          wire,       \* its compiled form: [accepted, coverage]
          loaded,     \* the engine accepted the compiled form
          routed      \* the last answer of the engine and of the generated code

routingVars == <<text, source, wire, loaded, routed>>

NoRoute == [variables |-> [v \in Variables |-> NoValue], engine |-> <<"none">>,
            generated |-> <<"none">>]
NoWire == [accepted |-> FALSE, coverage |-> "none"]

RoutingInit ==
  /\ text = <<>>
  /\ source \in Element \union {NoSource}
  /\ wire = NoWire
  /\ loaded = FALSE
  /\ routed = NoRoute

-----------------------------------------------------------------------------
(* Integer intervals.  An unbounded end is one past the width.             *)

NoLower == MinInt - 1
NoUpper == MaxInt + 1
Interval(lo, hi) == [lo |-> lo, hi |-> hi]

Clamp(lo) == IF lo = NoLower THEN MinInt ELSE lo

(* A value below the smallest or above the largest integer has no interval *)
(* (checked_sub and checked_add).                                          *)
IntegerGuardIntervals(op, v) ==
  LET below(hi) == IF hi < MinInt THEN <<>> ELSE <<Interval(NoLower, hi)>>
      above(lo) == IF lo > MaxInt THEN <<>> ELSE <<Interval(lo, NoUpper)>>
  IN  CASE op = "==" -> <<Interval(v, v)>>
        [] op = "!=" -> below(v - 1) \o above(v + 1)
        [] op = "<"  -> below(v - 1)
        [] op = "<=" -> below(v)
        [] op = ">"  -> above(v + 1)
        [] op = ">=" -> above(v)

(* Sorted by lower end, then by upper end with the unbounded one first.    *)
IntervalBefore(a, b) ==
  LET key(i) == IF i.hi = NoUpper THEN NoLower ELSE i.hi
  IN  \/ Clamp(a.lo) < Clamp(b.lo)
      \/ Clamp(a.lo) = Clamp(b.lo) /\ key(a) < key(b)

SortIntervals(ivs) == SortSeq(ivs, IntervalBefore)

(* The exclusive analysis: every interval starts where the last one ended. *)
(* It is done at the first interval that reaches the top of the domain.    *)
RECURSIVE DisjointFrom(_, _, _)

(* An analysis that only asks that no value is covered twice.              *)
DisjointWithGaps(ivs, i, expected) ==
  IF i > Len(ivs) THEN FALSE
  ELSE /\ Clamp(ivs[i].lo) >= expected
       /\ ivs[i].lo # NoLower /\ ivs[i].hi # NoUpper => ivs[i].lo <= ivs[i].hi
       /\ \/ ivs[i].hi \in {MaxInt, NoUpper}
          \/ DisjointFrom(ivs, i + 1, ivs[i].hi + 1)

DisjointFrom(ivs, i, expected) ==
  IF i > Len(ivs) THEN FALSE
  ELSE /\ Clamp(ivs[i].lo) = expected
       /\ ivs[i].lo # NoLower /\ ivs[i].hi # NoUpper => ivs[i].lo <= ivs[i].hi
       /\ \/ ivs[i].hi \in {MaxInt, NoUpper}
          \/ DisjointFrom(ivs, i + 1, ivs[i].hi + 1)

ValidateDisjointIntegerCover(ivs) == DisjointFrom(SortIntervals(ivs), 1, MinInt)

(* The inclusive analysis merges intervals that overlap or touch; one      *)
(* interval, unbounded at both ends, must remain.                          *)
RECURSIVE MergedFrom(_, _, _)
MergedFrom(ivs, i, last) ==
  IF i > Len(ivs) THEN last = Interval(NoLower, NoUpper)
  ELSE /\ last.hi \in {MaxInt, NoUpper} \/ Clamp(ivs[i].lo) <= last.hi + 1
       /\ MergedFrom(ivs, i + 1,
            Interval(last.lo, IF last.hi > ivs[i].hi THEN last.hi ELSE ivs[i].hi))

MergeAndValidateIntegerCover(ivs) ==
  LET sorted == SortIntervals(ivs)
  IN  ivs # <<>> /\ MergedFrom(sorted, 2, sorted[1])

-----------------------------------------------------------------------------
(* Coverage of one variable.  `guards' is a sequence of comparisons.       *)

NoRepeats(seq) == \A i, j \in DOMAIN seq : seq[i] = seq[j] => i = j

AllOfType(guards, type) == \A i \in DOMAIN guards : guards[i].lit.type = type

BooleanCovered(guards) ==
  [i \in DOMAIN guards |-> IF guards[i].op = "==" THEN guards[i].lit.v
                                                  ELSE 1 - guards[i].lit.v]

BooleanCoverage(guards, overlap) ==
  /\ AllOfType(guards, "bool")
  /\ \A i \in DOMAIN guards : guards[i].op \in {"==", "!="}
  /\ overlap \/ NoRepeats(BooleanCovered(guards))
  /\ Range(BooleanCovered(guards)) = {0, 1}

EnumCoverage(guards, enum, overlap) ==
  LET covered == [i \in DOMAIN guards |-> guards[i].lit.v]
  IN  /\ enum # <<>> /\ NoRepeats(enum)
      /\ AllOfType(guards, "str")
      /\ \A i \in DOMAIN guards : guards[i].op = "=="
      /\ overlap \/ NoRepeats(covered)
      /\ Range(covered) = Range(enum)

IntervalsOf(guards) ==
  FlattenSeq([i \in DOMAIN guards |->
                IntegerGuardIntervals(guards[i].op, guards[i].lit.v)])

IntegerCoverage(guards, overlap) ==
  /\ AllOfType(guards, "int")
  /\ IF overlap THEN MergeAndValidateIntegerCover(IntervalsOf(guards))
                ELSE ValidateDisjointIntegerCover(IntervalsOf(guards))

-----------------------------------------------------------------------------
(* Coverage of compound guards: every combination of representative values *)
(* of the variables they mention.                                          *)

RECURSIVE ComparisonsIn(_)
ComparisonsIn(e) ==
  CASE e.k = "cmp"   -> {e}
    [] e.k = "const" -> {}
    [] OTHER         -> UNION {ComparisonsIn(e.args[i]) : i \in DOMAIN e.args}

(* The neighbours of every constant, and both ends of the domain.          *)
IntegerRepresentatives(constants) ==
  {MinInt, MaxInt}
    \union {v \in UNION {{c - 1, c, c + 1} : c \in constants} : v \in MinInt..MaxInt}


SymbolicRepresentatives(literals) ==
  LET constants == {l.v : l \in literals}
  IN  CASE \A l \in literals : l.type = "bool" -> {Literal("bool", b) : b \in {0, 1}}
        [] \A l \in literals : l.type = "int" ->
             {Literal("int", v) : v \in IntegerRepresentatives(constants)}
        [] OTHER -> {Literal("str", v) : v \in constants \union {OtherString}}

LiteralsOf(comparisons, v) == {c.lit : c \in {d \in comparisons : d.var = v}}

(* visit_symbolic_assignments: every variable takes each representative.    *)
SymbolicAssignments(comparisons) ==
  LET mentioned == {c.var : c \in comparisons}
      values(v) == SymbolicRepresentatives(LiteralsOf(comparisons, v))
  IN  {a \in [mentioned -> UNION {values(v) : v \in mentioned}] :
         \A v \in mentioned : a[v] \in values(v)}

(* evaluate_symbolic_expression, of every branch.                           *)
MatchedBy(expressions, a) == {i \in DOMAIN expressions : Evaluate(expressions[i], a) = "true"}

SymbolicCoverage(expressions, overlap) ==
  LET comparisons == UNION {ComparisonsIn(expressions[i]) : i \in DOMAIN expressions}
      assignments == SymbolicAssignments(comparisons)
  IN  /\ \A c, d \in comparisons : c.var = d.var => c.lit.type = d.lit.type
      /\ Cardinality(assignments) <= MaxSymbolicAssignments
      /\ \A a \in assignments : LET matched == MatchedBy(expressions, a) IN
                                /\ matched # {}
                                /\ overlap \/ Cardinality(matched) = 1

-----------------------------------------------------------------------------
(* The compiler.                                                           *)

Parses(g) == \A i \in DOMAIN g.branches :
               \/ g.branches[i].default /\ g.branches[i].condition = <<>>
               \/ ParseGuard(g.branches[i].condition).ok

Expressions(g) == [i \in DOMAIN g.branches |-> ParseGuard(g.branches[i].condition).e]

AllComparisons(es) == \A i \in DOMAIN es : es[i].k = "cmp"

(* The proof the analysis writes, "none" when it refuses.                  *)
AnalyzeGatewayCoverage(g) ==
  LET es == Expressions(g)
      overlap == g.kind = "inclusive"
      same == \A i \in DOMAIN es : es[i].var = es[1].var
  IN  CASE es = <<>> \/ ~Parses(g) -> "none"
        [] es # <<>> /\ Parses(g) /\ ~AllComparisons(es) ->
             IF SymbolicCoverage(es, overlap) THEN "symbolic" ELSE "none"
        [] OTHER ->
             CASE same /\ BooleanCoverage(es, overlap) -> "boolean"
               [] same /\ EnumCoverage(es, g.enum, overlap) -> "enum"
               [] same /\ IntegerCoverage(es, overlap) -> "integer"
               [] OTHER -> "none"

Defaults(g) == {i \in DOMAIN g.branches : g.branches[i].default}

CompileGateway(g) ==
  LET coverage == IF Defaults(g) = {} THEN AnalyzeGatewayCoverage(g) ELSE "none"
  IN  [accepted |-> /\ Len(g.branches) >= 2
                    /\ Cardinality(Defaults(g)) <= 1
                    /\ Parses(g)
                    /\ Defaults(g) = {} => coverage # "none",
       coverage |-> coverage]

(* Only the shape of a table is checked, not the types of its values.      *)
CompileTable(t) ==
  [accepted |-> /\ t.inputs # <<>> /\ t.outputs # <<>>
                /\ \A i \in DOMAIN t.rules :
                     /\ Len(t.rules[i].tests) = Len(t.inputs)
                     /\ Len(t.rules[i].values) = Len(t.outputs),
   coverage |-> "none"]

(* Sealing puts the parts of the signed artifact in a canonical order, the *)
(* rules of a table by their ids; the generated code is written before it. *)
Seal(element) ==
  IF element.kind = "table"
    THEN [element EXCEPT !.rules = SortSeq(@, LAMBDA a, b : a.id < b.id)]
    ELSE [element EXCEPT !.branches = SortSeq(@, LAMBDA a, b : a.target < b.target)]

-----------------------------------------------------------------------------
(* The engine's loader and definition checks.                              *)

(* A default branch with a guard is refused, and so are two branches to    *)
(* one target; an exclusive proof is computed again from the guards, an    *)
(* inclusive one only has to be there.                                     *)
LoadGateway(g, coverage) ==
  LET es == Expressions(g)
  IN  /\ \A i \in Defaults(g) : g.branches[i].condition = <<>>
      /\ NoRepeats([i \in DOMAIN g.branches |-> g.branches[i].target])
      /\ CASE g.kind = "inclusive" \/ Defaults(g) # {} \/ coverage = "symbolic" -> TRUE
           [] g.kind = "exclusive" /\ coverage = "boolean" -> BooleanCoverage(es, FALSE)
           [] g.kind = "exclusive" /\ coverage = "enum" -> EnumCoverage(es, g.enum, FALSE)
           [] OTHER -> IntegerCoverage(es, FALSE)

LoadTable(t) ==
  /\ t.policy \in {"unique", "first"}
  /\ \A i \in DOMAIN t.rules : \A j \in DOMAIN t.outputs :
       t.rules[i].values[j].type = t.outputs[j].type

-----------------------------------------------------------------------------
(* Routing in the engine: the answers of the guards in order, up to the    *)
(* first error or, at an exclusive gateway, the second match.              *)

Default(g) == IF Defaults(g) = {} THEN <<"no_branch">>
              ELSE <<"ok", g.branches[CHOOSE i \in Defaults(g) : TRUE].target>>

RECURSIVE SelectFrom(_, _, _, _)
SelectFrom(g, i, selected, vs) ==
  IF i > Len(g.branches)
    THEN IF selected = <<>> THEN Default(g) ELSE <<"ok">> \o selected
  ELSE LET b == g.branches[i]
           answer == IF b.default THEN "false"
                     ELSE Evaluate(ParseGuard(b.condition).e, vs)
       IN  CASE answer = "false" -> SelectFrom(g, i + 1, selected, vs)
             [] answer = "true" ->
                  IF g.kind = "exclusive" /\ selected # <<>> THEN <<"ambiguous">>
                  ELSE SelectFrom(g, i + 1, Append(selected, b.target), vs)
             [] OTHER -> <<answer>>

SelectTransitions(g, vs) == SelectFrom(g, 1, <<>>, vs)

(* The generated enabled_targets gathers every match first and only then   *)
(* asks whether an exclusive gateway has more than one.                    *)
RECURSIVE EnabledFrom(_, _, _, _)
EnabledFrom(g, i, selected, vs) ==
  IF i > Len(g.branches) THEN
    CASE selected = <<>> -> Default(g)
      [] g.kind = "exclusive" /\ Len(selected) > 1 -> <<"ambiguous">>
      [] OTHER -> <<"ok">> \o selected
  ELSE LET b == g.branches[i]
           answer == IF b.default THEN "false"
                     ELSE Evaluate(ParseGuard(b.condition).e, vs)
       IN  CASE answer = "false" -> EnabledFrom(g, i + 1, selected, vs)
             [] answer = "true" -> EnabledFrom(g, i + 1, Append(selected, b.target), vs)
             [] OTHER -> <<answer>>


EnabledTargets(g, vs) == EnabledFrom(g, 1, <<>>, vs)

-----------------------------------------------------------------------------
(* Decision tables.  A unary test is any value, equality or an interval.   *)

TestMatches(test, value) ==
  CASE test.test = "any" -> TRUE
    [] test.test = "equal" -> value = test.lit
    [] test.test = "interval" ->
         /\ value.type = "int"
         /\ test.lo # NoLower => value.v >= test.lo
         /\ test.hi # NoUpper => value.v <= test.hi

(* The engine looks at every input, whatever the test asks of it.          *)
RECURSIVE RuleMatches(_, _, _, _)
RuleMatches(t, r, j, vs) ==
  IF j > Len(t.inputs) THEN "true"
  ELSE LET value == vs[t.inputs[j].var]
       IN  CASE value.type = "none" -> "missing"
             [] value.type \notin {"none", t.inputs[j].type} -> "mismatch"
             [] OTHER -> IF TestMatches(r.tests[j], value)
                           THEN RuleMatches(t, r, j + 1, vs) ELSE "false"

(* The generated condition looks at an input only through its test.        *)
RECURSIVE GeneratedMatches(_, _, _, _)
GeneratedMatches(t, r, j, vs) ==
  IF j > Len(t.inputs) THEN "true"
  ELSE LET value == vs[t.inputs[j].var]
           test == r.tests[j]
           expected == IF test.test = "interval" THEN "int" ELSE test.lit.type
       IN  CASE test.test = "any" -> GeneratedMatches(t, r, j + 1, vs)
             [] test.test # "any" /\ value.type = "none" -> "missing"
             [] test.test # "any" /\ value.type \notin {"none", expected} -> "mismatch"
             [] OTHER -> IF TestMatches(test, value)
                           THEN GeneratedMatches(t, r, j + 1, vs) ELSE "false"

(* FIRST stops at the first match, UNIQUE refuses a second one.            *)
RECURSIVE DecideFrom(_, _, _, _, _)
DecideFrom(t, generated, i, selected, vs) ==
  IF i > Len(t.rules)
    THEN IF selected = <<>> THEN <<"no_rule">> ELSE <<"ok">> \o selected
  ELSE LET answer == IF generated THEN GeneratedMatches(t, t.rules[i], 1, vs)
                                  ELSE RuleMatches(t, t.rules[i], 1, vs)
       IN  CASE answer = "false" -> DecideFrom(t, generated, i + 1, selected, vs)
             [] answer = "true" /\ t.policy = "first" -> <<"ok">> \o t.rules[i].values
             [] answer = "true" /\ t.policy = "unique" ->
                  IF selected # <<>> THEN <<"ambiguous">>
                  ELSE DecideFrom(t, generated, i + 1, t.rules[i].values, vs)
             [] OTHER -> <<answer>>

EvaluateDecisionTable(t, vs) == DecideFrom(t, FALSE, 1, <<>>, vs)
GeneratedDecision(t, vs) == DecideFrom(t, TRUE, 1, <<>>, vs)

-----------------------------------------------------------------------------
(* The steps: a guard is written; an element is compiled, loaded and run.  *)

WritePhrase(phrase) ==
  /\ source = NoSource /\ Len(text) < MaxPhrases
  /\ text' = Append(text, phrase)
  /\ UNCHANGED <<source, wire, loaded, routed>>

IsTable == source.kind = "table"

(* A branch leads to a node of its own or to the node of the first one.    *)
DrawBranch(branch) ==
  /\ source # NoSource /\ ~IsTable /\ wire = NoWire
  /\ Len(source.branches) < MaxBranches
  /\ source' = [source EXCEPT !.branches =
        Append(@, [target |-> IF branch.again THEN 1 ELSE Len(@) + 1,
                   condition |-> branch.condition, default |-> branch.default])]
  /\ UNCHANGED <<text, wire, loaded, routed>>

WriteRule(rule) ==
  /\ source # NoSource /\ IsTable /\ wire = NoWire
  /\ Len(source.rules) < MaxBranches
  /\ source' = [source EXCEPT !.rules = Append(@, rule)]
  /\ UNCHANGED <<text, wire, loaded, routed>>

Compile ==
  /\ source # NoSource /\ wire = NoWire
  /\ wire' = IF IsTable THEN CompileTable(source) ELSE CompileGateway(source)
  /\ wire'.accepted
  /\ UNCHANGED <<text, source, loaded, routed>>

Load ==
  /\ source # NoSource /\ wire.accepted /\ ~loaded
  /\ IF IsTable THEN LoadTable(Seal(source)) ELSE LoadGateway(Seal(source), wire.coverage)
  /\ loaded' = TRUE
  /\ UNCHANGED <<text, source, wire, routed>>

Route ==
  /\ loaded /\ routed = NoRoute
  /\ \E vs \in [Variables -> Value] :
       routed' = [variables |-> vs,
                  engine |-> IF IsTable THEN EvaluateDecisionTable(Seal(source), vs)
                                        ELSE SelectTransitions(Seal(source), vs),
                  generated |-> IF IsTable THEN GeneratedDecision(source, vs)
                                           ELSE EnabledTargets(source, vs)]
  /\ UNCHANGED <<text, source, wire, loaded>>

RoutingNext ==
  \/ \E phrase \in Phrase : WritePhrase(phrase)
  \/ \E branch \in Branch : DrawBranch(branch)
  \/ \E rule \in Rule : WriteRule(rule)
  \/ Compile \/ Load \/ Route

RoutingSpec == RoutingInit /\ [][RoutingNext]_routingVars

-----------------------------------------------------------------------------
(* What the analysis may count on: variables hold values of the types the  *)
(* guards compare them with, an enumerated string holds a declared value,  *)
(* and strings are only compared for equality.                             *)
AsDeclared(g, vs) ==
  \A i \in DOMAIN g.branches : \A c \in ComparisonsIn(Expressions(g)[i]) :
    /\ vs[c.var].type = c.lit.type
    /\ c.lit.type = "str" => c.op \in {"==", "!="}
    /\ wire.coverage = "enum" => vs[c.var].v \in Range(g.enum)


(* The same for two branches: an exclusive gateway that was accepted       *)
(* without a default never finds two of its guards true (AmbiguousGateway  *)
(* in select_transition), because the analysis refuses overlapping guards. *)
CoveredGatewayIsUnambiguous ==
  source # NoSource /\ routed # NoRoute /\ ~IsTable =>
    (Defaults(source) = {} /\ AsDeclared(source, routed.variables)
       => routed.engine # <<"ambiguous">>)

(* Every input is there with its type, and is tested for a value of it;    *)
(* where the order of the rules counts, their ids are in that order.       *)
TypedDecision(t, vs) ==
  /\ t.policy = "first" => Seal(t) = t
  /\ \A j \in DOMAIN t.inputs :
       /\ vs[t.inputs[j].var].type = t.inputs[j].type
       /\ \A i \in DOMAIN t.rules :
            LET test == t.rules[i].tests[j]
            IN  /\ test.test = "equal" => test.lit.type = t.inputs[j].type
                /\ test.test = "interval" => t.inputs[j].type = "int"

(* The decision the engine takes is the decision of the table as it was    *)
(* modelled: sealing, loading and evaluating change nothing about it.      *)
DecisionIsAsModelled ==
  source # NoSource /\ routed # NoRoute =>
    (IsTable => routed.engine = EvaluateDecisionTable(source, routed.variables))


(* Printing a compiled guard and compiling it again gives the same guard:  *)
(* the parentheses of the printer and the precedence of the parser match.  *)
GuardSurvivesPrinting ==
  LET guard == ParseGuard(FlattenSeq(text))
  IN  guard.ok => /\ ParseGuard(Render(guard.e)).ok
                  /\ ParseGuard(Render(guard.e)).e = guard.e
=============================================================================
