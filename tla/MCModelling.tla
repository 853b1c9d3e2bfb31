----------------------------- MODULE MCModelling -----------------------------
(***************************************************************************)
(* Instances of the modules of the modelling tool chain for TLC, side by   *)
(* side: a behaviour belongs to one part, chosen in its initial state, and *)
(* the variables of the other parts keep the value None.                   *)
(***************************************************************************)
EXTENDS Integers, Sequences, TLC

CONSTANTS Parts,   \* the parts a run explores
          None     \* a model value: no node, no type, no name, an absent part

VARIABLES
    part,
    text, source, wire, loaded, routed,
    doc, flows, compiled, run,
    open, parsed, meant, events,
    cmmn, definition, cases, facts,
    within, dmn, meantDmn,
    element, written
-----------------------------------------------------------------------------
(* Gateways and tables over integers of two bits (-1..2), where intervals     *)
(* meet both ends of the width.                                               *)
Guards == INSTANCE GuardExpressions
IntOf(v) == Guards!Literal("int", v)
StrOf(v) == Guards!Literal("str", v)
Width  == {IntOf(i) : i \in -1..2}
Compare(x, ops, literals) == {Guards!Comparison(x, op, l) : op \in ops, l \in literals}
Gateways == {[kind |-> k, branches |-> <<>>, enum |-> <<1, 2>>] : k \in {"exclusive", "inclusive"}}
BranchOf(c, d, a) == [condition |-> c, default |-> d, again |-> a]
Unguarded == {BranchOf(<<>>, TRUE, FALSE),
              BranchOf(Guards!Render(Guards!Constant(1)), TRUE, FALSE),
              BranchOf(Guards!Render(Guards!Constant(1)), FALSE, TRUE),
              BranchOf(<<Guards!Token("not", Guards!NoValue)>>, FALSE, FALSE)}
Guarded(E) == {BranchOf(Guards!Render(e), FALSE, FALSE) : e \in E}

(* One variable: every comparison, three branches. *)
Simple == Compare("x", Guards!Operator, Width)
              \cup Compare("x", {"==", "!="}, {Guards!Literal("bool", b) : b \in {0, 1}})
              \cup Compare("x", {"==", "<"}, {StrOf(1), StrOf(2)})
SimpleBranches == Guarded(Simple) \cup Unguarded
SimpleValues == Width \cup {Guards!Literal("bool", b) : b \in {0, 1}}
                      \cup {StrOf(s) : s \in 0..2} \cup {Guards!NoValue}
Intervals == INSTANCE GatewayRouting WITH
    Element <- Gateways, Branch <- SimpleBranches, Rule <- {}, MaxBranches <- 3,
    Variables <- {"x"}, Value <- SimpleValues,
    Phrase <- {}, MaxPhrases <- 0, MinInt <- -1, MaxInt <- 2, OtherString <- 0,
    MaxSymbolicAssignments <- 64, NoSource <- None

(* Two variables: compound guards, decision tables, guards typed by hand. *)
Base == Compare("x", {"<", ">="}, {IntOf(0), IntOf(1)}) \cup Compare("y", {"==", "!="}, {StrOf(1)})
Compound == Base \cup {Guards!Junction("and", <<a, b>>) : a \in Base, b \in Base}
                 \cup {Guards!Negation(Guards!Junction("or", <<a, b>>)) : a \in Base, b \in Base}
                 \cup {Guards!Constant(1), Guards!Negation(Guards!Constant(1))}
Test(k, lo, hi, l) == [test |-> k, lo |-> lo, hi |-> hi, lit |-> l]
Tests == {Test("any", 0, 0, Guards!NoValue), Test("interval", 0, 3, Guards!NoValue),
          Test("equal", 0, 0, IntOf(1)), Test("equal", 0, 0, StrOf(1))}
OfY == {t \in Tests : t.test # "interval" /\ t.lit # IntOf(1)}
Rules == {[id |-> n, tests |-> <<a, b>>, values |-> <<Guards!Literal(u, n)>>] :
              n \in {1, 2}, a \in Tests, b \in OfY, u \in {"int", "str"}}
Tables == {[kind |-> "table", policy |-> p, rules |-> <<>>,
            inputs |-> <<[var |-> "x", type |-> "int"], [var |-> "y", type |-> t]>>,
            outputs |-> <<[name |-> "o", type |-> "int"]>>] :
               p \in {"unique", "first", "collect"}, t \in {"int", "str"}}
Less == <<Guards!Token("id", "x"), Guards!Token("op", "<"), Guards!Token("lit", IntOf(0))>>
Sign(t) == <<Guards!Token(t, Guards!NoValue)>>
Typed == {Less, Sign("(") \o Less \o Sign("or") \o Less \o Sign(")"), Sign("not") \o Sign("(")}
             \cup {Sign(t) : t \in {"and", "or", "not", "(", ")"}}
Elements == Gateways \cup Tables
CompoundBranches == Guarded(Compound) \cup Unguarded
CompoundValues == Width \cup {StrOf(0), StrOf(1), Guards!NoValue}
Routing == INSTANCE GatewayRouting WITH
    Element <- Elements, Branch <- CompoundBranches, Rule <- Rules, MaxBranches <- 2,
    Variables <- {"x", "y"}, Value <- CompoundValues,
    Phrase <- Typed, MaxPhrases <- 5, MinInt <- -1, MaxInt <- 2, OtherString <- 0,
    MaxSymbolicAssignments <- 64, NoSource <- None
-----------------------------------------------------------------------------
(* Processes: nodes are given, their flows are drawn.  Two splits and a join  *)
(* of every kind; a sub-process; typed branches that merge, with SLAs; and a  *)
(* boundary event on a branch of a parallel split.                            *)
Plain(k, s) == [kind |-> k, scope |-> s, sla |-> 0, in |-> None, out |-> None, table |-> None,
                requires |-> FALSE, comp |-> None, handler |-> FALSE, marks |-> 0]
Process(nodes, bounds, sla) ==
    [nodes |-> nodes, bounds |-> bounds, sla |-> sla, drawn |-> <<[src |-> 1, dst |-> 2]>>]

Splits ==
    {Process(<<Plain("start", None), Plain(g[1], None), Plain(g[2], None), Plain(g[3], None),
               Plain("task", None), Plain("task", None), Plain("end", None), Plain("end", None)>>,
             <<>>, 0) :
        g \in {<<"par", "par", "xor">>, <<"par", "xor", "par">>, <<"par", "inc", "par">>,
               <<"inc", "inc", "par">>}}
SubProcesses ==
    {Process(<<Plain("start", None),
               [Plain("sub", None) EXCEPT !.comp = c, !.requires = (c # None), !.marks = 1],
               Plain("start", 2), [Plain("task", 2) EXCEPT !.marks = m], Plain("end", 2),
               Plain("task", None), Plain("end", None)>>, <<>>, 0) :
        c \in {None, 9}, m \in {0, 1}}
Contracts ==
    {Process(<<Plain("start", None), Plain("par", None), Plain("par", None),
               [Plain("task", None) EXCEPT !.out = o1, !.sla = 1],
               [Plain("task", None) EXCEPT !.out = o2, !.sla = 2],
               [Plain(k, None) EXCEPT !.in = "a",
                   !.table = IF k = "decision" THEN [in |-> "a", out |-> "b"] ELSE None],
               Plain("end", None)>>, <<>>, s) :
        s \in {0, 2}, o1 \in {None, "a"}, o2 \in {None, "a", "b"}, k \in {"task", "decision"}}
Boundaries ==
    {Process(<<Plain("start", None), Plain("par", None), Plain("par", None), Plain("task", None),
               Plain("end", None), Plain("end", None)>>,
             7 :> [on |-> 4, cancel |-> c, undo |-> FALSE, links |-> <<>>], 0) : c \in BOOLEAN}
Documents == Splits \cup SubProcesses \cup Contracts \cup Boundaries
Drawings == INSTANCE Compiler WITH
    wire <- compiled, Document <- Documents,
    MaxMerges <- 0, NoNode <- None, NoType <- None, NoTable <- None, NoWire <- None, NoRun <- None
-----------------------------------------------------------------------------
(* BPMN, DMN and CMMN documents of a few elements. *)
Nesting ==
    {<<"document", "process">>, <<"process", "task">>, <<"process", "sub">>, <<"sub", "task">>,
     <<"sub", "sub">>, <<"process", "flow">>, <<"sub", "flow">>, <<"flow", "condition">>,
     <<"task", "multi">>, <<"sub", "multi">>, <<"multi", "cardinality">>,
     <<"multi", "completion">>, <<"process", "boundary">>, <<"boundary", "timer">>,
     <<"boundary", "error">>, <<"boundary", "compensate">>, <<"timer", "time">>,
     <<"process", "extension">>, <<"task", "extension">>, <<"sub", "extension">>,
     <<"task", "note">>, <<"process", "unsupported">>, <<"process", "eventSub">>,
     <<"eventSub", "task">>, <<"flow", "note">>}
Empty == {"task", "sub", "flow", "multi", "boundary", "error", "compensate", "extension", "timer"}
Bpmn == INSTANCE BpmnParser WITH
    Name <- {"a", "b"}, NoName <- None, Phrase <- {"x"}, RepeatsIds <- FALSE, Nests <- Nesting,
    SelfClosing <- Empty, ForeignName <- {"property"}, MaxXmlDepth <- 5, MaxEvents <- 6

Dmn == INSTANCE DecisionParser WITH
    Entry <- {"x", "bad", "any"}, Unparsable <- {"bad"}, AnyEntry <- "any", Blank <- "blank",
    Reference <- {}, TwoPieces <- FALSE, MaxTables <- 1, MaxRules <- 2, MaxColumns <- 2

CaseElement(t, i, entry, exit, c) ==
    [tag |-> t, id |-> i, entry |-> entry, exit |-> exit, condition |-> c]
Sentries == {"p", "q"}
CaseElements ==
    {CaseElement("case", "c", {}, {}, None)}
        \cup {CaseElement("stage", "s", n, x, None) : n \in SUBSET Sentries, x \in SUBSET Sentries}
        \cup {CaseElement("milestone", i, n, {}, None) : i \in {"m", "s", None}, n \in SUBSET Sentries}
        \cup {CaseElement("sentry", i, {}, {}, v) : i \in Sentries, v \in {"x", "y", None}}
Cmmn == INSTANCE CaseModels WITH
    Element <- CaseElements, NoName <- None, Fact <- {"x", "y"}, NoCondition <- None,
    CaseKey <- {"k"}, MaxElements <- 4
-----------------------------------------------------------------------------
(* Durable events: every field that a text, a number or a value reaches takes *)
(* an empty and a blank text, zero, and every type of value.                  *)
Texts == {"", " ", "x"}
Sound == [f \in {"tenant_id", "instance_id", "correlation_id", "causation_command_id",
                 "encryption_key_scope"} |-> "x"]
Requests == {Sound @@ [at |-> n] : n \in 0..2}
                \cup {[Sound EXCEPT ![f] = t] @@ [at |-> 1] : f \in DOMAIN Sound, t \in Texts}
Of(t, v) == [type |-> t, value |-> v]
Scalars == {Of("boolean", TRUE), Of("integer", 0), Of("string", "")}
Lists == {<<>>, <<Of("integer", 1), Of("string", "x"), Of("boolean", FALSE)>>}
             \cup {<<v>> : v \in Scalars}
Nested == {Of("list", <<>>), Of("list", <<Of("list", <<Of("integer", 2)>>), Of("string", " ")>>)}
Outputs == {<<>>} \cup {<<[name |-> t, value |-> v]>> : t \in Texts, v \in Scalars \cup Nested \cup {None}}
               \cup {<<[name |-> "x", value |-> Of("integer", 1)],
                       [name |-> n, value |-> Of("boolean", FALSE)]>> : n \in {"x", "y"}}
Simply(t, r) == [type |-> t, reference |-> r]
Triggers == {None} \cup {Simply(k, r) : k \in {"Error", "Message"}, r \in Texts}
                \cup {Simply("Timer", r) @@ [kind |-> k] : k \in {"Date", "Duration", "Cycle"}, r \in Texts}
LoadedElements ==
    {[kind |-> "service", trigger |-> t] : t \in Triggers}
        \cup [kind : {"user"}, policy : Texts, form : Texts, result : Texts,
              trigger : {None, Simply("Message", "x")}]
        \cup [kind : {"script"}, ref : Texts, version : Texts, trigger : {None}]
        \cup [kind : {"decision"}, table : Texts, trigger : {None},
              outputs : {<<>>, <<"x", "y">>} \cup {<<t>> : t \in Texts}]
        \cup [kind : {"multi"}, mode : {"Sequential", "Parallel"}, declared : 0..2, item : Texts,
              collection : BOOLEAN, trigger : {None, Simply("Error", "x")}]
Durable == INSTANCE DurableEvents WITH
    Text <- Texts, Empty <- "", Blank <- {"", " "}, Artifact <- LoadedElements,
    Request <- Requests, Output <- Outputs, Collection <- Lists, Scalar <- Scalars,
    Numbers <- 0..3, Absent <- None
-----------------------------------------------------------------------------
routingVars == <<text, source, wire, loaded, routed>>
compilerVars == <<doc, flows, compiled, run>>
parserVars == <<open, parsed, meant, events>>
caseVars == <<cmmn, definition, cases, facts>>
dmnVars == <<within, dmn, meantDmn>>
eventVars == <<element, written>>
vars == <<part, routingVars, compilerVars, parserVars, caseVars, dmnVars, eventVars>>

Init ==
    /\ part \in Parts
    /\ IF part = "intervals" THEN Intervals!RoutingInit
       ELSE IF part = "routing" THEN Routing!RoutingInit
       ELSE /\ text = None /\ source = None /\ wire = None
            /\ loaded = None /\ routed = None
    /\ IF part = "drawings" THEN Drawings!CompilerInit
       ELSE /\ doc = None /\ flows = None /\ compiled = None
            /\ run = None
    /\ IF part = "bpmn" THEN Bpmn!ParserInit
       ELSE /\ open = None /\ parsed = None /\ meant = None
            /\ events = None
    /\ IF part = "cmmn" THEN Cmmn!CaseInit
       ELSE /\ cmmn = None /\ definition = None /\ cases = None
            /\ facts = None
    /\ IF part = "dmn" THEN Dmn!DmnInit
       ELSE /\ within = None /\ dmn = None /\ meantDmn = None
    /\ IF part = "durable" THEN Durable!DurableInit
       ELSE element = None /\ written = None

Next ==
    \/ /\ \/ part = "intervals" /\ Intervals!RoutingNext
          \/ part = "routing" /\ Routing!RoutingNext
       /\ UNCHANGED <<part, compilerVars, parserVars, caseVars, dmnVars, eventVars>>
    \/ /\ part = "drawings" /\ Drawings!CompilerNext
       /\ UNCHANGED <<part, routingVars, parserVars, caseVars, dmnVars, eventVars>>
    \/ /\ part = "bpmn" /\ Bpmn!ParserNext
       /\ UNCHANGED <<part, routingVars, compilerVars, caseVars, dmnVars, eventVars>>
    \/ /\ part = "cmmn" /\ Cmmn!CaseNext
       /\ UNCHANGED <<part, routingVars, compilerVars, parserVars, dmnVars, eventVars>>
    \/ /\ part = "dmn" /\ Dmn!DmnNext
       /\ UNCHANGED <<part, routingVars, compilerVars, parserVars, caseVars, eventVars>>
    \/ /\ part = "durable" /\ Durable!DurableNext
       /\ UNCHANGED <<part, routingVars, compilerVars, parserVars, caseVars, dmnVars>>
-----------------------------------------------------------------------------



(* A process that is accepted, without boundary events or sub-processes, runs *)
(* to its end without a token left behind, and on every path from its start   *)
(* each node is given the type and the time that its contract asks for        *)
(* (validate_graph, the data-flow and the SLA check of compiler.rs).          *)
AcceptedModelsAreSound ==
    part = "drawings" => Drawings!AcceptedModelsFinish /\ Drawings!EveryPathKeepsItsContracts


(* A case's plan items follow the sentries of the loaded definition, whatever *)
(* facts arrive and in whatever order (parse_cmmn, evaluate_case_sentries).   *)
CaseFollowsItsSentries == part = "cmmn" => Cmmn!CaseFollowsItsSentries

(* Every event that a command commits is read back as it was written, so no   *)
(* text, number or value that the loader, the transports and the domain let   *)
(* through makes a stream unreadable (to_wire and from_wire of event_codec).  *)
CommittedEventsReadBack == part = "durable" => Durable!CommittedEventsReadBack
=============================================================================
