---------------------------- MODULE BpmnParser ----------------------------
(***************************************************************************)
(* The reading of a BPMN document (bpmn-compiler/src/compiler.rs,          *)
(* ParsedProcess and the functions that fill it).  The compiler reads XML  *)
(* events one at a time and keeps no tree: which element a piece of text,  *)
(* an extension property or a nested node belongs to is remembered in six  *)
(* small registers (scope_stack, open_nodes, open_boundary_event,          *)
(* open_sequence_flow, extension_owner, text_capture), each set when some  *)
(* element opens and reset when some element closes.                       *)
(*                                                                         *)
(* The document is drawn by the steps themselves: a step opens, empties or *)
(* closes an element or writes a piece of text, and the parser handles the *)
(* event.  "meant" records what the nesting of the document says, element  *)
(* by element, and is never read by the parser.                            *)
(***************************************************************************)
EXTENDS Naturals, SequencesExt

CONSTANTS
    Name,           \* the identifiers a document may use
    NoName,         \* an absent identifier, and an empty register
    Phrase,         \* the pieces of text a document may hold
    Nests,          \* the pairs <<parent, child>> of elements a document has
    SelfClosing,    \* the elements a document may write as <e/>
    ForeignName,    \* local names of elements of other namespaces
    RepeatsIds,     \* whether a flow may have another flow's id, or a node the process's
    MaxXmlDepth,    \* CompilerLimits.max_xml_depth
    MaxEvents       \* bound: the XML events of a document

VARIABLES
    open,     \* the elements the XML reader has open, outermost first
    parsed,   \* ParsedProcess
    meant,    \* what the document says by its nesting
    events    \* the number of events read

parserVars == <<open, parsed, meant, events>>

\* RawNodeKind: tasks, events and gateways are read alike.
NodeTag == {"task", "sub"}

\* classify_element: Supported and Unsupported names are semantic.
Semantic == NodeTag \cup {"eventSub", "process", "extension", "multi", "cardinality",
    "completion", "boundary", "compensate", "timer", "time", "error", "flow",
    "condition", "unsupported"}

\* An event sub-process is a subProcess with triggeredByEvent set.
LocalName(tag) == IF tag = "eventSub" THEN "sub" ELSE tag

NoText == <<>>

NoCapture == [kind |-> "none", of |-> NoName]

EmptyProcess ==
    [processes |-> 0, process |-> NoName, props |-> <<>>,
     nodes |-> <<>>, flows |-> <<>>, bounds |-> <<>>,
     scopes |-> <<>>, openNodes |-> <<>>, bound |-> NoName, flow |-> NoName,
     owner |-> NoName, capture |-> NoCapture, refused |-> FALSE]

---------------------------------------------------------------------------
\* The parser.

Refuse(p) == [p EXCEPT !.refused = TRUE]

RefuseIf(refuse, p) == IF refuse THEN Refuse(p) ELSE p

\* scope_stack.last(), open_nodes.last() and the like.
LastOr(s, default) == IF s = <<>> THEN default ELSE Last(s)

EnclosingNode(p) == LastOr(p.openNodes, [tag |-> "none", id |-> NoName]).id

\* The element of a sequence with an identifier, as iter().find does: the first.
FirstWith(s, id) == SelectInSeq(s, LAMBDA x : x.id = id)

Listed(s, id) == FirstWith(s, id) > 0

\* The element an identifier names, changed by F.
Change(s, id, F(_)) ==
    IF Listed(s, id) THEN [s EXCEPT ![FirstWith(s, id)] = F(@)] ELSE s

NewNode(e, scope) ==
    [id |-> e.id, tag |-> e.tag, scope |-> scope, multi |-> FALSE,
     cardinality |-> NoText, completion |-> NoText, props |-> <<>>]

\* insert_node: the map holds one node per identifier; a second one replaces
\* the first and is reported.
InsertNode(p, e) ==
    LET node == NewNode(e, LastOr(p.scopes, NoName))
    IN  IF e.id = NoName THEN Refuse(p)
        ELSE IF Listed(p.nodes, e.id)
             THEN Refuse([p EXCEPT !.nodes = Change(@, e.id, LAMBDA n : node)])
             ELSE [p EXCEPT !.nodes = Append(@, node)]

InsertSubProcess(p, e, empty) ==
    LET q == InsertNode(p, e)
    IN  IF empty \/ e.id = NoName THEN q ELSE [q EXCEPT !.scopes = Append(@, e.id)]

\* insert_boundary_event: compared with the nodes and events read so far.
InsertBoundary(p, e) ==
    IF e.id = NoName \/ Listed(p.nodes, e.id) \/ Listed(p.bounds, e.id)
    THEN Refuse(p)
    ELSE [p EXCEPT !.bound = e.id,
                   !.bounds = Append(@, [id |-> e.id, triggers |-> 0, undo |-> FALSE,
                                         timer |-> FALSE, time |-> NoText])]

\* mark_timer_boundary, mark_error_boundary, mark_message_boundary,
\* mark_compensation_boundary.
Mark(p, tag) ==
    [p EXCEPT !.bounds = Change(@, p.bound, LAMBDA b :
        [b EXCEPT !.triggers = @ + 1,
                  !.undo = @ \/ tag = "compensate",
                  !.timer = IF tag = "compensate" THEN @ ELSE tag = "timer",
                  !.time = IF tag = "compensate" THEN @ ELSE NoText])]

InsertMultiInstance(p) ==
    LET owner == EnclosingNode(p)
        i     == FirstWith(p.nodes, owner)
    IN  IF owner = NoName THEN Refuse(p)
        ELSE IF i = 0 THEN p
        ELSE IF p.nodes[i].multi THEN Refuse(p)
        ELSE [p EXCEPT !.nodes[i].multi = TRUE]

\* insert_flow: no comparison with the flows read so far.
InsertFlow(p, e, empty) ==
    IF e.id = NoName THEN Refuse(p)
    ELSE [p EXCEPT !.flows = Append(@, [id |-> e.id, condition |-> NoText]),
                   !.flow = IF empty THEN @ ELSE e.id]

\* start_loop_cardinality_capture, start_completion_condition_capture,
\* start_timer_capture and the conditionExpression arm: a capture begins only
\* while the register it is for is set.
StartCapture(p, kind) ==
    LET of == CASE kind \in {"cardinality", "completion"} -> EnclosingNode(p)
                [] kind = "time"      -> p.bound
                [] kind = "condition" -> p.flow
    IN  IF of = NoName THEN p ELSE [p EXCEPT !.capture = [kind |-> kind, of |-> of]]

OpenExtension(p) ==
    [p EXCEPT !.owner = IF p.openNodes # <<>> THEN EnclosingNode(p) ELSE p.process]

\* collect_extension_property and push_property.
PushProperty(p, value) ==
    IF p.owner = p.process
    THEN [p EXCEPT !.props = Append(@, value)]
    ELSE [p EXCEPT !.nodes = Change(@, p.owner,
                                    LAMBDA n : [n EXCEPT !.props = Append(@, value)])]

OpenProcess(p, e) ==
    RefuseIf(p.process = NoName /\ e.id = NoName,
        [p EXCEPT !.processes = @ + 1,
                  !.process = IF @ = NoName THEN e.id ELSE @])

\* The executable elements, by name.
InspectActivity(p, e, empty) ==
    CASE e.tag = "process" -> OpenProcess(p, e)
      [] e.tag = "extension" -> OpenExtension(p)
      [] e.tag = "task" -> InsertNode(p, e)
      [] e.tag = "eventSub" -> Refuse(p)
      [] e.tag = "sub" -> InsertSubProcess(p, e, empty)
      [] OTHER -> p

\* Their parts and the elements between them.
InspectDetail(p, e, empty) ==
    CASE e.tag = "multi" -> InsertMultiInstance(p)
      [] e.tag = "boundary" -> InsertBoundary(p, e)
      [] e.tag \in {"timer", "error", "compensate"} -> Mark(p, e.tag)
      [] e.tag = "flow" -> InsertFlow(p, e, empty)
      [] e.tag \in {"cardinality", "completion", "time", "condition"} -> StartCapture(p, e.tag)
      [] OTHER -> p

\* Elements of other namespaces are properties inside extensionElements, and
\* refused elsewhere if they have the name of an executable element.
InspectElement(p, e, empty) ==
    IF e.bpmn
    THEN IF e.tag = "unsupported" THEN Refuse(p)
         ELSE InspectDetail(InspectActivity(p, e, empty), e, empty)
    ELSE IF p.owner # NoName THEN PushProperty(p, e.id)
    ELSE RefuseIf(e.tag \in Semantic, p)

TrackOpenNode(p, e) ==
    IF e.bpmn /\ LocalName(e.tag) \in NodeTag /\ e.id # NoName
    THEN [p EXCEPT !.openNodes = Append(@, [tag |-> LocalName(e.tag), id |-> e.id])]
    ELSE p

\* Event::Empty closes the two registers an empty element may have set.
AfterEmpty(p, e) ==
    [p EXCEPT !.bound = IF e.tag = "boundary" THEN NoName ELSE @,
              !.owner = IF e.tag = "extension" THEN NoName ELSE @]


\* text_capture ends with the element it began with.
CaptureAfter(capture, tag) ==
    IF tag \in {"cardinality", "completion", "time", "condition"} THEN NoCapture ELSE capture

\* close_element is told the local name of the element and not its namespace.
CloseElement(p, tag) ==
    [p EXCEPT !.bound = IF tag = "boundary" THEN NoName ELSE @,
              !.owner = IF tag = "extension" THEN NoName ELSE @,
              !.flow = IF tag = "flow" THEN NoName ELSE @,
              !.capture = CaptureAfter(@, tag),
              !.scopes = IF tag = "sub" /\ @ # <<>> THEN Front(@) ELSE @,
              !.openNodes = IF @ # <<>> /\ Last(@).tag = tag THEN Front(@) ELSE @]

\* capture_bpmn_text and capture_bpmn_reference: a character reference goes
\* where the text goes, but never makes a boundary event a timer.
CaptureText(p, piece, reference) ==
    LET k  == p.capture.kind
        of == p.capture.of
    IN  CASE k = "none" -> p
          [] k = "cardinality" -> [p EXCEPT !.nodes = Change(@, of, LAMBDA n :
                IF n.multi THEN [n EXCEPT !.cardinality = Append(@, piece)] ELSE n)]
          [] k = "completion" -> [p EXCEPT !.nodes = Change(@, of, LAMBDA n :
                IF n.multi THEN [n EXCEPT !.completion = Append(@, piece)] ELSE n)]
          [] k = "condition" -> [p EXCEPT !.flows = Change(@, of, LAMBDA f :
                [f EXCEPT !.condition = Append(@, piece)])]
          [] k = "time" -> [p EXCEPT !.bounds = Change(@, of, LAMBDA b :
                IF b.timer THEN [b EXCEPT !.time = Append(@, piece)]
                ELSE IF reference THEN b
                ELSE [b EXCEPT !.timer = TRUE, !.time = <<piece>>])]

---------------------------------------------------------------------------
\* What the document says: each element belongs to the elements it is in.

\* The innermost open element with one of these tags.
InnermostOf(tags) == LastOr(SelectSeq(open, LAMBDA e : e.bpmn /\ e.tag \in tags),
                            [tag |-> "none", id |-> NoName, bpmn |-> TRUE, at |-> 0])

Parent(n) == IF Len(open) >= n THEN open[Len(open) + 1 - n]
             ELSE [tag |-> "none", id |-> NoName, bpmn |-> TRUE, at |-> 0]

NothingMeant == [nodes |-> <<>>, flows |-> <<>>, bounds |-> <<>>, props |-> <<>>]

\* An element e opens inside the open ones.
Says(m, e) ==
    CASE e.bpmn /\ e.tag \in NodeTag ->
            [m EXCEPT !.nodes = Append(@, NewNode(e, InnermostOf({"sub"}).id))]
      [] e.bpmn /\ e.tag = "flow" ->
            [m EXCEPT !.flows = Append(@, [id |-> e.id, condition |-> NoText])]
      [] e.bpmn /\ e.tag = "boundary" ->
            [m EXCEPT !.bounds = Append(@, [id |-> e.id, time |-> NoText])]
      [] e.bpmn /\ e.tag = "multi" /\ Parent(1).tag \in NodeTag ->
            [m EXCEPT !.nodes[Parent(1).at].multi = TRUE]
      [] ~e.bpmn /\ Parent(1).tag = "extension" /\ Parent(2).tag \in NodeTag ->
            [m EXCEPT !.nodes[Parent(2).at].props = Append(@, e.id)]
      [] ~e.bpmn /\ Parent(1).tag = "extension" /\ Parent(2).tag = "process" ->
            [m EXCEPT !.props = Append(@, e.id)]
      [] OTHER -> m

\* A piece of text is written inside the open elements.
SaysText(m, piece) ==
    CASE Parent(1).tag = "cardinality" ->
            [m EXCEPT !.nodes[Parent(3).at].cardinality = Append(@, piece)]
      [] Parent(1).tag = "completion" ->
            [m EXCEPT !.nodes[Parent(3).at].completion = Append(@, piece)]
      [] Parent(1).tag = "condition" ->
            [m EXCEPT !.flows[Parent(2).at].condition = Append(@, piece)]
      [] Parent(1).tag = "time" ->
            [m EXCEPT !.bounds[Parent(3).at].time = Append(@, piece)]
      [] OTHER -> m

\* Where "meant" keeps an element that has just opened.
Place(m, e) == CASE e.tag \in NodeTag -> Len(m.nodes)
                 [] e.tag = "flow" -> Len(m.flows)
                 [] e.tag = "boundary" -> Len(m.bounds)
                 [] OTHER -> 0

---------------------------------------------------------------------------
\* The steps: the document goes on, and the parser handles the event.

ParserInit ==
    /\ open = <<>>
    /\ parsed = EmptyProcess
    /\ meant = NothingMeant
    /\ events = 0

\* The reader goes on after a diagnostic, to collect more of them; the document is
\* refused whatever follows and is not drawn further.
Drawing == events < MaxEvents /\ ~parsed.refused

Within == IF open = <<>> THEN "document" ELSE Last(open).tag

\* The elements that may be written here.
Writable ==
    {[tag |-> t, bpmn |-> TRUE, id |-> n] : t \in {x[2] : x \in {y \in Nests : y[1] = Within}},
                                            n \in Name \cup {NoName}}
    \cup {[tag |-> t, bpmn |-> FALSE, id |-> n] :
            t \in IF Within = "extension" THEN ForeignName ELSE {}, n \in Name}

\* Only these elements have an identifier the parser reads.
Identified(e) == e.bpmn => (e.tag \in NodeTag \cup {"process", "flow", "boundary", "eventSub"}
                            \/ e.id = NoName)

\* Identifiers are unique in XML; the parser itself compares nodes and boundary
\* events only.
Distinct(e) ==
    (~RepeatsIds /\ e.bpmn) =>
        /\ e.tag = "flow" => ~Listed(meant.flows, e.id)
        /\ e.tag \in NodeTag \cup {"eventSub"} => e.id # parsed.process

StartElement(e) ==
    /\ Drawing
    /\ e \in Writable /\ Identified(e) /\ Distinct(e)
    /\ LET m == Says(meant, e) IN
        /\ meant' = m
        /\ open' = Append(open, [tag |-> e.tag, bpmn |-> e.bpmn, id |-> e.id,
                                 at |-> IF e.bpmn THEN Place(m, e) ELSE 0])
    /\ parsed' = TrackOpenNode(
                    InspectElement(RefuseIf(Len(open) + 1 > MaxXmlDepth, parsed), e, FALSE), e)
    /\ events' = events + 1

EmptyElement(e) ==
    /\ Drawing
    /\ e \in Writable /\ Identified(e) /\ Distinct(e)
    /\ e.bpmn => e.tag \in SelfClosing
    /\ meant' = Says(meant, e)
    /\ parsed' = AfterEmpty(InspectElement(parsed, e, TRUE), e)
    /\ events' = events + 1
    /\ UNCHANGED open

EndElement ==
    /\ open # <<>>
    /\ open' = Front(open)
    /\ parsed' = CloseElement(parsed, LocalName(Last(open).tag))
    /\ UNCHANGED <<meant, events>>

WriteText(piece, reference) ==
    /\ Drawing
    /\ Within \in {"cardinality", "completion", "time", "condition", "note"}
    /\ meant' = SaysText(meant, piece)
    /\ parsed' = CaptureText(parsed, piece, reference)
    /\ events' = events + 1
    /\ UNCHANGED open

ParserNext ==
    \/ \E e \in Writable : StartElement(e)
    \/ \E e \in Writable : EmptyElement(e)
    \/ EndElement
    \/ \E piece \in Phrase, reference \in BOOLEAN : WriteText(piece, reference)

ParserSpec == ParserInit /\ [][ParserNext]_parserVars

---------------------------------------------------------------------------
\* The document as the parser understood it.
Understood ==
    [nodes |-> parsed.nodes, flows |-> parsed.flows, props |-> parsed.props,
     bounds |-> [i \in DOMAIN parsed.bounds |->
                    [id |-> parsed.bounds[i].id, time |-> parsed.bounds[i].time]]]

\* No diagnostic so far; the later passes refuse a second process and a boundary
\* event with more than one trigger.
Readable ==
    /\ ~parsed.refused /\ parsed.processes <= 1
    /\ \A i \in DOMAIN parsed.bounds : parsed.bounds[i].triggers <= 1

\* A document the parser has no diagnostic for is understood as it is nested:
\* every node is in the sub-process that encloses it, every condition, loop
\* bound, completion condition and timer is made of the text inside its own
\* element, and every extension property is with the node it is written in,
\* although the parser keeps registers and no tree (inspect_element,
\* close_element, capture_bpmn_text).
ParsedAsNested == Readable => Understood = meant
===========================================================================
