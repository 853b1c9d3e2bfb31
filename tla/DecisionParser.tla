-------------------------- MODULE DecisionParser --------------------------
(***************************************************************************)
(* The reading of a DMN document (bpmn-compiler/src/compiler.rs, parse_dmn *)
(* and the functions it calls).  Like the BPMN reader it keeps registers   *)
(* and no tree: the table and the rule being read, and whether the text    *)
(* that comes next is an input test or an output value.  An entry may be   *)
(* an attribute or nested text; an absent input entry is "any".            *)
(*                                                                         *)
(* The steps draw a document and read it; "meant" is what the document     *)
(* says by its nesting and is never read by the parser.                    *)
(***************************************************************************)
EXTENDS Naturals, SequencesExt

CONSTANTS
    Entry,            \* the texts an entry may have
    Unparsable,       \* those that are neither a test nor a literal
    AnyEntry,         \* "-", the input entry that is always true
    Blank,            \* the empty text: any test, and no literal
    Reference,        \* pieces of text written as character references
    TwoPieces,        \* whether a comment may split an entry's text in two
    MaxTables,        \* bound: the tables of a document
    MaxRules,         \* bound: the rules of a table
    MaxColumns        \* bound: the inputs, and the outputs, of a table

VARIABLES
    within,    \* the open elements, outermost first
    dmn,       \* the locals of parse_dmn
    meantDmn   \* what the document says

dmnVars == <<within, dmn, meantDmn>>

NoTable == [inputs |-> 0, outputs |-> 0, rules |-> <<>>]
NoRule == [tests |-> <<>>, values |-> <<>>]

\* current_table and current_rule are options.
EmptyReader ==
    [tables |-> <<>>, inTable |-> FALSE, table |-> NoTable,
     inRule |-> FALSE, rule |-> NoRule, capture |-> "none", refused |-> FALSE]

---------------------------------------------------------------------------
\* push_dmn_input, push_dmn_output: a column is part of the table being read.
PushColumn(d, tag) ==
    IF ~d.inTable THEN d
    ELSE IF tag = "input" THEN [d EXCEPT !.table.inputs = @ + 1]
                          ELSE [d EXCEPT !.table.outputs = @ + 1]

\* push_dmn_entry.
PushEntry(d, kind, value) ==
    IF ~d.inRule THEN d
    ELSE IF value \in Unparsable \/ (kind = "outputEntry" /\ value \in {Blank, AnyEntry})
    THEN [d EXCEPT !.refused = TRUE]
    ELSE IF kind = "inputEntry" THEN [d EXCEPT !.rule.tests = Append(@, value)]
                                ELSE [d EXCEPT !.rule.values = Append(@, value)]

\* inspect_dmn_start: an entry with a text attribute is read at once.
InspectStart(d, e) ==
    CASE e.tag = "decisionTable" -> [d EXCEPT !.inTable = TRUE, !.table = NoTable]
      [] e.tag = "rule" -> [d EXCEPT !.inRule = TRUE, !.rule = NoRule]
      [] e.tag \in {"input", "output"} -> PushColumn(d, e.tag)
      [] e.tag \in {"inputEntry", "outputEntry"} ->
            IF e.text # {} THEN PushEntry(d, e.tag, CHOOSE t \in e.text : TRUE)
            ELSE [d EXCEPT !.capture = e.tag]

\* inspect_dmn_empty: no rule and no table, and an input entry without text is any.
InspectEmpty(d, e) ==
    CASE e.tag \in {"input", "output"} -> PushColumn(d, e.tag)
      [] e.tag \in {"inputEntry", "outputEntry"} ->
            PushEntry(d, e.tag, IF e.text # {} THEN CHOOSE t \in e.text : TRUE
                                 ELSE IF e.tag = "inputEntry" THEN AnyEntry ELSE Blank)
      [] OTHER -> d

\* A rule with no more entries than columns.
TableHolds(t) ==
    /\ t.inputs > 0 /\ t.outputs > 0
    /\ \A i \in DOMAIN t.rules :
          Len(t.rules[i].tests) <= t.inputs /\ Len(t.rules[i].values) <= t.outputs

\* validate_decision_table.
TableFits(t) ==
    /\ t.inputs > 0 /\ t.outputs > 0
    /\ \A i \in DOMAIN t.rules :
          Len(t.rules[i].tests) = t.inputs /\ Len(t.rules[i].values) = t.outputs

CloseRule(d) ==
    [d EXCEPT !.inRule = FALSE, !.rule = NoRule,
              !.table.rules = IF d.inTable THEN Append(@, d.rule) ELSE @]

CloseTable(d) ==
    LET closed == [d EXCEPT !.inTable = FALSE, !.table = NoTable] IN
    IF ~d.inTable THEN closed
    ELSE IF TableFits(d.table) THEN [closed EXCEPT !.tables = Append(@, d.table)]
    ELSE [closed EXCEPT !.refused = TRUE]

\* Event::End.
CloseDmn(d, tag) ==
    CASE tag = "rule" -> CloseRule(d)
      [] tag = "decisionTable" -> CloseTable(d)
      [] tag \in {"inputEntry", "outputEntry"} -> [d EXCEPT !.capture = "none"]
      [] OTHER -> d

\* Event::Text; a character reference is none of the reader's cases.
ReadText(d, piece) ==
    IF d.capture = "none" THEN d ELSE PushEntry(d, d.capture, piece)

---------------------------------------------------------------------------
Top == IF within = <<>> THEN "definitions" ELSE Last(within).tag

\* The last rule of the last table the document has.
SayEntry(m, kind, pieces) ==
    LET t == Len(m)
        r == Len(m[t].rules)
    IN  IF kind = "inputEntry" THEN [m EXCEPT ![t].rules[r].tests = Append(@, pieces)]
                               ELSE [m EXCEPT ![t].rules[r].values = Append(@, pieces)]

\* The entry a document has written in full, as one text.
Says(m, e) ==
    LET t == Len(m) IN
    CASE e.tag = "decisionTable" -> Append(m, NoTable)
      [] e.tag = "rule" -> [m EXCEPT ![t].rules = Append(@, NoRule)]
      [] e.tag = "input" -> [m EXCEPT ![t].inputs = @ + 1]
      [] e.tag = "output" -> [m EXCEPT ![t].outputs = @ + 1]
      [] e.tag \in {"inputEntry", "outputEntry"} ->
            SayEntry(m, e.tag, SetToSeq(e.text))

\* A further piece of the entry being written.
SaysPiece(m, kind, piece) ==
    LET t == Len(m)
        r == Len(m[t].rules)
        n == IF kind = "inputEntry" THEN Len(m[t].rules[r].tests)
                                    ELSE Len(m[t].rules[r].values)
    IN  IF kind = "inputEntry"
        THEN [m EXCEPT ![t].rules[r].tests[n] = Append(@, piece)]
        ELSE [m EXCEPT ![t].rules[r].values[n] = Append(@, piece)]

\* Columns come before rules, and a rule has at most an entry for each.
Nested(tag) ==
    CASE Top = "definitions" -> tag = "decisionTable" /\ Len(meantDmn) < MaxTables
      [] Top = "decisionTable" ->
            LET t == Last(meantDmn) IN
            \/ tag = "input" /\ t.inputs < MaxColumns /\ t.rules = <<>>
            \/ tag = "output" /\ t.outputs < MaxColumns /\ t.rules = <<>>
            \/ tag = "rule" /\ Len(t.rules) < MaxRules
      [] Top = "rule" ->
            LET t == Last(meantDmn)
                r == Last(t.rules)
            IN  \/ tag = "inputEntry" /\ Len(r.tests) < t.inputs
                \/ tag = "outputEntry" /\ Len(r.values) < t.outputs
      [] OTHER -> FALSE

Written ==
    [tag : {"decisionTable", "rule", "input", "output"}, text : {{}}]
    \cup [tag : {"inputEntry", "outputEntry"}, text : {{}} \cup {{x} : x \in Entry}]

DmnInit == within = <<>> /\ dmn = EmptyReader /\ meantDmn = <<>>

StartElement(e) ==
    /\ ~dmn.refused /\ Nested(e.tag)
    /\ within' = Append(within, [tag |-> e.tag, said |-> Cardinality(e.text)])
    /\ meantDmn' = Says(meantDmn, e)
    /\ dmn' = InspectStart(dmn, e)

EmptyElement(e) ==
    /\ ~dmn.refused /\ Nested(e.tag) /\ e.tag \notin {"decisionTable", "rule"}
    /\ meantDmn' = IF e.tag = "inputEntry" /\ e.text = {}
                   THEN SayEntry(meantDmn, e.tag, <<AnyEntry>>) ELSE Says(meantDmn, e)
    /\ dmn' = InspectEmpty(dmn, e)
    /\ UNCHANGED within

\* An entry has no text, one, or two around a comment.
WriteText(piece) ==
    /\ ~dmn.refused /\ Top \in {"inputEntry", "outputEntry"}
    /\ Last(within).said < (IF TwoPieces THEN 2 ELSE 1)
    /\ within' = [within EXCEPT ![Len(within)].said = @ + 1]
    /\ meantDmn' = SaysPiece(meantDmn, Top, piece)
    /\ dmn' = ReadText(dmn, piece)

\* A character reference before the text, as in &lt; 100.
WriteReference(piece) ==
    /\ ~dmn.refused /\ Top \in {"inputEntry", "outputEntry"}
    /\ Last(within).said = 0
    /\ meantDmn' = SaysPiece(meantDmn, Top, piece)
    /\ UNCHANGED <<within, dmn>>

EndElement ==
    /\ within # <<>> /\ ~dmn.refused
    /\ within' = Front(within)
    /\ dmn' = CloseDmn(dmn, Top)
    /\ UNCHANGED meantDmn

DmnNext ==
    \/ \E e \in Written : StartElement(e) \/ EmptyElement(e)
    \/ \E piece \in Entry : WriteText(piece)
    \/ EndElement

\* Documents that also use character references.
DmnReferenceNext == DmnNext \/ \E piece \in Reference : WriteReference(piece)

DmnSpec == DmnInit /\ [][DmnNext]_dmnVars

---------------------------------------------------------------------------
\* A table of one-piece texts as the document wrote it.
Pieces(t) ==
    [t EXCEPT !.rules = [i \in DOMAIN @ |->
        [tests |-> [j \in DOMAIN @[i].tests |-> <<@[i].tests[j]>>],
         values |-> [j \in DOMAIN @[i].values |-> <<@[i].values[j]>>]]]]

\* Every table the reader keeps has exactly the columns and the rules of its
\* document, in their order, each rule with the tests and values written in it,
\* whether they were written as attributes, as nested text or as empty elements
\* (inspect_dmn_start, inspect_dmn_empty, push_dmn_entry, validate_decision_table).
TablesAreAsWritten ==
    (within = <<>> /\ ~dmn.refused) =>
        /\ Len(dmn.tables) = Len(meantDmn)
        /\ \A i \in DOMAIN dmn.tables : Pieces(dmn.tables[i]) = meantDmn[i]
===========================================================================
