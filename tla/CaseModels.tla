---------------------------- MODULE CaseModels ----------------------------
(***************************************************************************)
(* Case management: a CMMN document read by the compiler                   *)
(* (bpmn-compiler/src/compiler.rs, parse_cmmn), carried in the artifact    *)
(* and mapped by the engine's loader (bpmp-engine/src/wir_loader.rs,       *)
(* map_case_model), and the life of its cases inside a workflow instance   *)
(* (bpmp-domain-core/src/workflow.rs: validate_case_definition,            *)
(* activate_case, evaluate_case_sentries and the case arms of evolve).     *)
(*                                                                         *)
(* A document is a sequence of elements, read one by one.  A sentry's      *)
(* condition is a variable that must be true, or NoCondition; the facts    *)
(* are what the state and the command's context say of the variables.      *)
(***************************************************************************)
EXTENDS Naturals, SequencesExt

CONSTANTS
    Element,        \* the elements a document may hold: [tag, id, entry, exit, condition]
    NoName,         \* a missing identifier
    Fact,           \* the variables a condition may name
    NoCondition,    \* a sentry without a condition
    CaseKey,        \* case identifiers
    MaxElements     \* bound: the elements of a document

VARIABLES
    cmmn,        \* the document as read so far
    definition,  \* the loaded case definition, or NoDefinition
    cases,       \* InstanceState.active_cases
    facts        \* what the variables are: TRUE, FALSE, or absent

caseVars == <<cmmn, definition, cases, facts>>

NoCase == [lifecycle |-> "none", satisfied |-> {}, items |-> <<>>]

NoDefinition == [loaded |-> FALSE, stages |-> {}, milestones |-> {}, sentries |-> {}]

EmptyDocument ==
    [case |-> FALSE, ids |-> {}, stages |-> <<>>, milestones |-> <<>>,
     sentries |-> <<>>, refused |-> FALSE]

---------------------------------------------------------------------------
\* The compiler.

\* inspect_cmmn_element.
InspectCmmnElement(d, e) ==
    CASE e.id = NoName -> [d EXCEPT !.refused = TRUE]
      [] e.id # NoName /\ e.tag = "case" ->
            IF d.case THEN [d EXCEPT !.refused = TRUE]
            ELSE [d EXCEPT !.case = TRUE, !.ids = @ \cup {e.id}]
      [] e.id # NoName /\ e.tag # "case" /\ (e.id \in d.ids \/ ~d.case) ->
            [d EXCEPT !.refused = TRUE, !.ids = @ \cup {e.id}]
      [] e.id # NoName /\ e.tag # "case" /\ e.id \notin d.ids /\ d.case ->
            LET read == [d EXCEPT !.ids = @ \cup {e.id}] IN
            CASE e.tag = "stage" -> [read EXCEPT !.stages = Append(@, e)]
              [] e.tag = "milestone" -> [read EXCEPT !.milestones = Append(@, e)]
              [] e.tag = "sentry" -> [read EXCEPT !.sentries = Append(@, e)]

Ids(s) == {s[i].id : i \in DOMAIN s}

SentryRefs(d) == UNION {s.entry \cup s.exit : s \in Range(d.stages) \cup Range(d.milestones)}

\* The end of parse_cmmn: a case, and every reference to a sentry of the document.
ParseCmmn(d) == d.case /\ ~d.refused /\ SentryRefs(d) \subseteq Ids(d.sentries)

---------------------------------------------------------------------------
\* The loader and the definition's own checks.

\* map_case_model: the sealed lists are sorted by identifier, so their order
\* carries nothing; a missing condition is the constant true.
MapCaseModel(d) ==
    [loaded |-> TRUE, stages |-> Range(d.stages), milestones |-> Range(d.milestones),
     sentries |-> Range(d.sentries)]

ValidateCaseDefinition(d) ==
    LET m == MapCaseModel(d) IN
    /\ \A s, t \in m.sentries : s.id = t.id => s = t
    /\ \A s, t \in m.stages \cup m.milestones : s.id = t.id => s = t
    /\ SentryRefs(d) \subseteq Ids(d.sentries)

---------------------------------------------------------------------------
\* The case arms of evolve, one event at a time.

Evolve(c, event) ==
    CASE event.kind = "activated" ->
            [lifecycle |-> "active", satisfied |-> {},
             items |-> [i \in event.items |-> "available"]]
      [] event.kind = "satisfied" -> [c EXCEPT !.satisfied = @ \cup {event.of}]
      [] event.kind = "moved" -> [c EXCEPT !.items[event.of] = event.status]
      [] event.kind = "completed" -> [c EXCEPT !.lifecycle = "completed"]

Rehydrate(c, emitted) == FoldLeft(Evolve, c, emitted)

---------------------------------------------------------------------------
\* decide: the events of the two case commands.

Moved(item, status) == [kind |-> "moved", of |-> item, status |-> status]

ActivateEvents(m) ==
    <<[kind |-> "activated", items |-> {s.id : s \in m.stages \cup m.milestones}]>>
    \o SetToSeq({Moved(s.id, "active") : s \in {t \in m.stages : t.entry = {}}})

Holds(sentry) == sentry.condition = NoCondition \/ facts[sentry.condition] = "true"

\* An absent variable fails the whole evaluation.
Evaluable(c, m) ==
    \A s \in m.sentries :
        s.id \notin c.satisfied /\ s.condition # NoCondition => facts[s.condition] # "absent"

NewlySatisfied(c, m) == {s.id : s \in {t \in m.sentries : t.id \notin c.satisfied /\ Holds(t)}}

\* Governing only the sentries this evaluation satisfied.
AnyFresh(ids, c, fresh) == ids \cap fresh # {}

\* any_sentry_satisfied, over the sentries satisfied before and now.
AnySentrySatisfied(ids, c, fresh) == ids \cap (c.satisfied \cup fresh) # {}

\* The transitions of a stage: it may become active and complete in one evaluation.
StageEvents(c, s, fresh) ==
    LET enters == c.items[s.id] = "available" /\ AnySentrySatisfied(s.entry, c, fresh)
        leaves == /\ enters \/ c.items[s.id] = "active"
                  /\ AnySentrySatisfied(s.exit, c, fresh)
    IN  (IF enters THEN <<Moved(s.id, "active")>> ELSE <<>>)
        \o (IF leaves THEN <<Moved(s.id, "completed")>> ELSE <<>>)

MilestoneEvents(c, s, fresh) ==
    IF c.items[s.id] = "available" /\ AnySentrySatisfied(s.entry, c, fresh)
    THEN <<Moved(s.id, "completed")>> ELSE <<>>

SentryEvents(c, m) ==
    LET fresh == NewlySatisfied(c, m)
        moves == SetToSeq({[kind |-> "satisfied", of |-> s] : s \in fresh})
                 \o FlattenSeq(SetToSeq({StageEvents(c, s, fresh) : s \in m.stages}))
                 \o FlattenSeq(SetToSeq({MilestoneEvents(c, s, fresh) : s \in m.milestones}))
        after == Rehydrate(c, moves).items
    IN  IF DOMAIN after # {} /\ \A i \in DOMAIN after : after[i] = "completed"
        THEN Append(moves, [kind |-> "completed"]) ELSE moves

---------------------------------------------------------------------------
CaseInit ==
    /\ cmmn = EmptyDocument
    /\ definition = NoDefinition
    /\ cases = [k \in CaseKey |-> NoCase]
    /\ facts = [v \in Fact |-> "absent"]

\* The reader goes on after a diagnostic; a refused document is not drawn further.
ReadElement(e) ==
    /\ definition = NoDefinition /\ ~cmmn.refused
    /\ Len(cmmn.stages) + Len(cmmn.milestones) + Len(cmmn.sentries) < MaxElements
    /\ cmmn' = InspectCmmnElement(cmmn, e)
    /\ UNCHANGED <<definition, cases, facts>>

LoadCaseModel ==
    /\ definition = NoDefinition
    /\ ParseCmmn(cmmn) /\ ValidateCaseDefinition(cmmn)
    /\ definition' = MapCaseModel(cmmn)
    /\ UNCHANGED <<cmmn, cases, facts>>

\* A case command is decided whatever the lifecycle of the instance.
ActivateCase(k) ==
    /\ definition # NoDefinition
    /\ cases[k] = NoCase
    /\ cases' = [cases EXCEPT ![k] = Rehydrate(NoCase, ActivateEvents(definition))]
    /\ UNCHANGED <<cmmn, definition, facts>>

EvaluateCaseSentries(k) ==
    /\ cases[k].lifecycle = "active"
    /\ Evaluable(cases[k], definition)
    /\ NewlySatisfied(cases[k], definition) # {}
    /\ cases' = [cases EXCEPT ![k] = Rehydrate(@, SentryEvents(@, definition))]
    /\ UNCHANGED <<cmmn, definition, facts>>

\* The rest of the instance sets and changes its variables.
SetFact(v, b) ==
    /\ definition # NoDefinition
    /\ facts' = [facts EXCEPT ![v] = b]
    /\ UNCHANGED <<cmmn, definition, cases>>

\* WorkflowTerminatedForCompliance drops the cases; they may be activated again.
TerminateForCompliance ==
    /\ \E k \in CaseKey : cases[k] # NoCase
    /\ cases' = [k \in CaseKey |-> NoCase]
    /\ UNCHANGED <<cmmn, definition, facts>>

CaseNext ==
    \/ \E e \in Element : ReadElement(e)
    \/ LoadCaseModel
    \/ \E k \in CaseKey : ActivateCase(k) \/ EvaluateCaseSentries(k)
    \/ \E v \in Fact, b \in {"true", "false"} : SetFact(v, b)
    \/ TerminateForCompliance

CaseSpec == CaseInit /\ [][CaseNext]_caseVars

---------------------------------------------------------------------------
\* Where a plan item is, from the sentries satisfied in the case's life alone.
StageStatus(s, satisfied) ==
    IF s.entry # {} /\ s.entry \cap satisfied = {} THEN "available"
    ELSE IF s.exit \cap satisfied = {} THEN "active" ELSE "completed"

MilestoneStatus(s, satisfied) ==
    IF s.entry \cap satisfied = {} THEN "available" ELSE "completed"

\* The order in which facts arrive and evaluations run leaves no trace: where a
\* stage or milestone is depends only on which sentries have been satisfied, and
\* the case is complete exactly when it has plan items and all of them are
\* (evaluate_case_sentries decides from a stored set and projected statuses).
CaseFollowsItsSentries ==
    \A k \in CaseKey :
        LET c == cases[k] IN
        c # NoCase =>
            /\ \A s \in definition.stages : c.items[s.id] = StageStatus(s, c.satisfied)
            /\ \A s \in definition.milestones : c.items[s.id] = MilestoneStatus(s, c.satisfied)
            /\ (c.lifecycle = "completed") <=>
                    /\ DOMAIN c.items # {}
                    /\ \A i \in DOMAIN c.items : c.items[i] = "completed"
===========================================================================
