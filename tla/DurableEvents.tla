--------------------------- MODULE DurableEvents ---------------------------
(***************************************************************************)
(* What the engine writes to an event stream and what it reads back        *)
(* (bpmp-engine/src/event_codec.rs).  The decoder validates every field    *)
(* again: a text it takes for blank, a zero where it wants a count, or a   *)
(* name it does not know makes the stream unreadable for ever.  Whether    *)
(* that can happen is decided far from the codec: by the loader of the     *)
(* compiled workflow, by the two transports that take commands, by the     *)
(* decision of the domain, and by the governance handler.                  *)
(*                                                                         *)
(* A step loads an element of a workflow, or handles one command on the    *)
(* loaded element and commits its events.  Which events follow which is    *)
(* WorkflowTokens; here an event is what its fields hold.                  *)
(***************************************************************************)
EXTENDS Naturals, SequencesExt, TLC

CONSTANTS
    Text,             \* the texts that a document or a request may hold
    Empty,            \* the text without characters
    Blank,            \* the texts that trim to nothing, Empty among them
    Artifact,         \* compiled elements, as the artifact holds them
    Request,          \* the envelopes of commands
    Output,           \* the outputs that a completion may carry, as sent
    Collection,       \* the lists that a multi-instance activity may iterate
    Scalar,           \* the values that a decision table may return
    Numbers,          \* counts and times, 0 among them
    Absent            \* no text, no value, no element

VARIABLES
    element,   \* the element that is loaded
    written    \* the events of the last command, as committed

durableVars == <<element, written>>

Id == Text \ Blank

(* TenantId::new and the other identifiers; non_empty. *)
NonEmpty(t) == t \notin Blank

(* The fields of every DomainEvent, with the rule by which each is written. *)
Fields(kind) ==
    CASE kind = "WorkflowStarted" ->
            [tenant_id |-> "id", workflow_type |-> "id", workflow_version |-> "id",
             start_node_id |-> "id"]
      [] kind = "ServiceTaskActivated" -> [node_id |-> "id", task_type |-> "id"]
      [] kind = "ServiceTaskCompleted" -> [node_id |-> "id", outputs |-> "variables"]
      [] kind = "UserTaskActivated" ->
            [node_id |-> "id", task_type |-> "id", assignment_policy_ref |-> "text",
             form_key |-> "option"]
      [] kind = "UserTaskCompleted" ->
            [node_id |-> "id", decision |-> "text", result_variable |-> "text"]
      [] kind = "UserTaskCancelled" -> [node_id |-> "id", reason |-> "text"]
      [] kind = "ScriptTaskActivated" ->
            [node_id |-> "id", task_type |-> "id", implementation_ref |-> "text",
             implementation_version |-> "text"]
      [] kind = "ScriptTaskCompleted" -> [node_id |-> "id"]
      [] kind = "DecisionTaskEvaluated" ->
            [node_id |-> "id", decision_table_id |-> "text", outputs |-> "variables"]
      [] kind = "GatewaySplitActivated" ->
            [gateway_id |-> "id", join_gateway_id |-> "id", selected_targets |-> "ids"]
      [] kind \in {"GatewayTokenArrived", "GatewayJoined"} -> [gateway_id |-> "id"]
      [] kind = "BoundaryEventArmed" ->
            [boundary_event_id |-> "id", attached_node_id |-> "id", target_node_id |-> "id",
             cancel_activity |-> "flag", trigger |-> "trigger"]
      [] kind = "BoundaryEventsDisarmed" ->
            [attached_node_id |-> "id", boundary_event_ids |-> "ids"]
      [] kind = "BoundaryEventTriggered" ->
            [boundary_event_id |-> "id", attached_node_id |-> "id", target_node_id |-> "id",
             cancel_activity |-> "flag", cancelled_iterations |-> "numbers",
             cancelled_task_tokens |-> "number"]
      [] kind = "MultiInstanceStarted" ->
            [node_id |-> "id", task_type |-> "id", mode |-> "mode", total_instances |-> "number",
             max_parallelism |-> "positive", item_variable |-> "option", items |-> "values"]
      [] kind = "MultiInstanceIterationActivated" ->
            [node_id |-> "id", task_type |-> "id", iteration |-> "number", item |-> "value"]
      [] kind = "MultiInstanceIterationCompleted" -> [node_id |-> "id", iteration |-> "number"]
      [] kind = "MultiInstanceCompleted" ->
            [node_id |-> "id", completion_condition_satisfied |-> "flag",
             cancelled_iterations |-> "numbers"]
      [] kind = "ScopeEntered" ->
            [scope_instance_id |-> "id", scope_node_id |-> "id", start_node_id |-> "id",
             parent_scope_instance_id |-> "presence", invocation |-> "positive"]
      [] kind = "ScopeCompleted" -> 
            [scope_instance_id |-> "id", scope_node_id |-> "id", end_node_id |-> "id"]
      [] kind = "WorkflowBranchCompleted" -> [end_node_id |-> "id"]
      [] kind = "WorkflowCompleted" -> <<>>
      [] kind = "WorkflowTerminatedForCompliance" ->
            [policy_id |-> "text", request_digest |-> "digest", reason_code |-> "text",
             reconciliation_count |-> "number"]
      [] kind = "CaseActivated" ->
            [case_id |-> "id", case_model_id |-> "id", stage_ids |-> "ids", milestone_ids |-> "ids"]
      [] kind = "CaseSentrySatisfied" -> [case_id |-> "id", sentry_id |-> "id"]
      [] kind = "CasePlanItemTransitioned" ->
            [case_id |-> "id", plan_item_id |-> "id", kind |-> "itemKind", status |-> "itemStatus",
             satisfied_sentry_ids |-> "ids"]
      [] kind = "CaseCompleted" -> [case_id |-> "id"]
-----------------------------------------------------------------------------
(* workflow_value_to_wire, workflow_value_item_to_wire and their inverses: a   *)
(* value is a case of a oneof, and a list holds values again.                  *)
Cases == [boolean |-> "boolean_value", integer |-> "integer_value",
          string |-> "string_value", list |-> "list_value"]

RECURSIVE ValueToWire(_)
ValueToWire(v) ==
    [case |-> Cases[v.type],
     value |-> IF v.type = "list" THEN [i \in DOMAIN v.value |-> ValueToWire(v.value[i])]
               ELSE v.value]

RECURSIVE ValueFromWire(_)
ValueFromWire(w) ==
    [type |-> CHOOSE t \in DOMAIN Cases : Cases[t] = w.case,
     value |-> IF w.case = "list_value" THEN [i \in DOMAIN w.value |-> ValueFromWire(w.value[i])]
               ELSE w.value]

(* A map of variables, in the order of its names. *)
VariablesToWire(m) ==
    LET names == SetToSeq(DOMAIN m)
    IN  [i \in DOMAIN names |-> [name |-> names[i], value |-> ValueToWire(m[names[i]])]]

VariablesFromWire(w) ==
    [n \in {w[i].name : i \in DOMAIN w} |->
        ValueFromWire(w[CHOOSE i \in DOMAIN w :
                            /\ w[i].name = n
                            /\ \A j \in DOMAIN w : w[j].name = n => j <= i].value)]

(* boundary_trigger_to_wire and its inverse: an error without a reference is   *)
(* written with the empty text.                                                *)
Timers == [Date |-> "TimerDate", Duration |-> "TimerDuration", Cycle |-> "TimerCycle"]

TriggerToWire(t) ==
    [kind |-> IF t.type = "Timer" THEN Timers[t.kind] ELSE t.type,
     reference |-> IF t.reference = Absent THEN Empty ELSE t.reference]

TriggerReads(w) == w.kind # "Error" => NonEmpty(w.reference)

TriggerFromWire(w) ==
    IF w.kind = "Error"
    THEN [type |-> "Error", reference |-> IF NonEmpty(w.reference) THEN w.reference ELSE Absent]
    ELSE IF w.kind = "Message" THEN [type |-> "Message", reference |-> w.reference]
    ELSE [type |-> "Timer", kind |-> CHOOSE k \in DOMAIN Timers : Timers[k] = w.kind,
          reference |-> w.reference]

(* One field, to and from the wire. *)
ItemNames == [Stage |-> "STAGE", Milestone |-> "MILESTONE", Available |-> "AVAILABLE",
              Active |-> "ACTIVE", Completed |-> "COMPLETED"]

FieldToWire(rule, v) ==
    CASE rule = "option"    -> IF v = Absent THEN Empty ELSE v
      [] rule = "variables" -> VariablesToWire(v)
      [] rule = "values"    -> [i \in DOMAIN v |-> ValueToWire(v[i])]
      [] rule = "value"     -> IF v = Absent THEN Absent ELSE ValueToWire(v)
      [] rule = "trigger"   -> TriggerToWire(v)
      [] rule \in {"itemKind", "itemStatus"} -> ItemNames[v]
      [] OTHER -> v

FieldReads(rule, w) ==
    CASE rule \in {"id", "text"} -> NonEmpty(w)
      [] rule = "ids"       -> \A i \in DOMAIN w : NonEmpty(w[i])
      [] rule = "presence"  -> w # Absent => NonEmpty(w)
      [] rule = "positive"  -> w > 0
      [] rule = "variables" -> \A i \in DOMAIN w : NonEmpty(w[i].name)
      [] rule = "trigger"   -> TriggerReads(w)
      [] rule = "mode"      -> w \in {"Sequential", "Parallel"}
      [] rule = "itemKind"  -> w \in {"STAGE", "MILESTONE"}
      [] rule = "itemStatus" -> w \in {"AVAILABLE", "ACTIVE", "COMPLETED"}
      [] OTHER -> TRUE

FieldFromWire(rule, w) ==
    CASE rule = "option"    -> IF NonEmpty(w) THEN w ELSE Absent
      [] rule = "variables" -> VariablesFromWire(w)
      [] rule = "values"    -> [i \in DOMAIN w |-> ValueFromWire(w[i])]
      [] rule = "value"     -> IF w = Absent THEN Absent ELSE ValueFromWire(w)
      [] rule = "trigger"   -> TriggerFromWire(w)
      [] rule \in {"itemKind", "itemStatus"} -> CHOOSE n \in DOMAIN ItemNames : ItemNames[n] = w
      [] OTHER -> w

(* to_wire: the time of the event is not written, only that of the metadata. *)
SchemaVersion == 1

ToWire(envelope) ==
    LET rules == Fields(envelope.kind)
    IN  [metadata |-> envelope.metadata, kind |-> envelope.kind,
         fields |-> [f \in DOMAIN rules |-> FieldToWire(rules[f], envelope.fields[f])]]

(* upcast: records of schema 0 hold the same fields. *)
Upcast(wire) ==
    IF wire.metadata.schema_version = 0
    THEN [wire EXCEPT !.metadata.schema_version = SchemaVersion] ELSE wire

MetadataIds == {"tenant_id", "instance_id", "correlation_id", "causation_command_id",
                "encryption_key_scope"}

(* from_wire; Absent stands for its errors. *)
FromWire(wire) ==
    LET rules == Fields(wire.kind)
        reads == /\ wire.metadata.schema_version = SchemaVersion
                 /\ \A i \in MetadataIds : NonEmpty(wire.metadata[i])
                 /\ \A f \in DOMAIN rules : FieldReads(rules[f], wire.fields[f])
                 /\ wire.kind = "WorkflowStarted" =>
                        wire.fields.tenant_id = wire.metadata.tenant_id
    IN  IF reads
        THEN [metadata |-> wire.metadata, kind |-> wire.kind, at |-> wire.metadata.occurred_at,
              fields |-> [f \in DOMAIN rules |-> FieldFromWire(rules[f], wire.fields[f])]]
        ELSE Absent
-----------------------------------------------------------------------------
(* The texts of an element before the engine runs it.                          *)

(* optional_non_empty_attribute of the compiler: an attribute that is blank is *)
(* as good as absent, and the artifact holds the empty text for it.            *)
Compiles(e) ==
    /\ e.kind = "multi" => (NonEmpty(e.item) \/ e.item = Empty)
    /\ e.trigger # Absent /\ e.trigger.type = "Error" =>
           (NonEmpty(e.trigger.reference) \/ e.trigger.reference = Empty)

Option(t) == IF t = Empty THEN Absent ELSE t

(* map_definition, map_multi_instance and map_boundary_event of the loader,    *)
(* and validate_node_metadata of the domain.                                   *)
Loads(e) ==
    /\ e.kind = "user" =>
           NonEmpty(e.policy) /\ NonEmpty(e.result) /\ (e.form = Empty \/ NonEmpty(e.form))
    /\ e.kind = "script" => NonEmpty(e.ref) /\ NonEmpty(e.version)
    /\ e.kind = "decision" => NonEmpty(e.table) /\ \A i \in DOMAIN e.outputs : NonEmpty(e.outputs[i])
    /\ e.kind = "multi" => (e.collection => Option(e.item) # Absent)
    /\ e.trigger # Absent /\ e.trigger.type # "Error" => NonEmpty(e.trigger.reference)

Loaded(e) ==
    LET f == IF e.kind = "user" THEN [e EXCEPT !.form = Option(@)]
             ELSE IF e.kind = "multi" THEN [e EXCEPT !.item = Option(@)] ELSE e
    IN  IF f.trigger # Absent /\ f.trigger.type = "Error"
        THEN [f EXCEPT !.trigger.reference = Option(@)] ELSE f

LoadElement(e) ==
    /\ element = Absent
    /\ Compiles(e) /\ Loads(e)
    /\ element' = Loaded(e)
    /\ UNCHANGED written
-----------------------------------------------------------------------------
(* parse_scope and map_authorized_command. *)
Accepts(r) == (\A i \in MetadataIds : NonEmpty(r[i])) /\ r.at # 0

Event(kind, r, fields) == [kind |-> kind, at |-> r.at, fields |-> fields]

(* attach_metadata: the time of the metadata is event_time of the event. *)
AttachMetadata(r, events) ==
    [i \in DOMAIN events |->
        [metadata |-> [f \in MetadataIds |-> r[f]]
                          @@ [sequence |-> i, schema_version |-> SchemaVersion,
                              occurred_at |-> events[i].at],
         kind |-> events[i].kind, at |-> events[i].at, fields |-> events[i].fields]]

Handle(r, events) ==
    /\ Accepts(r)
    /\ written' = AttachMetadata(r, events)
    /\ UNCHANGED element

Node == CHOOSE t \in Id : TRUE

(* start_multi_instance for a collection, or a cardinality, of total items. *)
MaxParallelismOf(e, default, total) ==
    LET asked == IF e.mode = "Sequential" THEN 1 ELSE IF e.declared = 0 THEN default ELSE e.declared
    IN  IF asked < total THEN asked ELSE total

MaxParallelism(e, default, total) ==
    LET asked == IF e.mode = "Sequential" THEN 1 ELSE IF e.declared = 0 THEN default ELSE e.declared
        most  == IF total = 0 THEN 1 ELSE total
    IN  IF asked < most THEN asked ELSE most

StartMultiInstance(r, e, default, total, items) ==
    LET parallel == MaxParallelism(e, default, total)
        started == Event("MultiInstanceStarted", r,
            [node_id |-> Node, task_type |-> Node, mode |-> e.mode, total_instances |-> total,
             max_parallelism |-> parallel, item_variable |-> e.item, items |-> items])
        ended == Event("MultiInstanceCompleted", r,
            [node_id |-> Node, completion_condition_satisfied |-> FALSE,
             cancelled_iterations |-> <<>>])
        iteration(i) == Event("MultiInstanceIterationActivated", r,
            [node_id |-> Node, task_type |-> Node, iteration |-> i - 1,
             item |-> IF i \in DOMAIN items THEN items[i] ELSE Absent])
    IN  <<started>> \o (IF total = 0 THEN <<ended>> ELSE [i \in 1..parallel |-> iteration(i)])

(* What activation_events and arm_boundary_events add for the element. *)
Activation(r, e, default, total, items, values) ==
    CASE e.kind = "service" ->
            <<Event("ServiceTaskActivated", r, [node_id |-> Node, task_type |-> Node])>>
      [] e.kind = "user" ->
            <<Event("UserTaskActivated", r,
                [node_id |-> Node, task_type |-> Node, assignment_policy_ref |-> e.policy,
                 form_key |-> e.form])>>
      [] e.kind = "script" ->
            <<Event("ScriptTaskActivated", r,
                [node_id |-> Node, task_type |-> Node, implementation_ref |-> e.ref,
                 implementation_version |-> e.version])>>
      [] e.kind = "decision" ->
            <<Event("DecisionTaskEvaluated", r,
                [node_id |-> Node, decision_table_id |-> e.table,
                 outputs |-> [n \in Range(e.outputs) |-> values]])>>
      [] e.kind = "multi" -> StartMultiInstance(r, e, default, total, items)

Armed(r, e) ==
    IF e.trigger = Absent THEN <<>>
    ELSE <<Event("BoundaryEventArmed", r,
             [boundary_event_id |-> Node, attached_node_id |-> Node, target_node_id |-> Node,
              cancel_activity |-> TRUE, trigger |-> e.trigger])>>
-----------------------------------------------------------------------------
(* The commands. *)
StartWorkflow(r, default, total, items, value) ==
    /\ element # Absent
    /\ default > 0
    /\ element.kind = "multi" => (IF element.collection THEN total = Len(items) ELSE items = <<>>)
    /\ Handle(r, <<Event("WorkflowStarted", r,
                       [tenant_id |-> r.tenant_id, workflow_type |-> Node,
                        workflow_version |-> Node, start_node_id |-> Node])>>
                 \o Armed(r, element)
                 \o Activation(r, element, default, total, items, value))

(* map_workflow_variables of the command transport, and workflow_outputs of    *)
(* the remote worker transport, which alone takes lists.                       *)
MapsOutputs(outputs, remote) ==
    /\ \A i \in DOMAIN outputs :
           /\ NonEmpty(outputs[i].name) /\ outputs[i].value # Absent
           /\ ~remote => outputs[i].value.type # "list"
    /\ \A i, j \in DOMAIN outputs : outputs[i].name = outputs[j].name => i = j

CompleteServiceTask(r, outputs, remote) ==
    /\ element # Absent /\ element.kind = "service"
    /\ MapsOutputs(outputs, remote)
    /\ Handle(r, <<Event("ServiceTaskCompleted", r,
                       [node_id |-> Node,
                        outputs |-> [n \in {outputs[i].name : i \in DOMAIN outputs} |->
                                        outputs[CHOOSE i \in DOMAIN outputs :
                                                    outputs[i].name = n].value]])>>)

(* decide refuses a decision that is blank. *)
CompleteUserTask(r, decision) ==
    /\ element # Absent /\ element.kind = "user"
    /\ NonEmpty(decision)
    /\ Handle(r, <<Event("UserTaskCompleted", r,
                       [node_id |-> Node, decision |-> decision,
                        result_variable |-> element.result]),
                   Event("BoundaryEventsDisarmed", r,
                       [attached_node_id |-> Node, boundary_event_ids |-> <<Node>>])>>)

CompleteScriptTask(r) ==
    /\ element # Absent /\ element.kind = "script"
    /\ Handle(r, <<Event("ScriptTaskCompleted", r, [node_id |-> Node])>>)

CompleteIteration(r, i) ==
    /\ element # Absent /\ element.kind = "multi"
    /\ Handle(r, <<Event("MultiInstanceIterationCompleted", r, [node_id |-> Node, iteration |-> i]),
                   Event("MultiInstanceCompleted", r,
                       [node_id |-> Node, completion_condition_satisfied |-> i = 0,
                        cancelled_iterations |-> IF i = 0 THEN <<0, 1>> ELSE <<>>])>>)

(* trigger_boundary_event: the reason for the cancellation names the event. *)
TriggerBoundaryEvent(r, cancel) ==
    /\ element # Absent /\ element.trigger # Absent
    /\ Handle(r, <<Event("BoundaryEventTriggered", r,
                       [boundary_event_id |-> Node, attached_node_id |-> Node,
                        target_node_id |-> Node, cancel_activity |-> cancel,
                        cancelled_iterations |-> IF element.kind = "multi" /\ cancel
                                                 THEN <<0, 1>> ELSE <<>>,
                        cancelled_task_tokens |-> IF cancel /\ element.kind # "multi"
                                                  THEN 1 ELSE 0])>>
                 \o (IF cancel /\ element.kind = "user"
                     THEN <<Event("UserTaskCancelled", r, [node_id |-> Node, reason |-> Node])>>
                     ELSE <<>>))

(* The events of routing: their fields are identifiers of the definition and   *)
(* counts; the invocations of a scope are counted from 1.                      *)
RouteTokens(r, parent, invocation) ==
    /\ element # Absent /\ invocation > 0
    /\ parent # Absent => NonEmpty(parent)
    /\ Handle(r, <<Event("GatewaySplitActivated", r,
                       [gateway_id |-> Node, join_gateway_id |-> Node,
                        selected_targets |-> <<Node, Node>>]),
                   Event("GatewayTokenArrived", r, [gateway_id |-> Node]),
                   Event("GatewayJoined", r, [gateway_id |-> Node]),
                   Event("ScopeEntered", r,
                       [scope_instance_id |-> Node, scope_node_id |-> Node,
                        start_node_id |-> Node, parent_scope_instance_id |-> parent,
                        invocation |-> invocation]),
                   Event("ScopeCompleted", r,
                       [scope_instance_id |-> Node, scope_node_id |-> Node, end_node_id |-> Node]),
                   Event("WorkflowBranchCompleted", r, [end_node_id |-> Node]),
                   Event("WorkflowCompleted", r, <<>>)>>)

(* ActivateCase and EvaluateCaseSentries; map_command checks the two texts. *)
EvaluateCase(r, case, model, kind, status) ==
    /\ element # Absent /\ NonEmpty(case) /\ NonEmpty(model)
    /\ Handle(r, <<Event("CaseActivated", r,
                       [case_id |-> case, case_model_id |-> model, stage_ids |-> <<Node>>,
                        milestone_ids |-> <<>>]),
                   Event("CaseSentrySatisfied", r, [case_id |-> case, sentry_id |-> Node]),
                   Event("CasePlanItemTransitioned", r,
                       [case_id |-> case, plan_item_id |-> Node, kind |-> kind, status |-> status,
                        satisfied_sentry_ids |-> <<Node>>]),
                   Event("CaseCompleted", r, [case_id |-> case])>>)

(* load_scope and validate_request: the governance handler checks the policy   *)
(* and the reason before it builds its one event.                              *)
Terminate(r, policy, reason, count) ==
    /\ element # Absent /\ NonEmpty(policy) /\ NonEmpty(reason)
    /\ Handle(r, <<Event("WorkflowTerminatedForCompliance", r,
                       [policy_id |-> policy, request_digest |-> "digest",
                        reason_code |-> reason, reconciliation_count |-> count])>>)

DurableInit == element = Absent /\ written = <<>>

Commands(r) ==
    \/ \E d, n \in Numbers, s \in Collection, v \in Scalar : StartWorkflow(r, d, n, s, v)
    \/ \E o \in Output, b \in BOOLEAN : CompleteServiceTask(r, o, b)
    \/ \E t \in Text : CompleteUserTask(r, t)
    \/ CompleteScriptTask(r)
    \/ \E i \in Numbers : CompleteIteration(r, i)
    \/ \E b \in BOOLEAN : TriggerBoundaryEvent(r, b)
    \/ \E t \in Text \cup {Absent}, n \in Numbers : RouteTokens(r, t, n)
    \/ \E t, u \in Text, k \in {"Stage", "Milestone"}, s \in {"Available", "Active", "Completed"} :
           EvaluateCase(r, t, u, k, s)
    \/ \E t, u \in Text, n \in Numbers : Terminate(r, t, u, n)

DurableNext ==
    \/ \E e \in Artifact : LoadElement(e)
    \/ \E r \in Request : Commands(r)
-----------------------------------------------------------------------------
(* Every event that a command commits is read back as it was written, under    *)
(* the present schema and under schema 0: whatever the texts and counts of     *)
(* the workflow, of the command and of its outputs, one of the checks on the   *)
(* way (loader, transports, decide, governance) turned away all that the       *)
(* decoder would refuse or change (EventCodec::encode and EventCodec::decode). *)
CommittedEventsReadBack ==
    \A i \in DOMAIN written :
        LET wire == ToWire(written[i])
            old  == [wire EXCEPT !.metadata.schema_version = 0]
        IN  FromWire(Upcast(wire)) = written[i] /\ FromWire(Upcast(old)) = written[i]
=============================================================================
