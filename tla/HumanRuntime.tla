---------------------------- MODULE HumanRuntime ----------------------------
(***************************************************************************)
(* The human runtime: work items and cases projected from the engine's     *)
(* committed events, completion requests and delegations by users, and the *)
(* escalation of items whose deadline has passed.  The service holds all   *)
(* its state in PostgreSQL; a call, the event consumer and the escalation  *)
(* worker interleave between the transactions.                             *)
(*                                                                         *)
(* A work item is named by its activation event.  The engine, which        *)
(* commits events and answers completion commands, and Kafka, which        *)
(* delivers again whatever was not checkpointed, are external.             *)
(***************************************************************************)
EXTENDS Naturals, Sequences, FiniteSets, Functions

CONSTANTS
    Item,            \* activations of user tasks
    TenantOf,        \* TenantOf[i]: the tenant of item i
    PlaceOf,         \* PlaceOf[i]: instance and node of item i
    User,
    Command,         \* ids of completion commands
    Decision,
    CaseItem,        \* plan items of the one case: stages and milestones
    Stage,           \* those that are stages
    WithDeadline,    \* items whose policy has an SLA duration and an escalation policy
    Escalator,       \* processes that run the escalation worker
    NoCommand,
    NoEscalator,
    MaxDelegationDepth,
    MaxCrashes       \* bound on restarts, failed publications and leases that are too short

VARIABLES
    task,            \* task[i]: the engine's state of the activation
    taskLog,         \* committed events, in the order of the topic
    sent,            \* completion commands that left for the engine
    item,            \* item[i]: the row of work_items
    case,            \* the rows of human_cases and human_case_plan_items
    inbox,           \* human_event_inbox
    fetched,         \* records handled since the consumer started, and before
    offset,          \* the checkpointed offset
    session,         \* session[u]: the call of user u
    overdue,         \* items whose SLA deadline has passed
    escalation,      \* escalation[i]: the row of escalation_outbox
    escalator,       \* escalator[e]: the claims that worker e holds
    humanCrashes

humanVars == <<task, taskLog, sent, item, case, inbox, fetched, offset, session,
               overdue, escalation, escalator, humanCrashes>>

NoItem == [status |-> "none"]
NoSession == [op |-> "none"]
NoEscalation == [state |-> "none", leased |-> FALSE, holder |-> NoEscalator]
NoCase == [status |-> "none", plan |-> [p \in CaseItem |-> "AVAILABLE"]]
Open == {"ACTIVE", "COMPLETION_REQUESTED"}

HumanInit ==
    /\ task = [i \in Item |-> "none"] /\ taskLog = <<>> /\ sent = {}
    /\ item = [i \in Item |-> NoItem] /\ case = NoCase
    /\ inbox = {} /\ fetched = 0 /\ offset = 0
    /\ session = [u \in User |-> NoSession]
    /\ overdue = {} /\ escalation = [i \in Item |-> NoEscalation]
    /\ escalator = [e \in Escalator |-> {}]
    /\ humanCrashes = 0

serviceVars == <<item, case, inbox, fetched, offset, session, overdue, escalation, escalator, humanCrashes>>
escalationVars == <<overdue, escalation, escalator>>
-----------------------------------------------------------------------------
(* The engine: at most one activation of a node is open at a time. *)
TaskAt(p) == {i \in Item : PlaceOf[i] = p /\ task[i] = "active"}

EngineActivates(i) ==
    /\ task[i] = "none"
    /\ TaskAt(PlaceOf[i]) = {}
    /\ task' = [task EXCEPT ![i] = "active"]
    /\ taskLog' = Append(taskLog, [kind |-> "activated", item |-> i])
    /\ UNCHANGED <<sent, serviceVars>>

(* A boundary event cancels the task, or a command that did not pass through  *)
(* the human runtime completes it.                                            *)
EngineEnds(i) ==
    /\ task[i] = "active"
    /\ \/ /\ task' = [task EXCEPT ![i] = "cancelled"]
          /\ taskLog' = Append(taskLog, [kind |-> "cancelled", item |-> i])
       \/ \E d \in Decision :
             /\ task' = [task EXCEPT ![i] = "completed"]
             /\ taskLog' = Append(taskLog, [kind |-> "completed", item |-> i, decision |-> d])
    /\ UNCHANGED <<sent, serviceVars>>

(* The status that the case, or a plan item of it, has at the end of the log. *)
LoggedCase(kind) == \E n \in DOMAIN taskLog : taskLog[n].kind = kind
LoggedPlan(p) == Cardinality({n \in DOMAIN taskLog : taskLog[n].kind = "transition" /\ taskLog[n].plan = p})

EngineCase ==
    /\ CaseItem # {}
    /\ ~LoggedCase("case_completed")
    /\ \/ ~LoggedCase("case") /\ taskLog' = Append(taskLog, [kind |-> "case"])
       \/ \E p \in CaseItem :
             /\ LoggedCase("case")
             /\ LoggedPlan(p) < (IF p \in Stage THEN 2 ELSE 1)
             /\ taskLog' = Append(taskLog, [kind |-> "transition", plan |-> p,
                   to |-> IF p \in Stage /\ LoggedPlan(p) = 0 THEN "ACTIVE" ELSE "COMPLETED"])
       \/ /\ \A p \in CaseItem : LoggedPlan(p) = (IF p \in Stage THEN 2 ELSE 1)
          /\ LoggedCase("case")
          /\ taskLog' = Append(taskLog, [kind |-> "case_completed"])
    /\ UNCHANGED <<task, sent, serviceVars>>
-----------------------------------------------------------------------------
(* The projection.  A transaction records the event in the inbox and changes  *)
(* the rows; an event in the inbox already changes nothing.                   *)
Rows(p, statuses) == {i \in Item : item[i].status \in statuses /\ PlaceOf[i] = p}

(* work_items has UNIQUE NULLS NOT DISTINCT (tenant_id, completion_command_id): *)
(* a tenant has at most one row without a command.                              *)
RowFits(i, command) ==
    \A j \in Item \ {i} : item[j].status # "none" /\ TenantOf[j] = TenantOf[i] => item[j].command # command

ProjectActivation(e) ==
    /\ RowFits(e.item, NoCommand)
    /\ \E u \in User :
          item' = [item EXCEPT ![e.item] = [status |-> "ACTIVE", version |-> 1, assignee |-> u, depth |-> 0,
                                            decision |-> "none", command |-> NoCommand]]
    /\ UNCHANGED case


EndOpen(e, status, decision) ==
    item' = [i \in Item |->
        IF i \in Rows(PlaceOf[e.item], Open)
        THEN [item[i] EXCEPT !.status = status, !.version = @ + 1, !.decision = IF decision = "none" THEN @ ELSE decision]
        ELSE item[i]]

CommitCompletion(e) ==
    /\ Rows(PlaceOf[e.item], Open \cup {"COMPLETED"}) # {}
    /\ EndOpen(e, "COMPLETED", e.decision)
    /\ UNCHANGED case

CommitCancellation(e) ==
    /\ Rows(PlaceOf[e.item], Open) # {}
    /\ EndOpen(e, "CANCELLED", "none")
    /\ UNCHANGED case

ProjectCase ==
    /\ case.status = "none"
    /\ case' = [NoCase EXCEPT !.status = "ACTIVE"]
    /\ UNCHANGED item

CommitCaseTransition(e) ==
    /\ <<case.plan[e.plan], e.to>> \in
          IF e.plan \in Stage THEN {<<"AVAILABLE", "ACTIVE">>, <<"ACTIVE", "COMPLETED">>}
          ELSE {"AVAILABLE", "ACTIVE"} \X {"COMPLETED"}
    /\ case.status # "none"
    /\ case' = [case EXCEPT !.plan[e.plan] = e.to]
    /\ UNCHANGED item

CommitCaseCompletion ==
    /\ case.status = "ACTIVE"
    /\ case' = [case EXCEPT !.status = "COMPLETED"]
    /\ UNCHANGED item

Handle(e) ==
    \/ e.kind = "activated" /\ ProjectActivation(e)
    \/ e.kind = "completed" /\ CommitCompletion(e)
    \/ e.kind = "cancelled" /\ CommitCancellation(e)
    \/ e.kind = "case" /\ ProjectCase
    \/ e.kind = "transition" /\ CommitCaseTransition(e)
    \/ e.kind = "case_completed" /\ CommitCaseCompletion

ConsumeRecord ==
    LET n == fetched + 1 IN
    /\ n <= Len(taskLog) /\ fetched = offset
    /\ fetched' = n
    /\ inbox' = inbox \cup {n}
    /\ IF n \in inbox THEN UNCHANGED <<item, case>> ELSE Handle(taskLog[n])
    /\ UNCHANGED <<task, taskLog, sent, offset, session, escalationVars, humanCrashes>>

(* CommitRecords follows the transaction of each record. *)
CommitRecord ==
    /\ offset < fetched
    /\ offset' = fetched
    /\ UNCHANGED <<task, taskLog, sent, item, case, inbox, fetched, session, escalationVars, humanCrashes>>
-----------------------------------------------------------------------------
(* A call of user u.  Complete reads the row; a row that is not yet requested *)
(* must have the version the user expects.  The user may act on the item, and *)
(* a second call for a requested item must repeat the command.                *)
CanAct(u, i) == item[i].status # "none" /\ item[i].assignee = u

RepeatsRequest(i, command, decision) == item[i].command = command /\ item[i].decision = decision

Complete(u, i, command, decision) ==
    /\ session[u].op = "none"
    /\ CanAct(u, i)
    /\ \/ /\ item[i].status = "ACTIVE"
          /\ session' = [session EXCEPT ![u] =
                [op |-> "request", item |-> i, version |-> item[i].version, command |-> command, decision |-> decision]]
       \/ /\ item[i].status = "COMPLETION_REQUESTED"
          /\ RepeatsRequest(i, command, decision)
          /\ session' = [session EXCEPT ![u] = [op |-> "send", item |-> i, command |-> command, decision |-> decision]]
    /\ UNCHANGED <<task, taskLog, sent, item, case, inbox, fetched, offset, escalationVars, humanCrashes>>

Delegate(u, i, to) ==
    /\ session[u].op = "none"
    /\ CanAct(u, i)
    /\ item[i].status = "ACTIVE"
    /\ item[i].depth < MaxDelegationDepth
    /\ session' = [session EXCEPT ![u] = [op |-> "delegate", item |-> i, version |-> item[i].version,
                                          to |-> to, depth |-> item[i].depth + 1]]
    /\ UNCHANGED <<task, taskLog, sent, item, case, inbox, fetched, offset, escalationVars, humanCrashes>>

(* updateWorkItem: only the version that the call has read. *)
UnchangedSince(s) == item[s.item].version = s.version

StoreRequest(u) ==
    LET s == session[u] IN
    /\ s.op = "request"
    /\ IF UnchangedSince(s) /\ RowFits(s.item, s.command)
       THEN /\ item' = [item EXCEPT ![s.item] = [@ EXCEPT !.status = "COMPLETION_REQUESTED", !.version = s.version + 1,
                                                           !.decision = s.decision, !.command = s.command]]
            /\ session' = [session EXCEPT ![u] = [op |-> "send", item |-> s.item, command |-> s.command, decision |-> s.decision]]
       ELSE UNCHANGED item /\ session' = [session EXCEPT ![u] = NoSession]
    /\ UNCHANGED <<task, taskLog, sent, case, inbox, fetched, offset, escalationVars, humanCrashes>>

StoreDelegation(u) ==
    LET s == session[u] IN
    /\ s.op = "delegate"
    /\ item' = IF UnchangedSince(s)
               THEN [item EXCEPT ![s.item] = [@ EXCEPT !.assignee = s.to, !.depth = s.depth, !.version = s.version + 1]]
               ELSE item
    /\ session' = [session EXCEPT ![u] = NoSession]
    /\ UNCHANGED <<task, taskLog, sent, case, inbox, fetched, offset, escalationVars, humanCrashes>>

(* The command names the node, not the activation.  The engine completes the  *)
(* task that is open there, answers a command it has seen with its receipt,   *)
(* or refuses; or the call fails before it reaches the engine.                *)
SendCommand(u) ==
    LET s == session[u]
        c == [item |-> s.item, command |-> s.command, decision |-> s.decision, user |-> u]
        seen == \E d \in sent : d.command = s.command /\ TenantOf[d.item] = TenantOf[s.item]
    IN
    /\ s.op = "send"
    /\ session' = [session EXCEPT ![u] = NoSession]
    /\ \/ UNCHANGED <<task, taskLog, sent>>
       \/ /\ sent' = sent \cup {c}
          /\ IF seen THEN UNCHANGED <<task, taskLog>>
             ELSE \/ \E i \in TaskAt(PlaceOf[s.item]) :
                        /\ task' = [task EXCEPT ![i] = "completed"]
                        /\ taskLog' = Append(taskLog, [kind |-> "completed", item |-> i, decision |-> s.decision])
                  \/ TaskAt(PlaceOf[s.item]) = {} /\ UNCHANGED <<task, taskLog>>
    /\ UNCHANGED <<item, case, inbox, fetched, offset, escalationVars, humanCrashes>>
-----------------------------------------------------------------------------
(* Escalation.  A claim first gives every overdue open item its outbox row,   *)
(* then takes rows that are due and not under lease.                          *)
DeadlinePasses(i) ==
    /\ i \in WithDeadline \ overdue
    /\ item[i].status # "none"
    /\ overdue' = overdue \cup {i}
    /\ UNCHANGED <<task, taskLog, sent, item, case, inbox, fetched, offset, session, escalation, escalator, humanCrashes>>

Inserted(i) == i \in overdue /\ item[i].status = "ACTIVE" /\ escalation[i].state = "none"

(* A bug: a row that has a holder stays with it. *)
ClaimableForHolder(i) == (Inserted(i) \/ escalation[i].state = "due") /\ escalation[i].holder = NoEscalator

ClaimableRow(i) == (Inserted(i) \/ escalation[i].state = "due") /\ ~escalation[i].leased

ClaimDueEscalations(e) ==
    /\ escalator[e] = {}
    /\ \E i \in Item :
          /\ ClaimableRow(i)
          /\ escalation' = [j \in Item |->
                IF j = i THEN [state |-> "due", leased |-> TRUE, holder |-> e]
                ELSE IF Inserted(j) THEN [NoEscalation EXCEPT !.state = "due"] ELSE escalation[j]]
          /\ escalator' = [escalator EXCEPT ![e] = {i}]
    /\ UNCHANGED <<task, taskLog, sent, item, case, inbox, fetched, offset, session, overdue, humanCrashes>>

(* AckEscalation after the broker's acknowledgement: not for a row that       *)
(* another worker has claimed or published since.                             *)
PublishEscalation(e, i) ==
    /\ i \in escalator[e]
    /\ escalation' = IF escalation[i].state = "due" /\ escalation[i].holder = e
                     THEN [escalation EXCEPT ![i] = [NoEscalation EXCEPT !.state = "published"]]
                     ELSE escalation
    /\ escalator' = [escalator EXCEPT ![e] = @ \ {i}]
    /\ UNCHANGED <<task, taskLog, sent, item, case, inbox, fetched, offset, session, overdue, humanCrashes>>

HumanFault == humanCrashes < MaxCrashes /\ humanCrashes' = humanCrashes + 1

(* The broker fails, or the process stops: RetryEscalation, or the lease      *)
(* stays until it runs out.                                                   *)
EscalationFails(e, i) ==
    /\ i \in escalator[e]
    /\ HumanFault
    /\ escalation' \in {escalation,
          IF escalation[i].state = "due" /\ escalation[i].holder = e
          THEN [escalation EXCEPT ![i] = [NoEscalation EXCEPT !.state = "due"]] ELSE escalation}
    /\ escalator' = [escalator EXCEPT ![e] = {}]
    /\ UNCHANGED <<task, taskLog, sent, item, case, inbox, fetched, offset, session, overdue>>

(* Also while the holder is at work: then the lease was too short. *)
EscalationLeaseEnds(i) ==
    /\ escalation[i].leased
    /\ escalation' = [escalation EXCEPT ![i].leased = FALSE]
    /\ IF \E e \in Escalator : i \in escalator[e] /\ escalation[i].holder = e THEN HumanFault ELSE UNCHANGED humanCrashes
    /\ UNCHANGED <<task, taskLog, sent, item, case, inbox, fetched, offset, session, overdue, escalator>>

(* The service restarts: calls are lost, and the consumer starts from its     *)
(* checkpoint.                                                                *)
HumanCrash ==
    /\ HumanFault
    /\ session' = [u \in User |-> NoSession]
    /\ fetched' = offset
    /\ UNCHANGED <<task, taskLog, sent, item, case, inbox, offset, escalationVars>>
-----------------------------------------------------------------------------
Consumer == ConsumeRecord \/ CommitRecord
Escalate(e) == ClaimDueEscalations(e) \/ \E i \in Item : PublishEscalation(e, i)

HumanNext ==
    \/ \E i \in Item : EngineActivates(i) \/ EngineEnds(i) \/ DeadlinePasses(i) \/ EscalationLeaseEnds(i)
    \/ EngineCase
    \/ Consumer
    \/ \E u \in User, i \in Item :
          \/ \E c \in Command, d \in Decision : Complete(u, i, c, d)
          \/ \E v \in User : Delegate(u, i, v)
    \/ \E u \in User : StoreRequest(u) \/ StoreDelegation(u) \/ SendCommand(u)
    \/ \E e \in Escalator : Escalate(e) \/ \E i \in Item : EscalationFails(e, i)
    \/ HumanCrash

(* The consumer and the workers loop, and leases run out.  Nothing is assumed *)
(* of users or of the engine.                                                 *)
HumanFairness ==
    /\ WF_humanVars(Consumer)
    /\ \A e \in Escalator : WF_humanVars(Escalate(e))
    /\ \A i \in Item : WF_humanVars(EscalationLeaseEnds(i))

HumanSpec == HumanInit /\ [][HumanNext]_humanVars /\ HumanFairness
-----------------------------------------------------------------------------
(* The rows are the replay of the events in the inbox, which are a prefix of  *)
(* the log, whatever was delivered twice: an item ends as its own activation  *)
(* ended, with the decision the engine committed, also when its node was      *)
(* activated several times; and plan items stand where the log left them.     *)
EndOf(i) == {n \in inbox : taskLog[n].kind \in {"completed", "cancelled"} /\ taskLog[n].item = i}


(* A work item has one intent: every command sent to the engine for it, by    *)
(* whatever retry or concurrent call, carries the command and the decision in *)
(* the row, and was sent by the user whom the row names, so that a delegation *)
(* that raced with it was not applied after the request.                      *)
OneIntentPerItem ==
    \A c \in sent :
        /\ item[c.item].command = c.command
        /\ item[c.item].assignee = c.user
        /\ item[c.item].status # "COMPLETED" => item[c.item].decision = c.decision

(* Every committed event reaches the tables, and an item that is overdue and  *)
(* stays open is escalated, although workers fail while they hold its lease.  *)
EventsAndDeadlinesSettle ==
    /\ \A n \in 1..(4 * Cardinality(Item)) : Len(taskLog) >= n ~> n \in inbox
    /\ \A i \in Item : (i \in overdue /\ item[i].status = "ACTIVE")
                          ~> (escalation[i].state = "published" \/ item[i].status # "ACTIVE")
=============================================================================
