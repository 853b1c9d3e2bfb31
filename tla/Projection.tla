----------------------------- MODULE Projection -----------------------------
(***************************************************************************)
(* The projection service's own state: the read model it builds from the   *)
(* engine's event topic, and the exports it renders in the background.     *)
(*                                                                         *)
(* The topic repeats records: the engine's outbox relay resumes from its   *)
(* checkpoint after a crash.  A replica handles the records of a batch one *)
(* by one, each in a transaction of its own, and commits the offset once   *)
(* for the batch.  After a rebalance two replicas may work on the same     *)
(* records.  What a query reads of the rows is in ProcessQueries.          *)
(***************************************************************************)
EXTENDS Naturals, Sequences, FiniteSets

CONSTANTS
    Flow,               \* workflow instances
    Projector,          \* replicas of the service
    ProjectBatch,       \* records of a batch
    MaxFlowEvents,      \* bound: events of an instance
    MaxReplays,         \* bound: times the relay resumes from a checkpoint
    Export,
    MaxProjectFaults,   \* bound: crashes, failures, rebalances
    NoExport

VARIABLES
    engineLog,      \* engineLog[f]: the kinds of f's events
    relayed,        \* the events in outbox order, and how many were sent
    eventTopic,     \* the records of the topic
    replays,
    partition,      \* the replica that owns it, and the committed offset
    projector,      \* projector[c]: the batch a replica works on
    processed,      \* projection_event_inbox
    instanceRow,    \* workflow_instance_read_models
    eventRow,       \* workflow_event_read_models
    export,         \* projection_query_exports
    renderer,       \* renderer[c]: the export the worker of a replica renders
    projectFaults

logVars     == <<engineLog, relayed, eventTopic, replays>>
modelVars   == <<partition, projector, processed, instanceRow, eventRow>>
exportVars  == <<export, renderer>>
projectVars == <<logVars, modelVars, exportVars, projectFaults>>

Absent  == [sequence |-> 0, status |-> "none", node |-> "none", version |-> 0]
NoBatch == [first |-> 0, next |-> 0, last |-> 0]

ProjectInit ==
    /\ engineLog = [f \in Flow |-> <<>>]
    /\ relayed = [outbox |-> <<>>, sent |-> 0]
    /\ eventTopic = <<>>
    /\ replays = 0
    /\ \E c \in Projector : partition = [owner |-> c, committed |-> 0]
    /\ projector = [c \in Projector |-> NoBatch]
    /\ processed = {}
    /\ instanceRow = [f \in Flow |-> Absent]
    /\ eventRow = {}
    /\ export = [x \in Export |-> [status |-> "none", stale |-> FALSE, expired |-> FALSE, by |-> NoExport]]
    /\ renderer = [c \in Projector |-> NoExport]
    /\ projectFaults = 0

ProjectFault == projectFaults < MaxProjectFaults /\ projectFaults' = projectFaults + 1

(***************************************************************************)
(* The engine and its relay.                                               *)
(***************************************************************************)
Final == {"completed", "terminated"}
Done  == Final \cup {"case_completed"}

\* An instance runs a workflow, or a case, or both; the case may outlive the
\* workflow, and the workflow the case.
Emittable(log) ==
    LET has == {log[k] : k \in 1..Len(log)}
        running == "started" \in has /\ has \cap Final = {}
    IN {kind \in {"started", "activated", "progress", "completed", "terminated",
                  "case_activated", "case_completed"} :
          /\ kind = "started" => "started" \notin has
          /\ kind \in {"activated", "progress"} \cup Final => running
          /\ kind = "case_activated" => "case_activated" \notin has
          /\ kind = "case_completed" =>
                "case_activated" \in has /\ "case_completed" \notin has}

EngineEmits(f) ==
    LET log == engineLog[f] IN
    /\ Len(log) < MaxFlowEvents
    /\ \E kind \in Emittable(log) :
          engineLog' = [engineLog EXCEPT ![f] = Append(@, kind)]
    /\ relayed' = [relayed EXCEPT !.outbox =
          Append(@, [flow |-> f, sequence |-> Len(log) + 1])]
    /\ UNCHANGED <<modelVars, exportVars, eventTopic, replays, projectFaults>>

RelaySends ==
    /\ relayed.sent < Len(relayed.outbox)
    /\ eventTopic' = Append(eventTopic, relayed.outbox[relayed.sent + 1])
    /\ relayed' = [relayed EXCEPT !.sent = @ + 1]
    /\ UNCHANGED <<modelVars, exportVars, engineLog, replays, projectFaults>>

RelayResumes ==
    /\ replays < MaxReplays
    /\ \E k \in 0..(relayed.sent - 1) : relayed' = [relayed EXCEPT !.sent = k]
    /\ replays' = replays + 1
    /\ UNCHANGED <<modelVars, exportVars, engineLog, eventTopic, projectFaults>>

(***************************************************************************)
(* The event consumer.                                                     *)
(***************************************************************************)
\* A batch is what arrived before it was full or its deadline passed.
PollBatch(c) ==
    /\ projector[c] = NoBatch
    /\ partition.owner = c
    /\ \E last \in (partition.committed + 1)..Len(eventTopic) :
          /\ last <= partition.committed + ProjectBatch
          /\ projector' = [projector EXCEPT ![c] =
                [first |-> partition.committed + 1, next |-> partition.committed + 1,
                 last |-> last]]
    /\ UNCHANGED <<logVars, exportVars, partition, processed, instanceRow, eventRow,
                   projectFaults>>

Duplicate(e) == e \in processed

InOrder(e) ==
    LET row == instanceRow[e.flow] IN
    IF row = Absent THEN engineLog[e.flow][e.sequence] \in {"started", "case_activated"}
    ELSE e.sequence <= row.sequence + 1

\* The read model has one status for the instance: that of what ended last.
StatusAfter(kind, status) ==
    CASE kind \in {"completed", "case_completed"} -> "completed"
      [] kind = "terminated" -> "terminated"
      [] OTHER -> status

\* The row after an event; one at or below its sequence changes nothing.
ApplyInstance(e) ==
    LET row  == instanceRow[e.flow]
        kind == engineLog[e.flow][e.sequence]
    IN CASE row = Absent ->
              [sequence |-> e.sequence, status |-> "active", node |-> "none", version |-> 1]
         [] row # Absent /\ e.sequence <= row.sequence -> row
         [] OTHER ->
              [sequence |-> e.sequence,
               status   |-> StatusAfter(kind, row.status),
               node     |-> CASE kind \in Done -> "none"
                              [] kind = "activated" -> "node"
                              [] OTHER -> row.node,
               version  |-> row.version + 1]

Next1(c) == eventTopic[projector[c].next]

\* One record in one serializable transaction: the inbox, the instance, the
\* event.  Any error ends the process, whatever the batch already did.
ProjectRecord(c) ==
    /\ projector[c] # NoBatch /\ projector[c].next <= projector[c].last
    /\ LET e == Next1(c) IN
       IF Duplicate(e)
       THEN UNCHANGED <<processed, instanceRow, eventRow>>
       ELSE /\ InOrder(e)
            /\ processed' = processed \cup {e}
            /\ instanceRow' = [instanceRow EXCEPT ![e.flow] = ApplyInstance(e)]
            /\ eventRow' = eventRow \cup {e}
    /\ projector' = [projector EXCEPT ![c].next = @ + 1]
    /\ UNCHANGED <<logVars, exportVars, partition, projectFaults>>

\* Bug: the offset of the batch is committed as soon as it was polled.
PolledBatch(c) == projector[c] # NoBatch

HandledBatch(c) == projector[c] # NoBatch /\ projector[c].next > projector[c].last

\* The commit is tried again while the group recovers, so that a replica that
\* lost the partition may still move the offset, even back, or else stops.
CommitBatch(c) ==
    /\ HandledBatch(c)
    /\ \/ /\ partition' = [partition EXCEPT !.committed = projector[c].last]
          /\ UNCHANGED renderer
       \/ /\ partition.owner # c
          /\ renderer' = [renderer EXCEPT ![c] = NoExport]
          /\ UNCHANGED partition
    /\ projector' = [projector EXCEPT ![c] = NoBatch]
    /\ UNCHANGED <<logVars, export, processed, instanceRow, eventRow, projectFaults>>

ProjectorStops(c) ==
    /\ projector[c] # NoBatch \/ renderer[c] # NoExport
    /\ ProjectFault
    /\ projector' = [projector EXCEPT ![c] = NoBatch]
    /\ renderer' = [renderer EXCEPT ![c] = NoExport]
    /\ UNCHANGED <<logVars, partition, processed, instanceRow, eventRow, export>>

PartitionMoves ==
    /\ ProjectFault
    /\ \E c \in Projector \ {partition.owner} : partition' = [partition EXCEPT !.owner = c]
    /\ UNCHANGED <<logVars, exportVars, projector, processed, instanceRow, eventRow>>

(***************************************************************************)
(* Exports.  A running one may be claimed again after five minutes, and    *)
(* nothing tells the two workers apart when they complete it.              *)
(***************************************************************************)
CreateQueryExport(x) ==
    /\ export[x].status = "none"
    /\ export' = [export EXCEPT ![x].status = "pending"]
    /\ UNCHANGED <<logVars, modelVars, renderer, projectFaults>>

\* Bug: a running export is never claimed again.
PendingOnly(x) == export[x].status = "pending"

ClaimableExport(x) ==
    \/ export[x].status = "pending"
    \/ export[x].status = "running" /\ export[x].stale

ClaimQueryExport(c, x) ==
    /\ renderer[c] = NoExport
    /\ ClaimableExport(x) /\ ~export[x].expired
    /\ export' = [export EXCEPT ![x].status = "running", ![x].stale = FALSE]
    /\ renderer' = [renderer EXCEPT ![c] = x]
    /\ UNCHANGED <<logVars, modelVars, projectFaults>>

\* Bug: the rendering is stored whatever became of the export.
AnyStatus(x) == TRUE

StillRunning(x) == export[x].status = "running"

\* The worker rendered it, or found an error code.
CompleteQueryExport(c) ==
    LET x == renderer[c] IN
    /\ x # NoExport
    /\ IF StillRunning(x)
       THEN \E status \in {"completed", "failed"} :
               export' = [export EXCEPT ![x].status = status, ![x].by = c]
       ELSE UNCHANGED export
    /\ renderer' = [renderer EXCEPT ![c] = NoExport]
    /\ UNCHANGED <<logVars, modelVars, projectFaults>>

CancelQueryExport(x) ==
    /\ export[x].status \in {"pending", "running"}
    /\ export' = [export EXCEPT ![x].status = "cancelled"]
    /\ UNCHANGED <<logVars, modelVars, renderer, projectFaults>>

\* Five minutes after its claim.
ExportStales(x) ==
    /\ export[x].status = "running" /\ ~export[x].stale
    /\ export' = [export EXCEPT ![x].stale = TRUE]
    /\ UNCHANGED <<logVars, modelVars, renderer, projectFaults>>

ExportExpires(x) ==
    /\ export[x].status # "none" /\ ~export[x].expired
    /\ ProjectFault
    /\ export' = [export EXCEPT ![x].expired = TRUE]
    /\ UNCHANGED <<logVars, modelVars, renderer>>

EventLoop(c)  == PollBatch(c) \/ ProjectRecord(c) \/ CommitBatch(c)
ExportLoop(c) == CompleteQueryExport(c) \/ \E x \in Export : ClaimQueryExport(c, x)

ProjectNext ==
    \/ \E f \in Flow : EngineEmits(f)
    \/ RelaySends \/ RelayResumes
    \/ \E c \in Projector : EventLoop(c) \/ ExportLoop(c) \/ ProjectorStops(c)
    \/ PartitionMoves
    \/ \E x \in Export : \/ CreateQueryExport(x) \/ CancelQueryExport(x)
                         \/ ExportStales(x) \/ ExportExpires(x)

\* Both loops run for ever and their process is restarted; the engine's relay
\* is a loop too.  Faults end.
ProjectFairness ==
    /\ WF_projectVars(RelaySends)
    /\ \A c \in Projector : WF_projectVars(EventLoop(c)) /\ WF_projectVars(ExportLoop(c))
    /\ \A x \in Export : WF_projectVars(ExportStales(x))

ProjectSpec == ProjectInit /\ [][ProjectNext]_projectVars /\ ProjectFairness
-----------------------------------------------------------------------------
Last(S) == CHOOSE k \in S : \A j \in S : j <= k

\* What a reader of f's first n events would say of it.
Summary(f, n) ==
    LET log   == engineLog[f]
        done  == {k \in 1..n : log[k] \in Done}
        moves == done \cup {k \in 1..n : log[k] = "activated"}
    IN [sequence |-> n,
        status   |-> IF done = {} THEN "active"
                     ELSE IF log[Last(done)] = "terminated" THEN "terminated" ELSE "completed",
        node     |-> IF moves # {} /\ log[Last(moves)] = "activated" THEN "node" ELSE "none",
        version  |-> n]

\* Every record below the committed offset is in the read model: its
\* instance's row is the summary of a prefix of the log that reaches the
\* record, and the event rows are exactly those of that prefix; whatever the
\* relay repeated, whichever replica stopped within a batch, and whoever else
\* worked on it.
OffsetFollowsReadModel ==
    /\ \A o \in 1..partition.committed :
          instanceRow[eventTopic[o].flow].sequence >= eventTopic[o].sequence
    /\ \A f \in Flow :
          /\ instanceRow[f] # Absent => instanceRow[f] = Summary(f, instanceRow[f].sequence)
          /\ {e.sequence : e \in {r \in eventRow : r.flow = f}} = 1..instanceRow[f].sequence

\* An export that was completed, failed or cancelled stays as it is: the
\* second of two workers that rendered it changes neither its status nor its
\* file.
EndedExportStays ==
    [][\A x \in Export : export[x].status \in {"completed", "failed", "cancelled"} =>
          /\ export'[x].status = export[x].status
          /\ export'[x].by = export[x].by]_projectVars

\* Every event reaches the read model, and every accepted export ends or
\* expires, though replicas stop and partitions move.
ProjectionCatchesUp ==
    /\ \A f \in Flow, n \in 1..MaxFlowEvents :
          (Len(engineLog[f]) >= n) ~> (instanceRow[f].sequence >= n)
    /\ \A x \in Export :
          (export[x].status # "none") ~>
              (export[x].status \notin {"pending", "running"} \/ export[x].expired)
=============================================================================
