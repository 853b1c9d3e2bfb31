----------------------------- MODULE EventStore -----------------------------
(***************************************************************************)
(* What the workflow store promises the engine, without replicas, batches  *)
(* or retries: a command appends its events to one instance's stream and   *)
(* to the global outbox in one step, and at most once per idempotency      *)
(* scope.  WorkflowCommit implements this specification.                   *)
(***************************************************************************)
EXTENDS Naturals, Sequences

CONSTANTS
    Instance,
    Request,     \* records [scope, command_id, instance]
    MaxEvents    \* most events one command produces

VARIABLES
    stream,      \* stream[i]: the event identities of instance i, in order
    outbox,      \* what will be published, in order
    receipt      \* receipt[s]: the result stored under scope s

eventStoreVars == <<stream, outbox, receipt>>

EventId(cmd, s) == <<cmd, s>>

Result(q, v, k) ==
    [command_id |-> q.command_id, version |-> v + k,
     event_ids |-> {EventId(q.command_id, s) : s \in v + 1 .. v + k}]

OutboxRow(i, s, id) == [instance |-> i, sequence |-> s, event_id |-> id]

Init ==
    /\ stream = [i \in Instance |-> <<>>]
    /\ outbox = <<>>
    /\ receipt = <<>>

(* The atomic commit: k events of request q, their outbox rows, the receipt. *)
Record(q, k) ==
    LET v == Len(stream[q.instance])
        Id(j) == EventId(q.command_id, v + j)
    IN
    /\ q.scope \notin DOMAIN receipt
    /\ stream' = [stream EXCEPT ![q.instance] = @ \o [j \in 1..k |-> Id(j)]]
    /\ outbox' = outbox \o [j \in 1..k |-> OutboxRow(q.instance, v + j, Id(j))]
    /\ receipt' = [s \in DOMAIN receipt \cup {q.scope} |->
                      IF s = q.scope THEN Result(q, v, k) ELSE receipt[s]]

Next == \E q \in Request, k \in 1..MaxEvents : Record(q, k)

Spec == Init /\ [][Next]_eventStoreVars
=============================================================================
