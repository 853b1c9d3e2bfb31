----------------------------- MODULE OutboxRelay -----------------------------
(***************************************************************************)
(* The two leader-only consumers of the engine's outbox: the publisher,    *)
(* which sends every committed event to the broker, and the local task     *)
(* worker, which runs the task an event activates or hands it to the       *)
(* remote queue.                                                           *)
(*                                                                         *)
(* Each keeps a checkpoint in its node's own database.  It is not          *)
(* replicated, but it lies in a column family that snapshots carry, so     *)
(* installing a snapshot replaces it by that of another node.  Leadership  *)
(* is looked at once, before a batch.                                      *)
(*                                                                         *)
(* The outbox holds one record per event: a task is activated, then ends   *)
(* once, completed by the local worker, completed by a remote worker, or   *)
(* cancelled (boundary event, compliance termination).                     *)
(***************************************************************************)
EXTENDS Naturals, Sequences, FiniteSets

CONSTANTS
    Node,
    Task,
    Deployment,         \* configurations: [workers: those that run,
                        \*   local: the tasks with a local executor binding]
    Cancellable,        \* the tasks another command may end
    BatchSize,          \* outbox and local task batch size
    MaxCrashes, MaxElections,
    NoNode

ASSUME RelayConstants ==
    /\ Cancellable \subseteq Task
    /\ BatchSize \in Nat \ {0}
    /\ NoNode \notin Node
    /\ \A d \in Deployment :
          d.workers \subseteq {"publisher", "local_task"} /\ d.local \subseteq Task

VARIABLES
    deploy,     \* the deployment's configuration
    outbox,     \* the committed records, in cursor order
    enqueued,   \* the tasks in the replicated remote queue
    shredded,   \* the tasks whose events can no longer be decrypted
    tail,       \* tail[n]: the records node n has applied
    ckpt,       \* ckpt[n][w]: the checkpoint of worker w in n's database
    worker,     \* worker[n][w]: what worker w of node n is doing
    leader,     \* the node whose proposals commit
    leads,      \* the nodes whose metrics say they lead
    up,
    delivered,  \* the cursors of the records the broker holds
    snap,       \* the latest snapshot: a tail and the checkpoints
    crashes, elections

committed == <<outbox, enqueued, shredded>>
cluster   == <<deploy, leader, leads, up, crashes, elections>>
vars == <<committed, tail, ckpt, worker, delivered, snap, cluster>>

Worker == {"publisher", "local_task"}

Activated(t)   == [kind |-> "activated", task |-> t]
Ended(t, by)   == [kind |-> "ended", task |-> t, by |-> by]
Upto(k)        == {outbox[c] : c \in 1..k}
EndedBy(t, k)  == {r.by : r \in {x \in Upto(k) : x.kind = "ended" /\ x.task = t}}
ActiveAt(t, k) == Activated(t) \in Upto(k) /\ EndedBy(t, k) = {}
Now            == Len(outbox)

Idle == [pc |-> "idle"]
Doing(pc, cursor, upto) == [pc |-> pc, cursor |-> cursor, upto |-> upto]

Become(n, w, r) == worker' = [worker EXCEPT ![n][w] = r]
GoTo(n, w, pc)  == Become(n, w, Doing(pc, worker[n][w].cursor, worker[n][w].upto))

Init ==
    /\ deploy \in Deployment
    /\ outbox = <<>>
    /\ enqueued = {}
    /\ shredded = {}
    /\ tail = [n \in Node |-> 0]
    /\ ckpt = [n \in Node |-> [w \in Worker |-> 0]]
    /\ worker = [n \in Node |-> [w \in Worker |-> Idle]]
    /\ leader = NoNode
    /\ leads = {}
    /\ up = Node
    /\ delivered = {}
    /\ snap = [tail |-> 0, ckpt |-> [w \in Worker |-> 0]]
    /\ crashes = 0
    /\ elections = 0
-----------------------------------------------------------------------------
(* Commands of other clients, committed through the leader. *)
Activate(t) ==
    /\ Activated(t) \notin Upto(Now)
    /\ outbox' = Append(outbox, Activated(t))
    /\ UNCHANGED <<enqueued, shredded, tail, ckpt, worker, delivered, snap, cluster>>

RemoteComplete(t) ==
    /\ t \in enqueued
    /\ ActiveAt(t, Now)
    /\ outbox' = Append(outbox, Ended(t, "remote"))
    /\ UNCHANGED <<enqueued, shredded, tail, ckpt, worker, delivered, snap, cluster>>

Cancel(t) ==
    /\ t \in Cancellable
    /\ ActiveAt(t, Now)
    /\ outbox' = Append(outbox, Ended(t, "cancel"))
    /\ UNCHANGED <<enqueued, shredded, tail, ckpt, worker, delivered, snap, cluster>>

(* The key lifecycle destroys the key of an instance that was terminated for  *)
(* compliance; its tasks have been completed earlier or were aborted with it. *)
Shred(t) ==
    /\ t \notin shredded
    /\ EndedBy(t, Now) # {}
    /\ shredded' = shredded \cup {t}
    /\ UNCHANGED <<outbox, enqueued, tail, ckpt, worker, delivered, snap, cluster>>
-----------------------------------------------------------------------------
(* A turn of the worker loop begins: leadership, then the checkpoint. *)
Poll(n, w) ==
    /\ n \in up
    /\ n \in leads
    /\ w \in deploy.workers
    /\ worker[n][w].pc = "idle"
    /\ Become(n, w, Doing("read", ckpt[n][w], ckpt[n][w]))
    /\ UNCHANGED <<committed, tail, ckpt, delivered, snap, cluster>>

(* A bug: the scan stops before the last record. *)
BatchExclusive(n, w) ==
    LET c == worker[n][w].cursor IN
    {x \in c + 1 .. c + BatchSize : x < tail[n]}

(* The cursors read_after returns. *)
Batch(n, w) ==
    LET c == worker[n][w].cursor IN
    {x \in c + 1 .. c + BatchSize : x <= tail[n]}

(* read_after fails as a whole if it cannot decrypt one of the records. *)
Read(n, w) ==
    LET c == worker[n][w].cursor IN
    /\ worker[n][w].pc = "read"
    /\ Become(n, w, IF Batch(n, w) = {} \/ \E x \in Batch(n, w) : outbox[x].task \in shredded
                    THEN Idle
                    ELSE Doing("effect", c, c + Cardinality(Batch(n, w))))
    /\ UNCHANGED <<committed, tail, ckpt, delivered, snap, cluster>>

(* A bug: the record moved past when its attempts are exhausted. *)
PublishGivingUp(n) ==
    LET r == worker[n]["publisher"] IN
    /\ r.pc = "effect"
    /\ \/ /\ delivered' = delivered \cup {r.cursor + 1}
          /\ GoTo(n, "publisher", "checkpoint")
       \/ /\ delivered' \in {delivered, delivered \cup {r.cursor + 1}}
          /\ UNCHANGED worker \/ GoTo(n, "publisher", "checkpoint")
    /\ UNCHANGED <<committed, tail, ckpt, snap, cluster>>

(* One attempt of publish_with_retry: the broker acknowledges, or it does not,*)
(* and then it may or may not hold the record, and the attempt may or may not *)
(* be the last.                                                               *)
Publish(n) ==
    LET r == worker[n]["publisher"] IN
    /\ r.pc = "effect"
    /\ \/ /\ delivered' = delivered \cup {r.cursor + 1}
          /\ GoTo(n, "publisher", "checkpoint")
       \/ /\ delivered' \in {delivered, delivered \cup {r.cursor + 1}}
          /\ UNCHANGED worker \/ Become(n, "publisher", Idle)
    /\ UNCHANGED <<committed, tail, ckpt, snap, cluster>>

(* The compare-and-set of the checkpoint, then the next record of the batch. *)
Checkpoint(n, w) ==
    LET r == worker[n][w]  next == r.cursor + 1 IN
    /\ r.pc = "checkpoint"
    /\ IF ckpt[n][w] # r.cursor \/ next > tail[n]
       THEN Become(n, w, Idle) /\ UNCHANGED ckpt
       ELSE /\ ckpt' = [ckpt EXCEPT ![n][w] = next]
            /\ Become(n, w, IF next = r.upto THEN Idle ELSE Doing("effect", next, r.upto))
    /\ UNCHANGED <<committed, tail, delivered, snap, cluster>>
-----------------------------------------------------------------------------
Current(n) == outbox[worker[n]["local_task"].cursor + 1]

(* The local task worker takes the next record of its batch: only activations *)
(* are executed.                                                              *)
Execute(n) ==
    /\ worker[n]["local_task"].pc = "effect"
    /\ \/ /\ Current(n).kind # "activated"
          /\ GoTo(n, "local_task", "checkpoint")
       \/ /\ Current(n).kind = "activated"
          /\ GoTo(n, "local_task", IF Current(n).task \in deploy.local THEN "dispatch" ELSE "enqueue")
    /\ UNCHANGED <<committed, tail, ckpt, delivered, snap, cluster>>

(* An executor that fails its last attempt ends the batch. *)
ExecutorFails(n) ==
    /\ worker[n]["local_task"].pc = "effect"
    /\ Current(n).kind = "activated"
    /\ Current(n).task \in deploy.local
    /\ Become(n, "local_task", Idle)
    /\ UNCHANGED <<committed, tail, ckpt, delivered, snap, cluster>>

(* dispatch_completion fails: not the leader, unavailable, a conflict.        *)
DispatchFails(n) ==
    /\ worker[n]["local_task"].pc \in {"dispatch", "enqueue"}
    /\ Become(n, "local_task", Idle)
    /\ UNCHANGED <<committed, tail, ckpt, delivered, snap, cluster>>

(* dispatch_completion: the completion command with the identity of the       *)
(* activating event.  The node's own database answers a known identity, and   *)
(* refuses a task that is not active.  Otherwise the command commits if this   *)
(* node leads and the task is still active; its caller may be answered, or    *)
(* time out.                                                                  *)
Dispatch(n) ==
    LET t == Current(n).task IN
    /\ worker[n]["local_task"].pc = "dispatch"
    /\ \/ /\ "local" \in EndedBy(t, tail[n])
          /\ GoTo(n, "local_task", "checkpoint")
          /\ UNCHANGED <<outbox, tail>>
       \/ /\ "local" \notin EndedBy(t, tail[n])
          /\ ~ActiveAt(t, tail[n])
          /\ Become(n, "local_task", Idle)
          /\ UNCHANGED <<outbox, tail>>
       \/ /\ ActiveAt(t, tail[n])
          /\ leader = n
          /\ ActiveAt(t, Now)
          /\ outbox' = Append(outbox, Ended(t, "local"))
          /\ \/ GoTo(n, "local_task", "checkpoint") /\ tail' = [tail EXCEPT ![n] = Now + 1]
             \/ Become(n, "local_task", Idle) /\ UNCHANGED tail
    /\ UNCHANGED <<enqueued, shredded, ckpt, delivered, snap, cluster>>

(* enqueue_remote_task: queued before, or queued now; a caller that times out *)
(* may leave the task queued.                                                 *)
Enqueue(n) ==
    /\ worker[n]["local_task"].pc = "enqueue"
    /\ \/ Current(n).task \in enqueued
       \/ leader = n
    /\ enqueued' = enqueued \cup {Current(n).task}
    /\ \/ GoTo(n, "local_task", "checkpoint")
       \/ Become(n, "local_task", Idle)
    /\ UNCHANGED <<outbox, shredded, tail, ckpt, delivered, snap, cluster>>
-----------------------------------------------------------------------------
(* Replication, as ReplicatedStore describes it. *)
ApplyNext(n) ==
    /\ n \in up
    /\ tail[n] < Now
    /\ tail' = [tail EXCEPT ![n] = @ + 1]
    /\ UNCHANGED <<committed, ckpt, worker, delivered, snap, cluster>>

BuildSnapshot(n) ==
    /\ n \in up
    /\ tail[n] > snap.tail
    /\ snap' = [tail |-> tail[n], ckpt |-> ckpt[n]]
    /\ UNCHANGED <<committed, tail, ckpt, worker, delivered, cluster>>

(* The follower's column families, checkpoints included, become the sender's. *)
InstallSnapshot(n) ==
    /\ n \in up
    /\ n # leader
    /\ tail[n] < snap.tail
    /\ tail' = [tail EXCEPT ![n] = snap.tail]
    /\ ckpt' = [ckpt EXCEPT ![n] = snap.ckpt]
    /\ UNCHANGED <<committed, worker, delivered, snap, cluster>>

Elect(n) ==
    /\ n \in up
    /\ n # leader
    /\ elections < MaxElections
    /\ leader' = n
    /\ leads' = leads \cup {n}
    /\ elections' = elections + 1
    /\ UNCHANGED <<committed, tail, ckpt, worker, delivered, snap, deploy, up, crashes>>

(* A deposed leader learns of it late. *)
StepDown(n) ==
    /\ n \in leads
    /\ n # leader
    /\ leads' = leads \ {n}
    /\ UNCHANGED <<committed, tail, ckpt, worker, delivered, snap, deploy, leader, up, crashes, elections>>

Crash(n) ==
    /\ n \in up
    /\ crashes < MaxCrashes
    /\ up' = up \ {n}
    /\ leads' = leads \ {n}
    /\ leader' = IF leader = n THEN NoNode ELSE leader
    /\ worker' = [worker EXCEPT ![n] = [w \in Worker |-> Idle]]
    /\ crashes' = crashes + 1
    /\ UNCHANGED <<committed, tail, ckpt, delivered, snap, deploy, elections>>

Restart(n) ==
    /\ n \notin up
    /\ up' = up \cup {n}
    /\ UNCHANGED <<committed, tail, ckpt, worker, delivered, snap, deploy, leader, leads, crashes, elections>>

LoopStep(n, w) ==
    \/ Poll(n, w) \/ Read(n, w) \/ Checkpoint(n, w)
    \/ w = "publisher" /\ Publish(n)
    \/ w = "local_task" /\ (Execute(n) \/ ExecutorFails(n) \/ DispatchFails(n) \/ Dispatch(n) \/ Enqueue(n))

NodeStep(n) ==
    \/ ApplyNext(n) \/ BuildSnapshot(n) \/ InstallSnapshot(n)
    \/ Elect(n) \/ StepDown(n) \/ Crash(n) \/ Restart(n)

Next ==
    \/ \E t \in Task : Activate(t) \/ RemoteComplete(t) \/ Cancel(t) \/ Shred(t)
    \/ \E n \in Node : NodeStep(n) \/ \E w \in Worker : LoopStep(n, w)

Spec == Init /\ [][Next]_vars

(* The worker loops keep turning, a node applies what is committed and comes  *)
(* back after a crash, and a call that may succeed and is made again and      *)
(* again succeeds: the broker recovers, an executor is not broken for good,   *)
(* Raft commits.                                                              *)
Acknowledged(n) == Publish(n) /\ worker'[n]["publisher"].pc = "checkpoint"
Settled(n)      == (Dispatch(n) \/ Enqueue(n)) /\ worker'[n]["local_task"].pc = "checkpoint"

FairSpec ==
    /\ Spec
    /\ \A n \in Node :
          /\ \A w \in Worker : WF_vars(LoopStep(n, w))
          /\ SF_vars(Acknowledged(n))
          /\ SF_vars(Execute(n))
          /\ SF_vars(Settled(n))
          /\ WF_vars(ApplyNext(n) \/ Restart(n))
-----------------------------------------------------------------------------
TypeOK ==
    /\ \A c \in 1..Now : outbox[c].task \in Task
    /\ enqueued \subseteq Task /\ shredded \subseteq Task
    /\ leads \subseteq up /\ leader \in up \cup {NoNode}
    /\ delivered \subseteq 1..Now
    /\ \A n \in Node, w \in Worker :
          /\ tail[n] \in 0..Now
          /\ ckpt[n][w] \in 0..tail[n]
          /\ worker[n][w].pc # "idle" => worker[n][w].cursor \in 0..tail[n]

(* Broker acknowledgement precedes checkpoint advancement: whatever a node's   *)
(* publisher checkpoint covers is in the broker, across crashes, changes of   *)
(* leader and installed snapshots.                                            *)
CheckpointedIsDelivered ==
    \A n \in Node : 1..ckpt[n]["publisher"] \subseteq delivered

(* Though leaders publish concurrently and again, the first deliveries come   *)
(* in outbox order: the broker never holds a record and lacks an earlier one. *)
DeliveredIsPrefix == \A c \in delivered : 1..c \subseteq delivered

(* The local task checkpoint advances only after a durable outcome: every     *)
(* activation it covers has been completed by its own command or is in the    *)
(* remote queue.                                                              *)
CheckpointedIsHandled ==
    \A n \in Node : \A c \in 1..ckpt[n]["local_task"] :
        outbox[c].kind = "activated" =>
            "local" \in EndedBy(outbox[c].task, Now) \/ outbox[c].task \in enqueued

(* The end of the outbox's troubles: some node leads for good. *)
Led == leader # NoNode

(* Every committed event reaches the broker, if a leader remains and no key   *)
(* of an event is destroyed.  The outbox ends at its bound and deliveries     *)
(* stay, so that each event is delivered exactly if all are, again and again. *)
EveryEventDelivered ==
    ("publisher" \in deploy.workers /\ <>[]Led /\ []<>(shredded = {})) =>
        []<>(1..Now \subseteq delivered)

(* The local task worker gets past every record, if a leader remains, no key  *)
(* is destroyed and no other command ends a task: a completion that is        *)
(* dispatched again after a crash, a timeout or a change of leader is         *)
(* answered, not refused.                                                     *)
EveryRecordProcessed ==
    (/\ "local_task" \in deploy.workers
     /\ <>[]Led
     /\ []<>(shredded = {} /\ \A t \in Task : "cancel" \notin EndedBy(t, Now))) =>
        []<>(\E n \in Node : ckpt[n]["local_task"] >= Now)

(* A checkpoint covers nothing that was not delivered in order or handled:    *)
(* acknowledgement precedes checkpoint, across crashes, changes of leader and *)
(* installed snapshots (CheckpointedIsDelivered, DeliveredIsPrefix,           *)
(* CheckpointedIsHandled).                                                    *)
CheckpointsCoverWhatIsDone ==
    /\ TypeOK
    /\ CheckpointedIsDelivered
    /\ DeliveredIsPrefix
    /\ CheckpointedIsHandled

(* The publisher delivers every event, and the local task worker gets past    *)
(* every record, under the conditions of each.                                *)
EveryRecordIsRelayed == EveryEventDelivered /\ EveryRecordProcessed

-----------------------------------------------------------------------------
(* Deployments that run one worker each, the local task worker with and       *)
(* without an executor for the tasks: the workers share nothing but the       *)
(* outbox.                                                                    *)
Runs(w, local) == [workers |-> {w}, local |-> local]
OneWorker == {Runs("publisher", {}), Runs("local_task", {}), Runs("local_task", Task)}
=============================================================================
