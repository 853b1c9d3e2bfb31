-------------------------- MODULE OutboxRelayProofs --------------------------
(***************************************************************************)
(* Proofs that the checkpoints of the outbox consumers cover only what is  *)
(* done, for every number of nodes, tasks, crashes and elections, every    *)
(* batch size and every deployment: OutboxRelay's                          *)
(* CheckpointsCoverWhatIsDone.                                             *)
(*                                                                         *)
(* A checkpoint alone does not carry the argument: a worker goes on from   *)
(* the cursor it read, another leader works at the same time, and a        *)
(* snapshot brings the checkpoints of another node.  The invariant says of *)
(* all of these cursors what the property says of the checkpoints.         *)
(***************************************************************************)
EXTENDS OutboxRelay, FiniteSetTheorems, SequenceTheorems, TLAPS

Event == [kind : {"activated"}, task : Task] \cup
         [kind : {"ended"}, task : Task, by : {"local", "remote", "cancel"}]

(* A worker in a batch is at a record that its node has applied. *)
Placed(r, k) ==
    /\ r.pc \in {"idle", "read", "effect", "dispatch", "enqueue", "checkpoint"}
    /\ r.pc # "idle" => r.cursor \in 0..k
    /\ r.pc \notin {"idle", "read"} => r.upto \in Nat /\ r.cursor < r.upto /\ r.upto <= k

Types ==
    /\ outbox \in Seq(Event) /\ enqueued \subseteq Task /\ shredded \subseteq Task
    /\ up \subseteq Node /\ leads \subseteq up /\ leader \in up \cup {NoNode}
    /\ tail \in [Node -> Nat] /\ ckpt \in [Node -> [Worker -> Nat]]
    /\ snap \in [tail : Nat, ckpt : [Worker -> Nat]] /\ snap.tail <= Now
    /\ DOMAIN worker = Node
    /\ \A n \in Node : tail[n] <= Now /\ DOMAIN worker[n] = Worker
    /\ \A n \in Node, w \in Worker : ckpt[n][w] <= tail[n] /\ Placed(worker[n][w], tail[n])
    /\ \A w \in Worker : snap.ckpt[w] <= snap.tail

(* What a worker has passed, and what it is about to checkpoint, is held. *)
Covers(r, held) ==
    /\ r.pc # "idle" => 1..r.cursor \subseteq held
    /\ r.pc = "checkpoint" => r.cursor + 1 \in held

(* Everything the cursors of a worker have passed is held: those of its       *)
(* checkpoints, of the snapshot's, and of the batches under way.              *)
Covered(w, held) ==
    /\ \A n \in Node : 1..ckpt[n][w] \subseteq held
    /\ 1..snap.ckpt[w] \subseteq held
    /\ \A n \in Node : Covers(worker[n][w], held)

(* For the publisher: in the broker. *)
Published == delivered \subseteq 1..Now /\ DeliveredIsPrefix /\ Covered("publisher", delivered)

(* For the local task worker: completed by its own command, or queued. *)
Handled(c) ==
    outbox[c].kind = "activated" =>
        "local" \in EndedBy(outbox[c].task, Now) \/ outbox[c].task \in enqueued

Done == {c \in 1..Now : Handled(c)}

Executed == Covered("local_task", Done)
-----------------------------------------------------------------------------
(* EndedBy names the kinds of ending a prefix of the outbox holds for a task. *)
LEMMA EndedByIs ==
    ASSUME NEW t, NEW k, NEW b
    PROVE  b \in EndedBy(t, k) <=>
             \E c \in 1..k : outbox[c].kind = "ended" /\ outbox[c].task = t /\ outbox[c].by = b
  BY DEF EndedBy, Upto

(* The two kinds of outbox record are events. *)
LEMMA EventsAre ==
    /\ \A t \in Task : Activated(t) \in Event
    /\ \A t \in Task, b \in {"local", "remote", "cancel"} : Ended(t, b) \in Event
    /\ \A e \in Event : e.task \in Task
  BY DEF Event, Activated, Ended

(* What is committed stays: the outbox is appended to, the queue grows. *)
Extends ==
    /\ Now \in Nat /\ Now' \in Nat /\ Now <= Now'
    /\ \A c \in 1..Now : outbox'[c] = outbox[c]
    /\ enqueued \subseteq enqueued'

(* Appending a record changes nothing at the older offsets. *)
LEMMA AppendExtends ==
    ASSUME outbox \in Seq(Event), NEW e \in Event, outbox' = Append(outbox, e)
    PROVE  /\ outbox' \in Seq(Event) /\ Now \in Nat /\ Now' = Now + 1 /\ outbox'[Now + 1] = e
           /\ \A c \in 1..Now : outbox'[c] = outbox[c]
  BY DEF Now

(* An activation that was handled stays handled. *)
LEMMA HandledStays ==
    ASSUME Extends, NEW c \in 1..Now, Handled(c) PROVE Handled(c)'
<1> SUFFICES ASSUME outbox'[c].kind = "activated"
             PROVE  ("local" \in EndedBy(outbox[c].task, Now))' \/ outbox'[c].task \in enqueued'
  BY DEF Handled
<1>1. outbox'[c] = outbox[c]
  BY DEF Extends
<1>2. CASE outbox[c].task \in enqueued
  BY <1>1, <1>2 DEF Extends
<1>3. CASE "local" \in EndedBy(outbox[c].task, Now)
  <2>1. PICK d \in 1..Now : outbox[d].kind = "ended" /\ outbox[d].task = outbox[c].task /\ outbox[d].by = "local"
    BY <1>3, EndedByIs
  <2>2. d \in 1..Now' /\ outbox'[d] = outbox[d]
    BY DEF Extends
  <2>3. "local" \in {r.by : r \in {x \in {outbox'[b] : b \in 1..Now'} : x.kind = "ended" /\ x.task = outbox'[c].task}}
    BY <1>1, <2>1, <2>2
  <2> QED BY <2>3 DEF EndedBy, Upto
<1> QED BY <1>1, <1>2, <1>3 DEF Handled

(* A worker that moves leaves every other worker where it was. *)
LEMMA BecomeIs ==
    ASSUME Types, NEW n \in Node, NEW w \in Worker, NEW r, Become(n, w, r)
    PROVE  /\ DOMAIN worker' = Node /\ \A m \in Node : DOMAIN worker'[m] = Worker
           /\ worker'[n][w] = r
           /\ \A m \in Node, v \in Worker : <<m, v>> # <<n, w>> => worker'[m][v] = worker[m][v]
  BY DEF Types, Become

(* A place in a prefix is a place in every longer prefix. *)
LEMMA PlacedStays ==
    ASSUME NEW r, NEW j \in Nat, NEW k \in Nat, j <= k, Placed(r, j) PROVE Placed(r, k)
  BY DEF Placed

(* The states a worker moves to are placed. *)
LEMMA PlacedStates ==
    ASSUME NEW k \in Nat
    PROVE  /\ Placed(Idle, k)
           /\ \A u : \A c \in 0..k : Placed(Doing("read", c, u), k)
           /\ \A c \in Nat, u \in Nat, pc \in {"effect", "dispatch", "enqueue", "checkpoint"} :
                c < u /\ u <= k => Placed(Doing(pc, c, u), k)
  BY DEF Placed, Idle, Doing

(* A worker moves on while tails only grow. *)
LEMMA BecomePlaced ==
    ASSUME Types, NEW n \in Node, NEW w \in Worker, NEW r, Become(n, w, r),
           tail' \in [Node -> Nat], \A m \in Node : tail[m] <= tail'[m], Placed(r, tail'[n])
    PROVE  /\ DOMAIN worker' = Node /\ \A m \in Node : DOMAIN worker'[m] = Worker
           /\ \A m \in Node, v \in Worker : Placed(worker'[m][v], tail'[m])
<1>1. \A m \in Node, v \in Worker : Placed(worker[m][v], tail'[m])
  <2> SUFFICES ASSUME NEW m \in Node, NEW v \in Worker PROVE Placed(worker[m][v], tail'[m])
    OBVIOUS
  <2>1. tail[m] \in Nat /\ tail'[m] \in Nat /\ tail[m] <= tail'[m] /\ Placed(worker[m][v], tail[m])
    BY DEF Types
  <2> QED BY <2>1, PlacedStays
<1> QED BY <1>1, BecomeIs

(* read_after returns a run of records after the cursor, none beyond the tail. *)
LEMMA BatchIs ==
    ASSUME NEW n, NEW w, worker[n][w].cursor \in Nat, tail[n] \in Nat, Batch(n, w) # {}
    PROVE  /\ worker[n][w].cursor + Cardinality(Batch(n, w)) \in Nat
           /\ worker[n][w].cursor < worker[n][w].cursor + Cardinality(Batch(n, w))
           /\ worker[n][w].cursor + Cardinality(Batch(n, w)) <= tail[n]
<1> DEFINE c == worker[n][w].cursor
           m == IF c + BatchSize <= tail[n] THEN c + BatchSize ELSE tail[n]
<1>1. c \in Nat /\ BatchSize \in Nat /\ tail[n] \in Nat /\ m \in Nat /\ m <= tail[n]
  BY RelayConstants
<1>2. Batch(n, w) = (c + 1)..m
  BY <1>1 DEF Batch
<1>3. c + 1 <= m
  BY <1>1, <1>2
<1> HIDE DEF c, m
<1>4. Cardinality((c + 1)..m) = m - (c + 1) + 1
  BY <1>1, <1>3, FS_Interval
<1>5. Cardinality(Batch(n, w)) = m - c
  BY <1>1, <1>2, <1>4
<1>6. c + Cardinality(Batch(n, w)) = m /\ c < m
  BY <1>1, <1>3, <1>5
<1> QED BY <1>1, <1>6 DEF c
-----------------------------------------------------------------------------
(* What a step of each kind leaves alone, beside what it changes. *)
Logs(t) == Activate(t) \/ RemoteComplete(t) \/ Cancel(t)
Turns(n, w) == Poll(n, w) \/ Read(n, w) \/ Checkpoint(n, w)
Works(n) == Execute(n) \/ ExecutorFails(n) \/ DispatchFails(n)
Leads(n) == Elect(n) \/ StepDown(n) \/ Restart(n)

(* The steps, grouped by what they change. *)
LEMMA NextCases ==
    ASSUME Next
    PROVE  \/ \E t \in Task : Logs(t) \/ Shred(t)
           \/ \E n \in Node : \/ ApplyNext(n) \/ BuildSnapshot(n) \/ InstallSnapshot(n)
                              \/ Leads(n) \/ Crash(n)
                              \/ \E w \in Worker : Turns(n, w)
                              \/ Publish(n) \/ Works(n) \/ Dispatch(n) \/ Enqueue(n)
  BY DEF Next, NodeStep, LoopStep, Logs, Turns, Works, Leads

(* Every action of one worker keeps the worker in place. *)
LEMMA MovesArePlaced ==
    ASSUME Types, NEW n \in Node, NEW w \in Worker
    PROVE  /\ n \in up /\ worker[n][w].pc = "idle" => Placed(Doing("read", ckpt[n][w], ckpt[n][w]), tail[n])
           /\ Placed(Idle, tail[n])
           /\ worker[n][w].pc \notin {"idle", "read"} =>
                /\ worker[n][w].cursor \in Nat /\ worker[n][w].upto \in Nat
                /\ worker[n][w].cursor < worker[n][w].upto /\ worker[n][w].upto <= tail[n]
                /\ \A pc \in {"effect", "dispatch", "enqueue", "checkpoint"} :
                     Placed(Doing(pc, worker[n][w].cursor, worker[n][w].upto), tail[n])
           /\ worker[n][w].pc = "read" /\ Batch(n, w) # {} =>
                Placed(Doing("effect", worker[n][w].cursor,
                             worker[n][w].cursor + Cardinality(Batch(n, w))), tail[n])
           /\ worker[n][w].pc \notin {"idle", "read"} /\ worker[n][w].cursor + 1 # worker[n][w].upto =>
                Placed(Doing("effect", worker[n][w].cursor + 1, worker[n][w].upto), tail[n])
<1>1. tail[n] \in Nat /\ ckpt[n][w] \in 0..tail[n] /\ Placed(worker[n][w], tail[n])
  BY DEF Types
<1>2. /\ n \in up /\ worker[n][w].pc = "idle" => Placed(Doing("read", ckpt[n][w], ckpt[n][w]), tail[n])
      /\ Placed(Idle, tail[n])
  BY <1>1, PlacedStates
<1>3. worker[n][w].pc \notin {"idle", "read"} =>
        /\ worker[n][w].cursor \in Nat /\ worker[n][w].upto \in Nat
        /\ worker[n][w].cursor < worker[n][w].upto /\ worker[n][w].upto <= tail[n]
  BY <1>1 DEF Placed
<1>4. worker[n][w].pc \notin {"idle", "read"} =>
        \A pc \in {"effect", "dispatch", "enqueue", "checkpoint"} :
             Placed(Doing(pc, worker[n][w].cursor, worker[n][w].upto), tail[n])
  BY <1>1, <1>3, PlacedStates
<1>5. ASSUME worker[n][w].pc = "read", Batch(n, w) # {}
      PROVE  Placed(Doing("effect", worker[n][w].cursor,
                          worker[n][w].cursor + Cardinality(Batch(n, w))), tail[n])
  <2>1. worker[n][w].cursor \in Nat
    BY <1>1, <1>5 DEF Placed
  <2>2. /\ worker[n][w].cursor + Cardinality(Batch(n, w)) \in Nat
        /\ worker[n][w].cursor < worker[n][w].cursor + Cardinality(Batch(n, w))
        /\ worker[n][w].cursor + Cardinality(Batch(n, w)) <= tail[n]
    BY <1>1, <1>5, <2>1, BatchIs
  <2> QED BY <1>1, <2>1, <2>2, PlacedStates
<1>6. ASSUME worker[n][w].pc \notin {"idle", "read"}, worker[n][w].cursor + 1 # worker[n][w].upto
      PROVE  Placed(Doing("effect", worker[n][w].cursor + 1, worker[n][w].upto), tail[n])
  <2>1. worker[n][w].cursor + 1 \in Nat /\ worker[n][w].cursor + 1 < worker[n][w].upto
    BY <1>3, <1>6
  <2> QED BY <1>1, <1>3, <1>6, <2>1, PlacedStates
<1> QED BY <1>2, <1>3, <1>4, <1>5, <1>6

(* A turn goes on from the checkpoint, from where it was, or from the record  *)
(* it is done with.                                                           *)
Onward(n, w, r) ==
    /\ r.pc \in {"idle", "read", "effect"}
    /\ r.pc # "idle" => \/ r.cursor = ckpt[n][w]
                        \/ worker[n][w].pc # "idle" /\ r.cursor = worker[n][w].cursor
                        \/ worker[n][w].pc = "checkpoint" /\ r.cursor = worker[n][w].cursor + 1

(* The fields of a worker state. *)
LEMMA DoingIs ==
    /\ Idle.pc = "idle"
    /\ \A pc, c, u : /\ Doing(pc, c, u).pc = pc
                     /\ Doing(pc, c, u).cursor = c
                     /\ Doing(pc, c, u).upto = u
  BY DEF Idle, Doing

(* What the steps both workers share do: only writing a checkpoint moves one. *)
LEMMA TurnsAre ==
    ASSUME Types, NEW n \in Node, NEW w \in Worker, Turns(n, w)
    PROVE  /\ UNCHANGED <<committed, tail, delivered, snap, cluster>>
           /\ \E r : Become(n, w, r) /\ Placed(r, tail[n]) /\ Onward(n, w, r)
           /\ \/ UNCHANGED ckpt
              \/ /\ worker[n][w].pc = "checkpoint" /\ ckpt[n][w] = worker[n][w].cursor
                 /\ ckpt[n][w] + 1 <= tail[n]
                 /\ ckpt' = [ckpt EXCEPT ![n][w] = worker[n][w].cursor + 1]
<1>1. CASE Poll(n, w)
  BY <1>1, MovesArePlaced, DoingIs DEF Poll, Onward
<1>2. CASE Read(n, w)
  BY <1>2, MovesArePlaced, DoingIs DEF Read, Onward
<1>3. CASE Checkpoint(n, w)
  <2>1. CASE Become(n, w, Idle) /\ UNCHANGED ckpt
    BY <1>3, <2>1, MovesArePlaced, DoingIs, SMTT(30) DEF Checkpoint, Onward
  <2>2. CASE /\ ckpt[n][w] = worker[n][w].cursor /\ ~(worker[n][w].cursor + 1 > tail[n])
             /\ ckpt' = [ckpt EXCEPT ![n][w] = worker[n][w].cursor + 1]
             /\ Become(n, w, IF worker[n][w].cursor + 1 = worker[n][w].upto THEN Idle
                             ELSE Doing("effect", worker[n][w].cursor + 1, worker[n][w].upto))
    <3>1. ckpt[n][w] + 1 <= tail[n]
      BY <2>2 DEF Types
    <3>2. worker[n][w].pc = "checkpoint" /\ UNCHANGED <<committed, tail, delivered, snap, cluster>>
      BY <1>3, SMTT(30) DEF Checkpoint
    <3>3. \E r : Become(n, w, r) /\ Placed(r, tail[n]) /\ Onward(n, w, r)
      BY <2>2, <3>2, MovesArePlaced, DoingIs, SMTT(30) DEF Onward
    <3> QED BY <2>2, <3>1, <3>2, <3>3
  <2> QED BY <1>3, <2>1, <2>2 DEF Checkpoint
<1> QED BY <1>1, <1>2, <1>3 DEF Turns

(* An attempt to publish gives the broker the record at the cursor or nothing. *)
LEMMA PublishIs ==
    ASSUME Types, NEW n \in Node, Publish(n)
    PROVE  /\ UNCHANGED <<committed, tail, ckpt, snap, cluster>>
           /\ worker[n]["publisher"].pc = "effect"
           /\ delivered' \in {delivered, delivered \cup {worker[n]["publisher"].cursor + 1}}
           /\ \/ UNCHANGED worker
              \/ \E r : /\ Become(n, "publisher", r) /\ Placed(r, tail[n])
                        /\ \/ r = Idle
                           \/ /\ r = Doing("checkpoint", worker[n]["publisher"].cursor, worker[n]["publisher"].upto)
                              /\ worker[n]["publisher"].cursor + 1 \in delivered'
<1>1. "publisher" \in Worker
  BY SMTT(30) DEF Worker
<1> QED BY <1>1, MovesArePlaced DEF Publish, GoTo

(* What the local task worker does between reading a record and its effect. *)
LEMMA WorksAre ==
    ASSUME Types, NEW n \in Node, Works(n)
    PROVE  /\ UNCHANGED <<committed, tail, ckpt, delivered, snap, cluster>>
           /\ \E r : /\ Become(n, "local_task", r) /\ Placed(r, tail[n])
                     /\ \/ r = Idle
                        \/ /\ worker[n]["local_task"].pc = "effect"
                           /\ \E pc \in {"dispatch", "enqueue", "checkpoint"} :
                                /\ r = Doing(pc, worker[n]["local_task"].cursor, worker[n]["local_task"].upto)
                                /\ pc = "checkpoint" => Current(n).kind # "activated"
<1>1. "local_task" \in Worker
  BY SMTT(30) DEF Worker
<1>2. CASE Execute(n)
  BY <1>1, <1>2, MovesArePlaced, SMTT(30) DEF Execute, GoTo
<1>3. CASE ExecutorFails(n)
  BY <1>1, <1>3, MovesArePlaced, SMTT(30) DEF ExecutorFails
<1>4. CASE DispatchFails(n)
  BY <1>1, <1>4, MovesArePlaced, SMTT(30) DEF DispatchFails
<1> QED BY <1>2, <1>3, <1>4 DEF Works

(* A record of a batch is one that is committed. *)
LEMMA CurrentIs ==
    ASSUME Types, NEW n \in Node, worker[n]["local_task"].pc \notin {"idle", "read"}
    PROVE  /\ worker[n]["local_task"].cursor + 1 \in 1..tail[n]
           /\ worker[n]["local_task"].cursor + 1 \in 1..Now
           /\ Now \in Nat /\ tail[n] \in Nat /\ tail[n] <= Now
           /\ Current(n) = outbox[worker[n]["local_task"].cursor + 1]
           /\ Current(n) \in Event /\ Current(n).task \in Task
<1>1. "local_task" \in Worker /\ outbox \in Seq(Event) /\ tail[n] \in Nat /\ tail[n] <= Now
  BY DEF Worker, Types
<1>2. worker[n]["local_task"].cursor + 1 \in 1..tail[n]
  BY <1>1, MovesArePlaced
<1>3. Now \in Nat
  BY <1>1 DEF Now
<1>4. worker[n]["local_task"].cursor + 1 \in 1..Now
  BY <1>1, <1>2, <1>3
<1>5. outbox[worker[n]["local_task"].cursor + 1] \in Event
  BY <1>1, <1>4, SMTT(30) DEF Now
<1> QED BY <1>1, <1>2, <1>3, <1>4, <1>5, EventsAre, SMTT(30) DEF Current

(* A dispatched completion is in the log before the worker goes to checkpoint. *)
LEMMA DispatchIs ==
    ASSUME Types, NEW n \in Node, Dispatch(n)
    PROVE  /\ UNCHANGED <<enqueued, shredded, ckpt, delivered, snap, cluster>>
           /\ worker[n]["local_task"].pc = "dispatch"
           /\ \/ /\ UNCHANGED <<outbox, tail>>
                 /\ \E r : /\ Become(n, "local_task", r) /\ Placed(r, tail[n])
                           /\ \/ r = Idle
                              \/ /\ r = Doing("checkpoint", worker[n]["local_task"].cursor, worker[n]["local_task"].upto)
                                 /\ "local" \in EndedBy(Current(n).task, tail[n])
              \/ /\ outbox' = Append(outbox, Ended(Current(n).task, "local"))
                 /\ tail' \in {tail, [tail EXCEPT ![n] = Now + 1]}
                 /\ \E r : /\ Become(n, "local_task", r) /\ Placed(r, tail[n])
                           /\ \/ r = Idle
                              \/ r = Doing("checkpoint", worker[n]["local_task"].cursor, worker[n]["local_task"].upto)
<1>1. "local_task" \in Worker
  BY DEF Worker
<1>2. worker[n]["local_task"].pc = "dispatch" /\ UNCHANGED <<enqueued, shredded, ckpt, delivered, snap, cluster>>
  BY DEF Dispatch
<1>3. /\ Placed(Idle, tail[n])
      /\ Placed(Doing("checkpoint", worker[n]["local_task"].cursor, worker[n]["local_task"].upto), tail[n])
  BY <1>1, <1>2, MovesArePlaced, SMTT(30)
<1> QED BY <1>2, <1>3 DEF Dispatch, GoTo

(* A remote task is queued before the worker goes to checkpoint. *)
LEMMA EnqueueIs ==
    ASSUME Types, NEW n \in Node, Enqueue(n)
    PROVE  /\ UNCHANGED <<outbox, shredded, tail, ckpt, delivered, snap, cluster>>
           /\ worker[n]["local_task"].pc = "enqueue"
           /\ enqueued' = enqueued \cup {Current(n).task}
           /\ \E r : /\ Become(n, "local_task", r) /\ Placed(r, tail[n])
                     /\ \/ r = Idle
                        \/ r = Doing("checkpoint", worker[n]["local_task"].cursor, worker[n]["local_task"].upto)
<1>1. "local_task" \in Worker
  BY DEF Worker
<1> QED BY <1>1, MovesArePlaced DEF Enqueue, GoTo

(* A crash leaves idle workers behind. *)
LEMMA CrashIs ==
    ASSUME Types, NEW n \in Node, Crash(n)
    PROVE  /\ UNCHANGED <<committed, tail, ckpt, delivered, snap>>
           /\ up' = up \ {n} /\ leads' = leads \ {n}
           /\ leader' = IF leader = n THEN NoNode ELSE leader
           /\ DOMAIN worker' = Node /\ \A m \in Node : DOMAIN worker'[m] = Worker
           /\ \A m \in Node, v \in Worker : worker'[m][v] = Idle \/ worker'[m][v] = worker[m][v]
<1>1. DOMAIN worker = Node /\ \A m \in Node : DOMAIN worker[m] = Worker
  BY DEF Types
<1>2. worker' = [worker EXCEPT ![n] = [w \in Worker |-> Idle]]
  BY DEF Crash
<1>3. \A m \in Node : worker'[m] = IF m = n THEN [w \in Worker |-> Idle] ELSE worker[m]
  BY <1>1, <1>2
<1>4. DOMAIN worker' = Node
  BY <1>1, <1>2
<1> HIDE DEF Worker
<1>5. \A m \in Node : DOMAIN worker'[m] = Worker
  BY <1>1, <1>3
<1>6. \A m \in Node, v \in Worker : worker'[m][v] = Idle \/ worker'[m][v] = worker[m][v]
  BY <1>3
<1> QED BY <1>4, <1>5, <1>6 DEF Crash
-----------------------------------------------------------------------------
(* The parts of Types that a step may disturb separately. *)
Committed == outbox \in Seq(Event) /\ enqueued \subseteq Task /\ shredded \subseteq Task
Members   == up \subseteq Node /\ leads \subseteq up /\ leader \in up \cup {NoNode}
Marks     ==
    /\ tail \in [Node -> Nat] /\ ckpt \in [Node -> [Worker -> Nat]]
    /\ snap \in [tail : Nat, ckpt : [Worker -> Nat]] /\ snap.tail <= Now
    /\ \A n \in Node : tail[n] <= Now
    /\ \A n \in Node, w \in Worker : ckpt[n][w] <= tail[n]
    /\ \A w \in Worker : snap.ckpt[w] <= snap.tail
Workers   ==
    /\ DOMAIN worker = Node /\ \A n \in Node : DOMAIN worker[n] = Worker
    /\ \A n \in Node, w \in Worker : Placed(worker[n][w], tail[n])

(* Types, in four parts that change separately. *)
LEMMA TypesAre == Types <=> Committed /\ Members /\ Marks /\ Workers
  BY DEF Types, Committed, Members, Marks, Workers

(* No step takes back what is committed. *)
LEMMA NextExtends ==
    ASSUME Types, Next PROVE Extends /\ Committed'
<1> USE DEF committed
<1>1. outbox \in Seq(Event) /\ enqueued \subseteq Task /\ shredded \subseteq Task /\ Now \in Nat
  BY DEF Types, Now
<1>2. CASE UNCHANGED committed
  BY <1>1, <1>2 DEF Extends, Committed, Now
<1>3. ASSUME NEW e \in Event, outbox' = Append(outbox, e), UNCHANGED <<enqueued, shredded>>
      PROVE  Extends /\ Committed'
  <2>1. /\ outbox' \in Seq(Event) /\ Now' = Now + 1
        /\ \A c \in 1..Now : outbox'[c] = outbox[c]
    BY <1>1, <1>3, AppendExtends, ZenonT(30)
  <2>2. enqueued' = enqueued /\ shredded' = shredded
    BY <1>3
  <2>3. Now' \in Nat /\ Now <= Now'
    BY <1>1, <2>1
  <2>4. Extends
    BY <1>1, <2>1, <2>2, <2>3, Zenon DEF Extends
  <2>5. Committed'
    BY <1>1, <2>1, <2>2, Zenon DEF Committed
  <2> QED BY <2>4, <2>5
<1>4. ASSUME NEW t \in Task, Logs(t) PROVE Extends /\ Committed'
  BY <1>3, <1>4, EventsAre DEF Logs, Activate, RemoteComplete, Cancel
<1>5. ASSUME NEW t \in Task, Shred(t) PROVE Extends /\ Committed'
  BY <1>1, <1>5 DEF Shred, Extends, Committed, Now
<1>6. ASSUME NEW n \in Node, Dispatch(n) PROVE Extends /\ Committed'
  <2>1. Current(n).task \in Task
    BY <1>6, CurrentIs DEF Dispatch
  <2>2. CASE UNCHANGED outbox
    BY <1>2, <1>6, <2>2, SMTT(30) DEF Dispatch
  <2>3. CASE outbox' = Append(outbox, Ended(Current(n).task, "local"))
    BY <1>3, <1>6, <2>1, <2>3, EventsAre, SMTT(30) DEF Dispatch
  <2> QED BY <1>6, <2>2, <2>3, SMTT(30) DEF Dispatch
<1>7. ASSUME NEW n \in Node, Enqueue(n) PROVE Extends /\ Committed'
  <2>1. Current(n).task \in Task
    BY <1>7, CurrentIs DEF Enqueue
  <2> QED BY <1>1, <1>7, <2>1, SMTT(30) DEF Enqueue, Extends, Committed, Now
<1>8. ASSUME NEW n \in Node, ApplyNext(n) \/ BuildSnapshot(n) \/ InstallSnapshot(n) \/ Leads(n) \/ Crash(n)
      PROVE  UNCHANGED committed
  BY <1>8, SMTT(30) DEF ApplyNext, BuildSnapshot, InstallSnapshot, Leads, Elect, StepDown, Restart, Crash
<1>9. ASSUME NEW n \in Node, NEW w \in Worker, Turns(n, w) \/ Publish(n) \/ Works(n) PROVE UNCHANGED committed
  BY <1>9 DEF Turns, Poll, Read, Checkpoint, Publish, Works, Execute, ExecutorFails, DispatchFails
<1>10. "publisher" \in Worker
  BY DEF Worker
<1> QED BY <1>2, <1>4, <1>5, <1>6, <1>7, <1>8, <1>9, <1>10, NextCases, SMTT(30)

(* Only running nodes lead. *)
LEMMA MembersStep ==
    ASSUME Types, Next PROVE Members'
<1>1. Members
  BY TypesAre
<1>2. CASE UNCHANGED <<up, leads, leader>>
  BY <1>1, <1>2 DEF Members
<1>3. ASSUME NEW n \in Node, Leads(n) PROVE Members'
  BY <1>1, <1>3 DEF Members, Leads, Elect, StepDown, Restart
<1>4. ASSUME NEW n \in Node, Crash(n) PROVE Members'
  BY <1>1, <1>4 DEF Members, Crash
<1>5. ASSUME NEW t \in Task, Logs(t) \/ Shred(t) PROVE UNCHANGED <<up, leads, leader>>
  BY <1>5 DEF Logs, Activate, RemoteComplete, Cancel, Shred, cluster
<1>6. ASSUME NEW n \in Node, ApplyNext(n) \/ BuildSnapshot(n) \/ InstallSnapshot(n) \/ Dispatch(n) \/ Enqueue(n)
      PROVE  UNCHANGED <<up, leads, leader>>
  BY <1>6, SMTT(30) DEF ApplyNext, BuildSnapshot, InstallSnapshot, Dispatch, Enqueue, cluster
<1>7. ASSUME NEW n \in Node, NEW w \in Worker, Turns(n, w) \/ Publish(n) \/ Works(n)
      PROVE  UNCHANGED <<up, leads, leader>>
  BY <1>7 DEF Turns, Poll, Read, Checkpoint, Publish, Works, Execute, ExecutorFails, DispatchFails, cluster
<1>8. "publisher" \in Worker
  BY DEF Worker
<1> QED BY <1>2, <1>3, <1>4, <1>5, <1>6, <1>7, <1>8, NextCases, SMTT(30)

(* Who moves a tail, a checkpoint or the snapshot. *)
LEMMA MarksMove ==
    ASSUME Types, Next
    PROVE  \/ UNCHANGED <<tail, ckpt, snap>>
           \/ \E n \in Node : \/ ApplyNext(n) \/ BuildSnapshot(n) \/ InstallSnapshot(n) \/ Dispatch(n)
                              \/ \E w \in Worker : Turns(n, w)
<1>1. ASSUME NEW t \in Task, Logs(t) \/ Shred(t) PROVE UNCHANGED <<tail, ckpt, snap>>
  BY <1>1, SMTT(30) DEF Logs, Activate, RemoteComplete, Cancel, Shred
<1>2. ASSUME NEW n \in Node, Leads(n) \/ Crash(n) \/ Publish(n) \/ Works(n) \/ Enqueue(n)
      PROVE  UNCHANGED <<tail, ckpt, snap>>
  BY <1>2 DEF Leads, Elect, StepDown, Restart, Crash, Publish, Works, Execute, ExecutorFails, DispatchFails, Enqueue
<1> QED BY <1>1, <1>2, NextCases

(* Checkpoints stay below the applied prefix, which never shrinks. *)
LEMMA MarksStep ==
    ASSUME Types, Next
    PROVE  Marks' /\ \A n \in Node : tail[n] <= tail'[n]
<1>1. Marks /\ Now \in Nat /\ Now' \in Nat /\ Now <= Now'
  BY TypesAre, NextExtends DEF Extends
<1>2. CASE UNCHANGED <<tail, ckpt, snap>>
  BY <1>1, <1>2 DEF Marks
<1>3. ASSUME NEW n \in Node, ApplyNext(n) PROVE Marks' /\ \A m \in Node : tail[m] <= tail'[m]
  BY <1>1, <1>3 DEF Marks, ApplyNext
<1>4. ASSUME NEW n \in Node, BuildSnapshot(n) PROVE Marks' /\ \A m \in Node : tail[m] <= tail'[m]
  BY <1>1, <1>4 DEF Marks, BuildSnapshot
<1>5. ASSUME NEW n \in Node, InstallSnapshot(n) PROVE Marks' /\ \A m \in Node : tail[m] <= tail'[m]
  BY <1>1, <1>5 DEF Marks, InstallSnapshot
<1>6. ASSUME NEW n \in Node, Dispatch(n) PROVE Marks' /\ \A m \in Node : tail[m] <= tail'[m]
  <2>1. ckpt' = ckpt /\ snap' = snap
    BY <1>6 DEF Dispatch
  <2>2. CASE tail' = tail
    BY <1>1, <2>1, <2>2, SMTT(30) DEF Marks
  <2>3. CASE tail' = [tail EXCEPT ![n] = Now + 1] /\ outbox' = Append(outbox, Ended(Current(n).task, "local"))
    <3>1. Current(n).task \in Task
      BY <1>6, CurrentIs DEF Dispatch
    <3>2. Now' = Now + 1
      BY <2>3, <3>1, EventsAre, AppendExtends, SMTT(30) DEF Types
    <3> QED BY <1>1, <2>1, <2>3, <3>2, SMTT(30) DEF Marks
  <2> QED BY <1>6, <2>2, <2>3, SMTT(30) DEF Dispatch
<1>7. ASSUME NEW n \in Node, NEW w \in Worker, Turns(n, w) PROVE Marks' /\ \A m \in Node : tail[m] <= tail'[m]
  <2>1. tail' = tail /\ snap' = snap
    BY <1>7, TurnsAre
  <2>2. CASE ckpt' = ckpt
    BY <1>1, <2>1, <2>2 DEF Marks
  <2>3. CASE /\ worker[n][w].pc = "checkpoint" /\ ckpt[n][w] = worker[n][w].cursor
             /\ ckpt[n][w] + 1 <= tail[n]
             /\ ckpt' = [ckpt EXCEPT ![n][w] = worker[n][w].cursor + 1]
    <3>1. ckpt' \in [Node -> [Worker -> Nat]]
      BY <1>1, <2>3 DEF Marks
    <3>2. \A m \in Node, v \in Worker : ckpt'[m][v] <= tail[m]
      BY <1>1, <2>3 DEF Marks
    <3> QED BY <1>1, <2>1, <3>1, <3>2, SMTT(30) DEF Marks
  <2> QED BY <1>7, <2>2, <2>3, TurnsAre, SMTT(30)
<1> QED BY <1>2, <1>3, <1>4, <1>5, <1>6, <1>7, MarksMove, SMTT(30)

(* Every worker stays placed within the prefix its node has applied. *)
LEMMA WorkersStep ==
    ASSUME Types, Next PROVE Workers'
<1>1. tail' \in [Node -> Nat] /\ \A n \in Node : tail[n] <= tail'[n]
  BY MarksStep DEF Marks
<1>2. ASSUME NEW n \in Node, NEW w \in Worker, NEW r, Become(n, w, r), Placed(r, tail[n]) PROVE Workers'
  <2>1. Placed(r, tail'[n])
    BY <1>1, <1>2, PlacedStays DEF Types
  <2> QED BY <1>1, <1>2, <2>1, BecomePlaced DEF Workers
<1>3. CASE UNCHANGED worker
  <2>1. \A n \in Node, w \in Worker : Placed(worker[n][w], tail'[n])
    BY <1>1, PlacedStays DEF Types
  <2> QED BY <1>3, <2>1 DEF Workers, Types
<1>4. ASSUME NEW n \in Node, Crash(n) PROVE Workers'
  <2>1. \A m \in Node, v \in Worker : Placed(worker[m][v], tail'[m]) /\ Placed(Idle, tail'[m])
    BY <1>1, PlacedStays, PlacedStates, SMTT(30) DEF Types
  <2> QED BY <1>4, <2>1, CrashIs, SMTT(30) DEF Workers
<1>5. ASSUME NEW t \in Task, Logs(t) \/ Shred(t) PROVE UNCHANGED worker
  BY <1>5 DEF Logs, Activate, RemoteComplete, Cancel, Shred
<1>6. ASSUME NEW n \in Node, ApplyNext(n) \/ BuildSnapshot(n) \/ InstallSnapshot(n) \/ Leads(n)
      PROVE  UNCHANGED worker
  BY <1>6 DEF ApplyNext, BuildSnapshot, InstallSnapshot, Leads, Elect, StepDown, Restart
<1>7. ASSUME NEW n \in Node, NEW w \in Worker, Turns(n, w) PROVE Workers'
  BY <1>2, <1>7, TurnsAre
<1>8. "publisher" \in Worker /\ "local_task" \in Worker
  BY SMTT(30) DEF Worker
<1>9. ASSUME NEW n \in Node, Publish(n) PROVE Workers'
  BY <1>2, <1>3, <1>8, <1>9, PublishIs, SMTT(30)
<1>10. ASSUME NEW n \in Node, Works(n) PROVE Workers'
  BY <1>2, <1>8, <1>10, WorksAre, SMTT(30)
<1>11. ASSUME NEW n \in Node, Dispatch(n) PROVE Workers'
  BY <1>2, <1>8, <1>11, DispatchIs, SMTT(30)
<1>12. ASSUME NEW n \in Node, Enqueue(n) PROVE Workers'
  BY <1>2, <1>8, <1>12, EnqueueIs
<1> QED BY <1>3, <1>4, <1>5, <1>6, <1>7, <1>9, <1>10, <1>11, <1>12, NextCases, SMTT(30)

(* Types is invariant. *)
LEMMA TypesInvariant == Spec => []Types
<1>1. Init => Types
  <2> SUFFICES ASSUME Init PROVE Types
    OBVIOUS
  <2>1. outbox \in Seq(Event) /\ Now = 0
    BY DEF Init, Now
  <2>2. \A n \in Node, w \in Worker : worker[n][w] = Idle /\ tail[n] = 0 /\ ckpt[n][w] = 0
    BY DEF Init
  <2>3. \A n \in Node, w \in Worker : Placed(worker[n][w], tail[n])
    BY <2>2, PlacedStates, SMTT(30)
  <2> QED BY <2>1, <2>3 DEF Init, Types
<1>2. ASSUME Types, Next PROVE Types'
  BY <1>2, NextExtends, MembersStep, MarksStep, WorkersStep, SMTT(30) DEF Types, Committed, Members, Marks, Workers
<1>3. ASSUME Types, UNCHANGED vars PROVE Types'
  BY <1>3 DEF Types, vars, committed, cluster, Now
<1> QED BY <1>1, <1>2, <1>3, PTL DEF Spec
-----------------------------------------------------------------------------
(* A mark covers no less when more is held. *)
LEMMA CoversStays ==
    ASSUME NEW r, NEW d, NEW e, d \subseteq e, Covers(r, d) PROVE Covers(r, e)
  BY DEF Covers

(* Only an attempt to publish gives the broker a record: the next one. *)
LEMMA DeliveredMoves ==
    ASSUME Types, Next
    PROVE  \/ UNCHANGED delivered
           \/ \E n \in Node : /\ Publish(n)
                              /\ delivered' = delivered \cup {worker[n]["publisher"].cursor + 1}
<1>1. ASSUME NEW t \in Task, Logs(t) \/ Shred(t) PROVE UNCHANGED delivered
  BY <1>1, SMTT(30) DEF Logs, Activate, RemoteComplete, Cancel, Shred
<1>2. ASSUME NEW n \in Node, ApplyNext(n) \/ BuildSnapshot(n) \/ InstallSnapshot(n) \/ Leads(n) \/ Crash(n)
      PROVE  UNCHANGED delivered
  BY <1>2, SMTT(30) DEF ApplyNext, BuildSnapshot, InstallSnapshot, Leads, Elect, StepDown, Restart, Crash
<1>3. ASSUME NEW n \in Node, NEW w \in Worker, Turns(n, w) \/ Works(n) \/ Dispatch(n) \/ Enqueue(n)
      PROVE  UNCHANGED delivered
  BY <1>3, SMTT(30) DEF Turns, Poll, Read, Checkpoint, Works, Execute, ExecutorFails, DispatchFails, Dispatch, Enqueue
<1>4. "publisher" \in Worker
  BY DEF Worker
<1>5. ASSUME NEW n \in Node, Publish(n)
      PROVE  UNCHANGED delivered \/ delivered' = delivered \cup {worker[n]["publisher"].cursor + 1}
  BY <1>5, PublishIs, SMTT(30)
<1> QED BY <1>1, <1>2, <1>3, <1>4, <1>5, NextCases, SMTT(30)

(* The broker forgets nothing and holds a prefix of the outbox. *)
LEMMA DeliveredGrows ==
    ASSUME Types, Published, Next
    PROVE  delivered \subseteq delivered' /\ delivered' \subseteq 1..Now' /\ DeliveredIsPrefix'
<1>1. Now \in Nat /\ Now' \in Nat /\ Now <= Now' /\ delivered \subseteq 1..Now
  BY NextExtends DEF Extends, Published
<1>2. CASE UNCHANGED delivered
  BY <1>1, <1>2 DEF Published, DeliveredIsPrefix
<1>3. ASSUME NEW n \in Node, Publish(n), delivered' = delivered \cup {worker[n]["publisher"].cursor + 1}
      PROVE  delivered \subseteq delivered' /\ delivered' \subseteq 1..Now' /\ DeliveredIsPrefix'
  <2> DEFINE c == worker[n]["publisher"].cursor
  <2>1. worker[n]["publisher"].pc = "effect"
    BY <1>3, PublishIs
  <2>2. "publisher" \in Worker
    BY DEF Worker
  <2>3. c \in Nat /\ c + 1 <= tail[n] /\ tail[n] \in Nat /\ tail[n] <= Now
    <3>1. tail[n] \in Nat /\ tail[n] <= Now
      BY SMTT(30) DEF Types
    <3>2. c \in Nat /\ worker[n]["publisher"].upto \in Nat
          /\ c < worker[n]["publisher"].upto /\ worker[n]["publisher"].upto <= tail[n]
      BY <2>1, <2>2, MovesArePlaced, SMTT(30)
    <3> HIDE DEF c
    <3> QED BY <3>1, <3>2, SMTT(30)
  <2>4. 1..c \subseteq delivered
    BY <2>1 DEF Published, Covered, Covers
  <2>5. \A d \in delivered : 1..d \subseteq delivered
    BY DEF Published, DeliveredIsPrefix
  <2>6. delivered' = delivered \cup {c + 1}
    BY <1>3
  <2> HIDE DEF c
  <2>7. 1..(c + 1) \subseteq delivered'
    BY <2>3, <2>4, <2>6, SMTT(30)
  <2>8. delivered' \subseteq 1..Now'
    BY <1>1, <2>3, <2>6, SMTT(30)
  <2>9. DeliveredIsPrefix'
    BY <2>5, <2>6, <2>7, SMTT(30) DEF DeliveredIsPrefix
  <2> QED BY <2>6, <2>8, <2>9, SMTT(30)
<1> QED BY <1>2, <1>3, DeliveredMoves, SMTT(30)

(* A worker stays, goes onward, or takes another step at its record. *)
LEMMA WorkerMoves ==
    ASSUME Types, Next, NEW n \in Node, NEW w \in Worker
    PROVE  \/ worker'[n][w] = worker[n][w]
           \/ Onward(n, w, worker'[n][w])
           \/ worker[n][w].pc # "idle" /\ worker'[n][w].cursor = worker[n][w].cursor
<1> DEFINE Goal == \/ worker'[n][w] = worker[n][w]
                   \/ Onward(n, w, worker'[n][w])
                   \/ worker[n][w].pc # "idle" /\ worker'[n][w].cursor = worker[n][w].cursor
<1>1. Onward(n, w, Idle)
  BY DoingIs, SMTT(30) DEF Onward
<1>2. ASSUME NEW m \in Node, NEW v \in Worker, NEW r, Become(m, v, r),
             \/ Onward(m, v, r)
             \/ r = Idle
             \/ worker[m][v].pc # "idle" /\ r.cursor = worker[m][v].cursor
      PROVE  Goal
  BY <1>1, <1>2, BecomeIs, SMTT(30)
<1>3. "publisher" \in Worker /\ "local_task" \in Worker
  BY SMTT(30) DEF Worker
<1>4. ASSUME NEW m \in Node, NEW v \in Worker, Turns(m, v) PROVE Goal
  BY <1>2, <1>4, TurnsAre, SMTT(30)
<1>5. ASSUME NEW m \in Node, Publish(m) PROVE Goal
  BY <1>2, <1>3, <1>5, PublishIs, DoingIs, SMTT(30)
<1>6. ASSUME NEW m \in Node, Works(m) PROVE Goal
  BY <1>2, <1>3, <1>6, WorksAre, DoingIs, SMTT(30)
<1>7. ASSUME NEW m \in Node, Dispatch(m) PROVE Goal
  BY <1>2, <1>3, <1>7, DispatchIs, DoingIs, SMTT(30)
<1>8. ASSUME NEW m \in Node, Enqueue(m) PROVE Goal
  BY <1>2, <1>3, <1>8, EnqueueIs, DoingIs, SMTT(30)
<1>9. ASSUME NEW m \in Node, Crash(m) PROVE Goal
  BY <1>1, <1>9, CrashIs, SMTT(30)
<1>10. ASSUME NEW t \in Task, Logs(t) \/ Shred(t) PROVE UNCHANGED worker
  BY <1>10, SMTT(30) DEF Logs, Activate, RemoteComplete, Cancel, Shred
<1>11. ASSUME NEW m \in Node, ApplyNext(m) \/ BuildSnapshot(m) \/ InstallSnapshot(m) \/ Leads(m)
       PROVE  UNCHANGED worker
  BY <1>11 DEF ApplyNext, BuildSnapshot, InstallSnapshot, Leads, Elect, StepDown, Restart
<1> HIDE DEF Goal
<1>12. Goal \/ UNCHANGED worker
  BY <1>4, <1>5, <1>6, <1>7, <1>8, <1>9, <1>10, <1>11, NextCases, SMTT(30)
<1> QED BY <1>12, SMTT(30) DEF Goal

(* What the cursors of a worker have passed stays held, if what is held only  *)
(* grows and a worker comes to a checkpoint with its record held.             *)
LEMMA CoveredStep ==
    ASSUME Types, Next, NEW w \in Worker, NEW held, NEW more, Covered(w, held), held \subseteq more,
           \A n \in Node : worker'[n][w].pc = "checkpoint" =>
               worker[n][w] = worker'[n][w] \/ worker'[n][w].cursor + 1 \in more
    PROVE  /\ \A n \in Node : 1..ckpt'[n][w] \subseteq more
           /\ 1..snap'.ckpt[w] \subseteq more
           /\ \A n \in Node : Covers(worker'[n][w], more)
<1>1. /\ \A n \in Node : 1..ckpt[n][w] \subseteq more
      /\ 1..snap.ckpt[w] \subseteq more
      /\ \A n \in Node : Covers(worker[n][w], more)
  BY CoversStays DEF Covered
<1>2. ASSUME NEW n \in Node, worker[n][w].pc = "checkpoint"
      PROVE  1..(worker[n][w].cursor + 1) \subseteq more
  <2>1. worker[n][w].cursor \in Nat
    BY <1>2, MovesArePlaced, SMTT(30)
  <2>2. 1..worker[n][w].cursor \subseteq more /\ worker[n][w].cursor + 1 \in more
    BY <1>1, <1>2, SMTT(30) DEF Covers
  <2> QED BY <2>1, <2>2, SMTT(30)
<1>3. \A n \in Node : 1..ckpt'[n][w] \subseteq more
  <2>1. CASE UNCHANGED ckpt
    BY <1>1, <2>1, SMTT(30)
  <2>2. ASSUME NEW m \in Node, InstallSnapshot(m) PROVE \A n \in Node : 1..ckpt'[n][w] \subseteq more
    BY <1>1, <2>2, SMTT(30) DEF InstallSnapshot, Types
  <2>3. ASSUME NEW m \in Node, NEW v \in Worker, Turns(m, v) PROVE \A n \in Node : 1..ckpt'[n][w] \subseteq more
    <3>1. CASE UNCHANGED ckpt
      BY <2>1, <3>1, SMTT(30)
    <3>2. CASE worker[m][v].pc = "checkpoint" /\ ckpt' = [ckpt EXCEPT ![m][v] = worker[m][v].cursor + 1]
      <4>1. \A n \in Node : \/ ckpt'[n][w] = ckpt[n][w]
                            \/ n = m /\ v = w /\ ckpt'[n][w] = worker[m][w].cursor + 1
        BY <3>2, SMTT(30) DEF Types
      <4> QED BY <1>1, <1>2, <3>2, <4>1, SMTT(30)
    <3> QED BY <2>3, <3>1, <3>2, TurnsAre, SMTT(30)
  <2>4. ASSUME NEW m \in Node, ApplyNext(m) \/ BuildSnapshot(m) \/ Dispatch(m) PROVE UNCHANGED ckpt
    BY <2>4, SMTT(30) DEF ApplyNext, BuildSnapshot, Dispatch
  <2> QED BY <2>1, <2>2, <2>3, <2>4, MarksMove, SMTT(30)
<1>4. 1..snap'.ckpt[w] \subseteq more
  <2>1. CASE UNCHANGED snap
    BY <1>1, <2>1, SMTT(30)
  <2>2. ASSUME NEW m \in Node, BuildSnapshot(m) PROVE 1..snap'.ckpt[w] \subseteq more
    BY <1>1, <2>2, SMTT(30) DEF BuildSnapshot
  <2>3. ASSUME NEW m \in Node, NEW v \in Worker, Turns(m, v) PROVE UNCHANGED snap
    BY <2>3, TurnsAre, SMTT(30)
  <2>4. ASSUME NEW m \in Node, ApplyNext(m) \/ InstallSnapshot(m) \/ Dispatch(m) PROVE UNCHANGED snap
    BY <2>4, ZenonT(30) DEF ApplyNext, InstallSnapshot, Dispatch
  <2> QED BY <2>1, <2>2, <2>3, <2>4, MarksMove, SMTT(30)
<1>5. ASSUME NEW n \in Node PROVE Covers(worker'[n][w], more)
  <2>1. CASE worker'[n][w] = worker[n][w]
    BY <1>1, <2>1, SMTT(30)
  <2>2. CASE worker'[n][w] # worker[n][w]
    <3>1. worker'[n][w].pc = "checkpoint" => worker'[n][w].cursor + 1 \in more
      BY <2>2, SMTT(30)
    <3>2. worker'[n][w].pc # "idle" => 1..worker'[n][w].cursor \subseteq more
      <4>1. CASE Onward(n, w, worker'[n][w])
        BY <1>1, <1>2, <4>1, SMTT(30) DEF Onward, Covers
      <4>2. CASE worker[n][w].pc # "idle" /\ worker'[n][w].cursor = worker[n][w].cursor
        BY <1>1, <4>2 DEF Covers
      <4> QED BY <2>2, <4>1, <4>2, WorkerMoves, SMTT(30)
    <3> QED BY <3>1, <3>2, SMTT(30) DEF Covers
  <2> QED BY <2>1, <2>2, SMTT(30)
<1> QED BY <1>3, <1>4, <1>5, SMTT(30)
-----------------------------------------------------------------------------
(* What is done stays done. *)
LEMMA DoneStays == ASSUME Types, Next PROVE Done \subseteq Done'
<1>1. Extends
  BY NextExtends
<1>2. ASSUME NEW c \in Done PROVE c \in 1..Now' /\ Handled(c)'
  BY <1>1, HandledStays, SMTT(30) DEF Done, Extends
<1> QED BY <1>2 DEF Done

(* A dispatched completion or a queued task makes the record handled. *)
LEMMA HandledNow ==
    ASSUME Types, Next, NEW c \in 1..Now,
           \/ outbox[c].kind # "activated"
           \/ \E k \in 1..Now' : outbox'[k].kind = "ended" /\ outbox'[k].task = outbox[c].task /\ outbox'[k].by = "local"
           \/ outbox[c].task \in enqueued'
    PROVE  c \in Done'
<1>1. Extends
  BY NextExtends
<1>2. c \in 1..Now' /\ outbox'[c] = outbox[c]
  BY <1>1, SMTT(30) DEF Extends
<1>3. CASE outbox[c].kind # "activated" \/ outbox[c].task \in enqueued'
  BY <1>2, <1>3, SMTT(30) DEF Done, Handled
<1>4. ASSUME NEW k \in 1..Now', outbox'[k].kind = "ended", outbox'[k].task = outbox[c].task, outbox'[k].by = "local"
      PROVE  c \in Done'
  <2>1. ("local" \in EndedBy(outbox[c].task, Now))'
    BY <1>2, <1>4, SMTT(30) DEF EndedBy, Upto
  <2> QED BY <1>2, <2>1, SMTT(30) DEF Done, Handled
<1> QED BY <1>3, <1>4, SMTT(30)

(* No worker comes to a checkpoint but with its record in the broker, or done. *)
LEMMA ArrivesWhenDone ==
    ASSUME Types, Next, NEW n \in Node, NEW w \in Worker,
           worker'[n][w].pc = "checkpoint", worker'[n][w] # worker[n][w]
    PROVE  IF w = "publisher" THEN worker'[n][w].cursor + 1 \in delivered' ELSE worker'[n][w].cursor + 1 \in Done'
<1> DEFINE Goal == IF w = "publisher" THEN worker'[n][w].cursor + 1 \in delivered' ELSE worker'[n][w].cursor + 1 \in Done'
<1>1. "publisher" \in Worker /\ "local_task" \in Worker /\ "local_task" # "publisher"
  BY DEF Worker
<1>2. ASSUME NEW m \in Node, NEW v \in Worker, NEW r, Become(m, v, r) PROVE m = n /\ v = w /\ worker'[n][w] = r
  BY <1>2, BecomeIs, SMTT(30)
<1>3. ASSUME NEW m \in Node, NEW v \in Worker, Turns(m, v) PROVE FALSE
  <2>1. PICK r : Become(m, v, r) /\ Onward(m, v, r)
    BY <1>3, TurnsAre, SMTT(30)
  <2>2. worker'[n][w] = r
    BY <1>2, <2>1, SMTT(30)
  <2> QED BY <2>1, <2>2, SMTT(30) DEF Onward
<1>4. ASSUME NEW m \in Node, Publish(m) PROVE Goal
  <2>1. PICK r : /\ Become(m, "publisher", r)
                 /\ \/ r = Idle
                    \/ /\ r = Doing("checkpoint", worker[m]["publisher"].cursor, worker[m]["publisher"].upto)
                       /\ worker[m]["publisher"].cursor + 1 \in delivered'
    BY <1>4, PublishIs, SMTT(30)
  <2>2. w = "publisher" /\ worker'[n][w] = r
    BY <1>1, <1>2, <2>1, SMTT(30)
  <2> QED BY <2>1, <2>2, DoingIs, SMTT(30)
<1>5. ASSUME NEW m \in Node, worker[m]["local_task"].pc \in {"effect", "dispatch", "enqueue"},
             NEW r, Become(m, "local_task", r),
             r = Doing("checkpoint", worker[m]["local_task"].cursor, worker[m]["local_task"].upto),
             \/ Current(m).kind # "activated"
             \/ \E k \in 1..Now' : /\ outbox'[k].kind = "ended" /\ outbox'[k].task = Current(m).task
                                   /\ outbox'[k].by = "local"
             \/ Current(m).task \in enqueued'
      PROVE  Goal
  <2>1. w = "local_task" /\ worker'[n][w] = r
    BY <1>1, <1>2, <1>5, SMTT(30)
  <2>2. worker'[n][w].cursor = worker[m]["local_task"].cursor
    BY <1>5, <2>1, DoingIs, SMTT(30)
  <2>3. worker[m]["local_task"].cursor + 1 \in 1..Now /\ Current(m) = outbox[worker[m]["local_task"].cursor + 1]
    BY <1>5, CurrentIs, SMTT(30)
  <2>4. worker[m]["local_task"].cursor + 1 \in Done'
    BY <1>5, <2>3, HandledNow, SMTT(30)
  <2> QED BY <1>1, <2>1, <2>2, <2>4, SMTT(30)
<1>6. ASSUME NEW m \in Node, NEW v \in Worker, Become(m, v, Idle) PROVE FALSE
  BY <1>2, <1>6, DoingIs, SMTT(30)
<1>7. ASSUME NEW m \in Node, Works(m) PROVE Goal
  <2>1. PICK r : /\ Become(m, "local_task", r)
                 /\ \/ r = Idle
                    \/ /\ worker[m]["local_task"].pc = "effect"
                       /\ \E pc \in {"dispatch", "enqueue", "checkpoint"} :
                            /\ r = Doing(pc, worker[m]["local_task"].cursor, worker[m]["local_task"].upto)
                            /\ pc = "checkpoint" => Current(m).kind # "activated"
    BY <1>7, WorksAre, SMTT(30)
  <2>2. r.pc = "checkpoint"
    BY <1>1, <1>2, <2>1, SMTT(30)
  <2>3. /\ r = Doing("checkpoint", worker[m]["local_task"].cursor, worker[m]["local_task"].upto)
        /\ worker[m]["local_task"].pc = "effect" /\ Current(m).kind # "activated"
    BY <2>1, <2>2, DoingIs, SMTT(30)
  <2> QED BY <1>5, <2>1, <2>3, SMTT(30)
<1>8. ASSUME NEW m \in Node, Dispatch(m) PROVE Goal
  <2>1. worker[m]["local_task"].pc = "dispatch"
    BY <1>8, DispatchIs, SMTT(30)
  <2>2. /\ Now \in Nat /\ tail[m] \in Nat /\ tail[m] <= Now /\ Current(m).task \in Task
    BY <2>1, CurrentIs
  <2>3. Extends
    BY NextExtends, SMTT(30)
  <2>4. ASSUME "local" \in EndedBy(Current(m).task, tail[m])
        PROVE  \E k \in 1..Now' : outbox'[k].kind = "ended" /\ outbox'[k].task = Current(m).task /\ outbox'[k].by = "local"
    <3>1. PICK k \in 1..tail[m] : outbox[k].kind = "ended" /\ outbox[k].task = Current(m).task /\ outbox[k].by = "local"
      BY <2>4, EndedByIs, SMTT(30)
    <3>2. k \in 1..Now /\ k \in 1..Now'
      BY <2>2, <2>3, SMTT(30) DEF Extends
    <3> QED BY <2>3, <3>1, <3>2, SMTT(30) DEF Extends
  <2>5. ASSUME outbox' = Append(outbox, Ended(Current(m).task, "local"))
        PROVE  \E k \in 1..Now' : outbox'[k].kind = "ended" /\ outbox'[k].task = Current(m).task /\ outbox'[k].by = "local"
    <3>1. Now' = Now + 1 /\ outbox'[Now + 1] = Ended(Current(m).task, "local")
      BY <2>2, <2>5, EventsAre, AppendExtends, ZenonT(30) DEF Types
    <3>2. Now + 1 \in 1..Now'
      BY <2>2, <3>1
    <3> QED BY <3>1, <3>2, SMTT(30) DEF Ended
  <2>6. PICK r : /\ Become(m, "local_task", r)
                 /\ \/ r = Idle
                    \/ /\ r = Doing("checkpoint", worker[m]["local_task"].cursor, worker[m]["local_task"].upto)
                       /\ \/ "local" \in EndedBy(Current(m).task, tail[m])
                          \/ outbox' = Append(outbox, Ended(Current(m).task, "local"))
    BY <1>8, DispatchIs, ZenonT(30)
  <2> QED BY <1>1, <1>5, <1>6, <2>1, <2>4, <2>5, <2>6, SMTT(30)
<1>9. ASSUME NEW m \in Node, Enqueue(m) PROVE Goal
  <2>1. PICK r : /\ Become(m, "local_task", r)
                 /\ \/ r = Idle
                    \/ r = Doing("checkpoint", worker[m]["local_task"].cursor, worker[m]["local_task"].upto)
    BY <1>9, EnqueueIs, ZenonT(30)
  <2>2. worker[m]["local_task"].pc = "enqueue" /\ Current(m).task \in enqueued'
    BY <1>9, EnqueueIs, ZenonT(30)
  <2> QED BY <1>1, <1>5, <1>6, <2>1, <2>2
<1>10. ASSUME NEW m \in Node, Crash(m) PROVE FALSE
  BY <1>10, CrashIs, DoingIs, SMTT(30)
<1>11. ASSUME NEW t \in Task, Logs(t) \/ Shred(t) PROVE UNCHANGED worker
  BY <1>11, SMTT(30) DEF Logs, Activate, RemoteComplete, Cancel, Shred
<1>12. ASSUME NEW m \in Node, ApplyNext(m) \/ BuildSnapshot(m) \/ InstallSnapshot(m) \/ Leads(m)
       PROVE  UNCHANGED worker
  BY <1>12, SMTT(30) DEF ApplyNext, BuildSnapshot, InstallSnapshot, Leads, Elect, StepDown, Restart
<1> HIDE DEF Goal
<1>13. Goal \/ UNCHANGED worker
  BY <1>3, <1>4, <1>7, <1>8, <1>9, <1>10, <1>11, <1>12, NextCases, ZenonT(30)
<1> QED BY <1>13 DEF Goal
-----------------------------------------------------------------------------
(* Both invariants hold in every reachable state. *)
LEMMA PublishedInvariant == Spec => [](Types /\ Published /\ Executed)
<1>1. "publisher" \in Worker /\ "local_task" \in Worker /\ "local_task" # "publisher"
  BY SMTT(30) DEF Worker
<1>2. Init => Published /\ Executed
  <2> SUFFICES ASSUME Init PROVE Published /\ Executed
    OBVIOUS
  <2>1. delivered = {} /\ snap.ckpt["publisher"] = 0 /\ snap.ckpt["local_task"] = 0
    BY <1>1 DEF Init
  <2>2. \A n \in Node, w \in Worker : ckpt[n][w] = 0 /\ worker[n][w] = Idle
    BY DEF Init
  <2>3. \A held : Covers(Idle, held)
    BY DoingIs DEF Covers
  <2> QED BY <1>1, <2>1, <2>2, <2>3 DEF Published, Executed, Covered, DeliveredIsPrefix
<1>3. ASSUME Types, Published, Executed, Next PROVE Published' /\ Executed'
  <2>1. delivered \subseteq delivered' /\ delivered' \subseteq 1..Now' /\ DeliveredIsPrefix'
    BY <1>3, DeliveredGrows
  <2>2. Done \subseteq Done'
    BY <1>3, DoneStays, SMTT(30)
  <2>3. \A n \in Node : /\ worker'[n]["publisher"].pc = "checkpoint" =>
                             worker[n]["publisher"] = worker'[n]["publisher"] \/ worker'[n]["publisher"].cursor + 1 \in delivered'
                        /\ worker'[n]["local_task"].pc = "checkpoint" =>
                             worker[n]["local_task"] = worker'[n]["local_task"] \/ worker'[n]["local_task"].cursor + 1 \in Done'
    BY <1>1, <1>3, ArrivesWhenDone, SMTT(30)
  <2>4. Covered("publisher", delivered)'
    <3>1. Covered("publisher", delivered)
      BY <1>3, SMTT(30) DEF Published
    <3>2. /\ \A n \in Node : 1..ckpt'[n]["publisher"] \subseteq delivered'
          /\ 1..snap'.ckpt["publisher"] \subseteq delivered'
          /\ \A n \in Node : Covers(worker'[n]["publisher"], delivered')
      BY <1>1, <1>3, <2>1, <2>3, <3>1, CoveredStep, ZenonT(30)
    <3> QED BY <3>2 DEF Covered, Covers
  <2>5. Covered("local_task", Done)'
    <3>1. Covered("local_task", Done)
      BY <1>3 DEF Executed
    <3>2. /\ \A n \in Node : 1..ckpt'[n]["local_task"] \subseteq Done'
          /\ 1..snap'.ckpt["local_task"] \subseteq Done'
          /\ \A n \in Node : Covers(worker'[n]["local_task"], Done')
      BY <1>1, <1>3, <2>2, <2>3, <3>1, CoveredStep, ZenonT(30)
    <3> QED BY <3>2 DEF Covered, Covers
  <2> QED BY <2>1, <2>4, <2>5 DEF Published, Executed
<1>4. ASSUME Published, Executed, UNCHANGED vars PROVE Published' /\ Executed'
  <2>1. UNCHANGED <<outbox, enqueued, delivered, ckpt, snap, worker>>
    BY <1>4, Zenon DEF vars, committed
  <2>2. Now' = Now
    BY <2>1, Zenon DEF Now
  <2>3. \A c : Handled(c)' <=> Handled(c)
    BY <2>1, <2>2, Zenon DEF Handled, EndedBy, Upto
  <2>4. Done' = Done
    BY <2>2, <2>3, Zenon DEF Done
  <2>5. Published'
    BY <1>4, <2>1, <2>2, Zenon DEF Published, Covered, Covers, DeliveredIsPrefix
  <2>6. Executed'
    BY <1>4, <2>1, <2>4, Zenon DEF Executed, Covered, Covers
  <2> QED BY <2>5, <2>6, Zenon
<1> QED BY <1>2, <1>3, <1>4, TypesInvariant, PTL DEF Spec

(* Whatever a node's publisher checkpoint covers is in the broker, the broker *)
(* holds a prefix of the outbox, and every activation a local task checkpoint *)
(* covers is completed by its own command or queued for a remote worker: with *)
(* any number of nodes that lead, crash, lag and install snapshots carrying   *)
(* each other's checkpoints.                                                  *)
THEOREM CheckpointsAreSound == Spec => []CheckpointsCoverWhatIsDone
<1>1. ASSUME Types, Published, Executed PROVE CheckpointsCoverWhatIsDone
  <2>1. "publisher" \in Worker /\ "local_task" \in Worker
    BY DEF Worker
  <2>2. outbox \in Seq(Event) /\ Now \in Nat
    BY <1>1 DEF Types, Now
  <2>3. \A c \in 1..Now : outbox[c].task \in Task
    BY <2>2, EventsAre, SMTT(30) DEF Now
  <2>4. \A n \in Node, w \in Worker :
          /\ tail[n] \in 0..Now
          /\ ckpt[n][w] \in 0..tail[n]
          /\ worker[n][w].pc # "idle" => worker[n][w].cursor \in 0..tail[n]
    BY <1>1, <2>2, SMTT(30) DEF Types, Placed
  <2>5. TypeOK
    BY <1>1, <2>3, <2>4, SMTT(30) DEF TypeOK, Types, Published
  <2>6. CheckpointedIsDelivered /\ DeliveredIsPrefix
    BY <1>1, SMTT(30) DEF Published, Covered, CheckpointedIsDelivered
  <2>7. CheckpointedIsHandled
    BY <1>1 DEF Executed, Covered, Done, Handled, CheckpointedIsHandled
  <2> QED BY <2>5, <2>6, <2>7, SMTT(30) DEF CheckpointsCoverWhatIsDone
<1> QED BY <1>1, PublishedInvariant, PTL
=============================================================================
