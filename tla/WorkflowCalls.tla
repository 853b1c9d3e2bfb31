--------------------------- MODULE WorkflowCalls ----------------------------
(***************************************************************************)
(* The calls of the command path: Engine::handle, RaftWorkflowStore and    *)
(* what they read of the RocksDB store.                                    *)
(*                                                                         *)
(* A call is one execution of the handler for a client's request.  Two     *)
(* calls may carry the same request (a client retry), different requests   *)
(* under one idempotency scope, or unrelated requests.  A call reads the   *)
(* database of the node it runs on, which may lag; it prepares a batch,    *)
(* proposes it and waits for that node to apply it.  WorkflowCommit puts   *)
(* the calls on a replicated store.                                        *)
(***************************************************************************)
EXTENDS AtomicBatch

CONSTANTS
    Node,
    Call,
    MaxCalls,           \* most calls of one behaviour
    RequestOf,          \* RequestOf[c]: a record [scope, command_id, instance]
    MaxEvents,          \* most events decide() yields for one command
    SnapshotInterval,   \* snapshot_interval_events
    MaxReplay,          \* max_replay_events
    MaxAttempts,        \* max_prepare_attempts
    MaxInflight,        \* max_inflight_proposals, per node
    MaxLog, MaxCrashes

VARIABLES
    log, chain, verdict, disk, last, up, answers, snaps, purged, crashes,
    call,               \* the state of each call
    flight,             \* proposals OpenRaft may still commit or lose
    held                \* proposals whose client_write has not returned

(* A command identity names one command on one instance; event rows and       *)
(* receipts are in append-only column families.                               *)
ASSUME CommitConstants ==
    /\ Missing \notin Nat
    /\ {"events", "idempotency"} \subseteq AppendOnlyCF
    /\ \A c, d \in Call : RequestOf[c].command_id = RequestOf[d].command_id
                            => RequestOf[c].instance = RequestOf[d].instance
    /\ SnapshotInterval \in Nat \ {0}
    /\ MaxEvents \in Nat /\ MaxAttempts \in Nat \ {0} /\ MaxInflight \in Nat
    /\ MaxLog \in Nat /\ MaxCrashes \in Nat

Request  == {RequestOf[c] : c \in Call}
Instance == {q.instance : q \in Request}
Scope    == {q.scope : q \in Request}

-----------------------------------------------------------------------------
(* Storage keys: the column family and the key within it. *)
StreamKey(i)   == <<"stream_meta", i>>
IdemKey(s)     == <<"idempotency", s>>
AuditKey(cmd)  == <<"authorization_audit", cmd>>
TailKey        == <<"outbox_meta", "tail">>
SnapshotKey(i) == <<"snapshots", i>>
EventKey(i, s) == <<"events", i, s>>
DedupKey(id)   == <<"dedup", id>>
OutboxKey(o)   == <<"outbox", o>>

(* What a commit stores besides its events: the identity of an event, the    *)
(* result that the receipt of the command keeps, and the row that announces  *)
(* an event in the outbox.                                                   *)
EventId(cmd, s) == <<cmd, s>>

Result(q, v, k) ==
    [command_id |-> q.command_id, version |-> v + k,
     event_ids |-> {EventId(q.command_id, s) : s \in v + 1 .. v + k}]

OutboxRow(i, s, id) == [instance |-> i, sequence |-> s, event_id |-> id]

NumberAt(db, k) == IF k \in DOMAIN db THEN db[k] ELSE 0
OrMissing(v)    == IF v = 0 THEN Missing ELSE v

Version(db, i) == NumberAt(db, StreamKey(i))
OutboxTail(db) == NumberAt(db, TailKey)
Snapshot(db, i) == NumberAt(db, SnapshotKey(i))

(* The state after the whole committed log: what a client may rely on. *)
Latest == chain[Len(log)].db

-----------------------------------------------------------------------------
(* snapshot_at_latest_boundary: the last new sequence number that is a       *)
(* multiple of the interval, 0 if there is none.                             *)
SnapshotAt(v, k) ==
    Max({0} \cup {s \in v + 1 .. v + k : s % SnapshotInterval = 0})

(* build_prepared_workflow_batch for request q at version v with k events,   *)
(* when the database holds outbox tail t and snapshot sequence n (0: none).   *)
(* First the preconditions, in their order.                                  *)
Conditions(q, v, k, t, n) ==
    LET PerEvent(j) == << Expect(EventKey(q.instance, v + j), Missing),
                          Expect(DedupKey(EventId(q.command_id, v + j)), Missing),
                          Expect(OutboxKey(t + j), Missing) >>
    IN << Expect(StreamKey(q.instance), OrMissing(v)),
          Expect(IdemKey(q.scope), Missing),
          Expect(AuditKey(q.command_id), Missing),
          Expect(TailKey, OrMissing(t)) >>
       \o (IF SnapshotAt(v, k) = 0 THEN <<>>
           ELSE << Expect(SnapshotKey(q.instance), OrMissing(n)) >>)
       \o [x \in 1..3*k |-> PerEvent(1 + ((x - 1) \div 3))[1 + ((x - 1) % 3)]]

(* The position of the outbox cursor among the conditions. *)
TailCondition == 4

(* Then the mutations: the rows, the new tail and the receipt. *)
Writes(q, v, k, t, tail, receipt) ==
    LET i == q.instance
        Id(s) == EventId(q.command_id, s)
        keys == {EventKey(i, s) : s \in v + 1 .. v + k}
                  \cup {DedupKey(Id(s)) : s \in v + 1 .. v + k}
                  \cup {OutboxKey(o) : o \in t + 1 .. t + k}
                  \cup {TailKey, StreamKey(i), IdemKey(q.scope), AuditKey(q.command_id)}
                  \cup (IF SnapshotAt(v, k) = 0 THEN {} ELSE {SnapshotKey(i)})
    IN [x \in keys |->
          CASE x[1] = "events"      -> Id(x[3])
            [] x[1] = "dedup"       -> "present"
            [] x[1] = "outbox"      -> OutboxRow(i, v + (x[2] - t), Id(v + (x[2] - t)))
            [] x[1] = "outbox_meta" -> tail
            [] x[1] = "snapshots"   -> SnapshotAt(v, k)
            [] x[1] = "stream_meta" -> v + k
            [] x[1] = "idempotency" -> receipt
            [] x[1] = "authorization_audit" -> q.command_id]

(* A bug: the receipt names the first event only. *)
MutationsReceiptOfOne(q, v, k, t) == Writes(q, v, k, t, t + k, Result(q, v, 1))

Mutations(q, v, k, t) == Writes(q, v, k, t, t + k, Result(q, v, k))

(* Each preparation encrypts anew, so its bytes, and its digest, are unique. *)
Prepared(q, v, k, t, n, digest) ==
    [command_id |-> q.command_id, scope |-> q.scope, digest |-> digest, size |-> k,
     pre |-> Conditions(q, v, k, t, n), put |-> Mutations(q, v, k, t), del |-> {},
     answer |-> Result(q, v, k)]

WorkflowBatch ==
    {Prepared(q, v, k, t, n, d) :
        q \in Request, v \in Nat, k \in 1..MaxEvents, t \in Nat, n \in Nat,
        d \in Call \X {0, 1} \X Nat}

-----------------------------------------------------------------------------
vars == <<log, chain, verdict, disk, last, up, answers, snaps, purged, crashes,
          call, flight, held>>

storeVars == <<log, chain, verdict, disk, last, up, answers, snaps, purged, crashes>>

NotStarted == [pc |-> "idle"]

(* A call that has returned to its client. *)
Returned(kind, result) == [pc |-> "done", kind |-> kind, result |-> result]
Failed(kind) == Returned(kind, Missing)

(* A call that runs on node n, for the hop-th time. *)
Handler(pc, n, hop, v, snapshot, seen, k, attempt) ==
    [pc |-> pc, node |-> n, hop |-> hop, version |-> v, snapshot |-> snapshot,
     seen |-> seen, events |-> k, attempt |-> attempt]

Running(n, hop) == Handler("lookup", n, hop, 0, 0, {}, 0, 0)

Active(c) == call[c].pc \notin {"idle", "done"}
Q(c)  == RequestOf[c]
Db(c) == disk[call[c].node].state.db

Become(c, r) == call' = [call EXCEPT ![c] = r]

(* Call c goes on with what it has loaded, or with what it is to prepare. *)
Loaded(c, pc, v, snapshot, seen) ==
    Handler(pc, call[c].node, call[c].hop, v, snapshot, seen, call[c].events, call[c].attempt)
Preparing(c, k, attempt) ==
    Handler("prepare", call[c].node, call[c].hop, call[c].version, call[c].snapshot,
            call[c].seen, k, attempt)

GoTo(c, pc) == Become(c, Loaded(c, pc, call[c].version, call[c].snapshot, call[c].seen))

Begin(c, n) ==
    /\ call[c].pc = "idle"
    /\ Cardinality({d \in Call : call[d].pc # "idle"}) < MaxCalls
    /\ n \in up
    /\ Become(c, Running(n, 0))
    /\ UNCHANGED <<storeVars, flight, held>>

(* load_result: the stored result under the request's scope answers the call, *)
(* provided it was stored by the same command.                                *)
AnswerFromRow(c) ==
    LET row == Db(c)[IdemKey(Q(c).scope)] IN
    Become(c, IF row.command_id = Q(c).command_id
              THEN Returned("Duplicate", row)
              ELSE Failed("IdempotencyConflict"))

RowPresent(c) == IdemKey(Q(c).scope) \in DOMAIN Db(c)

Lookup(c) ==
    /\ call[c].pc = "lookup"
    /\ IF RowPresent(c) THEN AnswerFromRow(c) ELSE GoTo(c, "version")
    /\ UNCHANGED <<storeVars, flight, held>>

(* Authorization, configuration or the domain refuses the command. *)
Refuse(c) ==
    /\ call[c].pc \in {"lookup", "version", "decide"}
    /\ Become(c, Failed("Refused"))
    /\ UNCHANGED <<storeVars, flight, held>>

(* load() takes no lock: the version, the snapshot and the events are three   *)
(* reads of a database that goes on applying entries.                         *)
LoadVersion(c) ==
    /\ call[c].pc = "version"
    /\ Become(c, Loaded(c, "snapshot", Version(Db(c), Q(c).instance),
                         call[c].snapshot, call[c].seen))
    /\ UNCHANGED <<storeVars, flight, held>>

LoadSnapshot(c) ==
    LET n == Snapshot(Db(c), Q(c).instance) IN
    /\ call[c].pc = "snapshot"
    /\ IF n > call[c].version
       THEN Become(c, Failed("CorruptData"))
       ELSE Become(c, Loaded(c, "events", call[c].version, n, call[c].seen))
    /\ UNCHANGED <<storeVars, flight, held>>

(* The events of the call's instance after its snapshot. *)
TailEvents(c) ==
    {x \in DOMAIN Db(c) : x[1] = "events" /\ x[2] = Q(c).instance /\ x[3] > call[c].snapshot}

Replayed(c) ==
    Loaded(c, "decide", call[c].version, call[c].snapshot,
           {<<x[3], Db(c)[x]>> : x \in TailEvents(c)})

LoadEvents(c) ==
    LET count == Cardinality(TailEvents(c)) IN
    /\ call[c].pc = "events"
    /\ Become(c, IF count > MaxReplay THEN Failed("ReplayLimitExceeded")
                 ELSE IF call[c].snapshot + count # call[c].version THEN Failed("CorruptData")
                 ELSE Replayed(c))
    /\ UNCHANGED <<storeVars, flight, held>>

(* decide() yields k events for the loaded state. *)
Decide(c, k) ==
    /\ call[c].pc = "decide"
    /\ Become(c, Preparing(c, k, call[c].attempt))
    /\ UNCHANGED <<storeVars, flight, held>>

Proposal(c) ==
    LET r == call[c] IN
    [call |-> c, node |-> r.node,
     batch |-> Prepared(Q(c), r.version, r.events, OutboxTail(Db(c)),
                        Snapshot(Db(c), Q(c).instance), <<c, r.hop, r.attempt>>)]

(* The permits of node n that are taken. *)
Permits(n) ==
    Cardinality({p \in held : p.node = n})
      + Cardinality({c \in Call : call[c].pc = "build" /\ call[c].node = n})

(* One attempt of RaftWorkflowStore::commit: take a permit or give up, look   *)
(* the scope up again ...                                                     *)
Prepare(c) ==
    /\ call[c].pc = "prepare"
    /\ \/ /\ Permits(call[c].node) >= MaxInflight
          /\ Become(c, Failed("Unavailable"))
       \/ /\ Permits(call[c].node) < MaxInflight
          /\ IF RowPresent(c) THEN AnswerFromRow(c) ELSE GoTo(c, "build")
    /\ UNCHANGED <<storeVars, flight, held>>

(* ... then prepare on the local database, under its lock, and hand over to   *)
(* Raft.                                                                      *)
Build(c) ==
    /\ call[c].pc = "build"
    /\ flight' = flight \cup {Proposal(c)}
    /\ held' = held \cup {Proposal(c)}
    /\ GoTo(c, "waiting")
    /\ UNCHANGED storeVars

(* The caller's deadline: no rollback, the proposal goes on without it. *)
Expire(c) ==
    /\ call[c].pc \in {"build", "waiting"}
    /\ Become(c, Failed("Unavailable"))
    /\ UNCHANGED <<storeVars, flight, held>>

(* p is what call p.call is waiting for. *)
Awaited(p) ==
    LET r == call[p.call] IN
    r.pc = "waiting" /\ r.node = p.node /\ p.batch.digest = <<p.call, r.hop, r.attempt>>

(* OpenRaft refuses a proposal, or drops it from the log for a new leader's   *)
(* entries: it will never commit.  ForwardingCommandHandler passes the command*)
(* on to the leader, once.                                                    *)
Lose(p) ==
    LET r == call[p.call] IN
    /\ flight' = flight \ {p}
    /\ held' = held \ {p}
    /\ IF ~Awaited(p) THEN UNCHANGED call
       ELSE \/ Become(p.call, Failed("NotLeader"))
            \/ /\ r.hop = 0
               /\ \E m \in up \ {r.node} : Become(p.call, Running(m, 1))
    /\ UNCHANGED storeVars

(* The log index of a call's current proposal. *)
IndexOf(c) ==
    {i \in DOMAIN log : log[i].batch.digest = <<c, call[c].hop, call[c].attempt>>}

Rebases(c, o) ==
    /\ o.kind = "PreconditionFailed"
    /\ o.index = TailCondition
    /\ call[c].attempt + 1 < MaxAttempts

(* The call receives the outcome o of its proposal: it prepares again if only *)
(* the outbox cursor had moved, otherwise resolve_workflow_apply starts.      *)
Answer(c) ==
    /\ call[c].pc = "waiting"
    /\ \E i \in IndexOf(c) : \E a \in answers :
          LET o == a[2] IN
          /\ i <= last[call[c].node]
          /\ a[1] = i
          /\ Become(c, IF Rebases(c, o)
                       THEN Preparing(c, call[c].events, call[c].attempt + 1)
                       ELSE IF o.kind = "Applied" THEN Returned("Committed", o.answer)
                       ELSE IF o.kind = "Duplicate" THEN Returned("Duplicate", o.answer)
                       ELSE Loaded(c, "result", call[c].version, call[c].snapshot, call[c].seen))
    /\ UNCHANGED <<storeVars, flight, held>>

(* A bug: answering with the result this call prepared, not the stored one. *)
ResolveResultWithOwn(c) ==
    /\ call[c].pc = "result"
    /\ IF RowPresent(c)
       THEN Become(c, Returned("Duplicate", Result(Q(c), call[c].version, call[c].events)))
       ELSE GoTo(c, "conflict")
    /\ UNCHANGED <<storeVars, flight, held>>

(* Precondition failed or rejected: the scope may have been committed by a    *)
(* retry ...                                                                  *)
ResolveResult(c) ==
    /\ call[c].pc = "result"
    /\ IF RowPresent(c) THEN AnswerFromRow(c) ELSE GoTo(c, "conflict")
    /\ UNCHANGED <<storeVars, flight, held>>

(* ... or the stream has moved. *)
ResolveVersion(c) ==
    /\ call[c].pc = "conflict"
    /\ Become(c, Failed(IF Version(Db(c), Q(c).instance) # call[c].version
                        THEN "VersionConflict" ELSE "Unavailable"))
    /\ UNCHANGED <<storeVars, flight, held>>

CallStep(c) ==
    \/ \E n \in Node : Begin(c, n)
    \/ Lookup(c)
    \/ Refuse(c)
    \/ LoadVersion(c)
    \/ LoadSnapshot(c)
    \/ LoadEvents(c)
    \/ \E k \in 1..MaxEvents : Decide(c, k)
    \/ Prepare(c)
    \/ Build(c)
    \/ Expire(c)
    \/ Answer(c)
    \/ ResolveResult(c)
    \/ ResolveVersion(c)

-----------------------------------------------------------------------------
TypeOK ==
    /\ DOMAIN call = Call
    /\ \A c \in Call : Active(c) =>
          /\ call[c].node \in up
          /\ call[c].hop \in {0, 1}
          /\ call[c].attempt \in 0..MaxAttempts - 1
    /\ \A p \in held : p.node \in up
    /\ \A n \in Node : Permits(n) <= MaxInflight

(* A client told Committed or Duplicate gets the result the log holds for its *)
(* own command, and every event that result names is in the stream.           *)
ReceiptIsTrue ==
    \A c \in Call :
        call[c].pc = "done" /\ call[c].kind \in {"Committed", "Duplicate"} =>
            LET r == call[c].result IN
            /\ IdemKey(Q(c).scope) \in DOMAIN Latest
            /\ Latest[IdemKey(Q(c).scope)] = r
            /\ r.command_id = Q(c).command_id
            /\ \A id \in r.event_ids : Latest[EventKey(Q(c).instance, id[2])] = id

(* A definite refusal is final: none of the call's own proposals has taken or *)
(* will take effect.  (Unavailable and a lost connection leave that open.)    *)
RefusalHasNoEffect ==
    \A c \in Call :
        call[c].pc = "done"
        /\ call[c].kind \in {"VersionConflict", "IdempotencyConflict", "NotLeader", "Refused"}
        => /\ \A p \in flight : p.call # c
           /\ \A i \in DOMAIN log : log[i].batch.digest[1] = c => verdict[i].kind # "Applied"

(* At every point of the log, and so on every node at every moment, each      *)
(* stream is dense, its snapshot lies inside it, and the outbox lists every   *)
(* event exactly once, each stream's events in stream order.                  *)
StreamsAndOutbox ==
    LET db == Latest IN
    /\ \A i \in Instance :
          /\ {x[3] : x \in {y \in DOMAIN db : y[1] = "events" /\ y[2] = i}} = 1..Version(db, i)
          /\ Snapshot(db, i) <= Version(db, i)
    /\ {x[2] : x \in {y \in DOMAIN db : y[1] = "outbox"}} = 1..OutboxTail(db)
    /\ \A x \in DOMAIN db : x[1] = "events" =>
          Cardinality({o \in 1..OutboxTail(db) : db[OutboxKey(o)].event_id = db[x]}) = 1
    /\ \A o, p \in 1..OutboxTail(db) :
          LET a == db[OutboxKey(o)] b == db[OutboxKey(p)] IN
          /\ db[EventKey(a.instance, a.sequence)] = a.event_id
          /\ o < p /\ a.instance = b.instance => a.sequence < b.sequence

(* A load that is accepted, although its three reads may straddle applied     *)
(* entries, returned exactly the committed events up to the version it saw.   *)
LoadedIsPrefix ==
    \A c \in Call :
        call[c].pc \in {"decide", "prepare", "build", "waiting"} =>
            call[c].seen = {<<s, Latest[EventKey(Q(c).instance, s)]>> :
                              s \in call[c].snapshot + 1 .. call[c].version}

(* What a client is told is true of the log, and stays true: a receipt names  *)
(* the committed result of the client's own command, a definite refusal had   *)
(* and will have no effect (ReceiptIsTrue, RefusalHasNoEffect).  What a       *)
(* handler decided on is a prefix of its stream (LoadedIsPrefix), although    *)
(* its reads straddle applied batches; and the streams stay dense, each event *)
(* once in the outbox (StreamsAndOutbox).                                     *)
AnswersAreTrueOfTheLog ==
    /\ TypeOK
    /\ ReceiptIsTrue
    /\ RefusalHasNoEffect
    /\ StreamsAndOutbox
    /\ LoadedIsPrefix
=============================================================================
