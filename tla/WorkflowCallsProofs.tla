------------------------- MODULE WorkflowCallsProofs -------------------------
(***************************************************************************)
(* What the steps of the command path keep, for every set of nodes, calls  *)
(* and requests and every bound: every state the log replays to is well    *)
(* formed (Rows, Table), a batch that takes effect extends streams, outbox *)
(* and receipts as one commit (Step), every batch is one the builder makes *)
(* (Made), every call is accountable for the proposals made in its name    *)
(* (Accounted), what it was told or has read stays true of the log         *)
(* (Truthful), and the permits held are those of running calls (Admitted). *)
(***************************************************************************)
EXTENDS WorkflowCalls, TLAPS
-----------------------------------------------------------------------------
(* What a database the log replays to looks like.  The stored numbers ...    *)
Numbers(db) ==
    /\ OutboxTail(db) \in Nat
    /\ \A i \in Instance : Version(db, i) \in Nat /\ Snapshot(db, i) \in 0..Version(db, i)

(* ... the event rows, one for each number up to the stream's version ...    *)
EventRows(db) ==
    /\ \A x \in DOMAIN db : x[1] = "events" =>
          /\ x[2] \in Instance /\ x[3] \in 1..Version(db, x[2])
          /\ x = EventKey(x[2], x[3])
    /\ \A i \in Instance : \A s \in 1..Version(db, i) : EventKey(i, s) \in DOMAIN db

(* ... the outbox rows, one for each number up to the cursor ...             *)
OutboxRows(db) ==
    /\ \A x \in DOMAIN db : x[1] = "outbox" => x[2] \in 1..OutboxTail(db)
    /\ \A o \in 1..OutboxTail(db) : OutboxKey(o) \in DOMAIN db

(* ... which announce events that some request put into the streams ...      *)
Announced(db) ==
    \A o \in 1..OutboxTail(db) : \E q \in Request : \E s \in 1..Version(db, q.instance) :
        /\ db[OutboxKey(o)] = OutboxRow(q.instance, s, EventId(q.command_id, s))
        /\ db[EventKey(q.instance, s)] = EventId(q.command_id, s)

(* ... all of them ...                                                       *)
Complete(db) ==
    \A i \in Instance : \A s \in 1..Version(db, i) :
        \E o \in 1..OutboxTail(db) : db[OutboxKey(o)].event_id = db[EventKey(i, s)]

(* ... in the order of their stream ...                                      *)
Ordered(db) ==
    \A o, p \in 1..OutboxTail(db) :
        o < p /\ db[OutboxKey(o)].instance = db[OutboxKey(p)].instance
            => db[OutboxKey(o)].sequence < db[OutboxKey(p)].sequence

(* ... and receipts, which name events of the instance they are about.       *)
Receipts(db) ==
    \A q \in Request :
        IdemKey(q.scope) \in DOMAIN db /\ db[IdemKey(q.scope)].command_id = q.command_id
            => \A id \in db[IdemKey(q.scope)].event_ids :
                  /\ EventKey(q.instance, id[2]) \in DOMAIN db
                  /\ db[EventKey(q.instance, id[2])] = id

Rows(db) ==
    /\ Numbers(db) /\ EventRows(db) /\ OutboxRows(db)
    /\ Announced(db) /\ Complete(db) /\ Ordered(db) /\ Receipts(db)

-----------------------------------------------------------------------------
(* The first element of a key tells the column family. *)
LEMMA Keys ==
    ASSUME NEW i, NEW s
    PROVE  /\ StreamKey(i)[1] = "stream_meta" /\ StreamKey(i)[2] = i
           /\ IdemKey(i)[1] = "idempotency" /\ IdemKey(i)[2] = i
           /\ AuditKey(i)[1] = "authorization_audit"
           /\ TailKey[1] = "outbox_meta"
           /\ SnapshotKey(i)[1] = "snapshots" /\ SnapshotKey(i)[2] = i
           /\ EventKey(i, s)[1] = "events" /\ EventKey(i, s)[2] = i /\ EventKey(i, s)[3] = s
           /\ DedupKey(i)[1] = "dedup"
           /\ OutboxKey(i)[1] = "outbox" /\ OutboxKey(i)[2] = i
  BY Zenon DEF StreamKey, IdemKey, AuditKey, TailKey, SnapshotKey, EventKey, DedupKey, OutboxKey

(* Requests name instances, and a command names the instance it is about. *)
LEMMA Names ==
    /\ \A q \in Request : q.instance \in Instance /\ q.scope \in Scope
    /\ \A c \in Call : Q(c) \in Request
    /\ \A q, r \in Request : q.command_id = r.command_id => q.instance = r.instance
  BY CommitConstants DEF Request, Instance, Scope, Q

(* Database new is db with k events of request q after version v and outbox  *)
(* cursor t.                                                                 *)
Extended(db, new, q, v, k, t) ==
    LET i == q.instance
        Id(s) == EventId(q.command_id, s)
    IN
    /\ Version(new, i) = v + k
    /\ \A j : j # i => Version(new, j) = Version(db, j) /\ Snapshot(new, j) = Snapshot(db, j)
    /\ Snapshot(new, i) \in {Snapshot(db, i)} \cup v + 1 .. v + k
    /\ OutboxTail(new) = t + k
    /\ \A x \in DOMAIN new :
          x[1] = "events" => x \in DOMAIN db \/ \E s \in v + 1 .. v + k : x = EventKey(i, s)
    /\ \A x \in DOMAIN db : x[1] \in {"events", "outbox"} => x \in DOMAIN new /\ new[x] = db[x]
    /\ \A s \in v + 1 .. v + k : EventKey(i, s) \in DOMAIN new /\ new[EventKey(i, s)] = Id(s)
    /\ \A x \in DOMAIN new :
          x[1] = "outbox" => x \in DOMAIN db \/ \E o \in t + 1 .. t + k : x = OutboxKey(o)
    /\ \A o \in t + 1 .. t + k :
          /\ OutboxKey(o) \in DOMAIN new
          /\ new[OutboxKey(o)] = OutboxRow(i, v + (o - t), Id(v + (o - t)))
    /\ IdemKey(q.scope) \in DOMAIN new /\ new[IdemKey(q.scope)] = Result(q, v, k)
    /\ \A s : s # q.scope => /\ IdemKey(s) \in DOMAIN new <=> IdemKey(s) \in DOMAIN db
                             /\ IdemKey(s) \in DOMAIN db => new[IdemKey(s)] = db[IdemKey(s)]

(* A well-formed database, extended by a request's events where they belong. *)
Step(db, new, q, v, k, t) ==
    /\ Rows(db) /\ q \in Request /\ v \in Nat /\ k \in Nat /\ t \in Nat
    /\ Version(db, q.instance) = v /\ OutboxTail(db) = t
    /\ Extended(db, new, q, v, k, t)

(* The rows of old stay ... *)
LEMMA OldRows ==
    ASSUME NEW db, NEW new, NEW q, NEW v, NEW k, NEW t, Step(db, new, q, v, k, t)
    PROVE  /\ \A j \in Instance : \A s \in 1..Version(db, j) :
                 /\ EventKey(j, s) \in DOMAIN new
                 /\ new[EventKey(j, s)] = db[EventKey(j, s)]
                 /\ s \in 1..Version(new, j)
           /\ \A o \in 1..t : /\ OutboxKey(o) \in DOMAIN new
                              /\ new[OutboxKey(o)] = db[OutboxKey(o)]
<1>1. /\ \A x \in DOMAIN db : x[1] \in {"events", "outbox"} => x \in DOMAIN new /\ new[x] = db[x]
      /\ Version(new, q.instance) = v + k
      /\ \A j : j # q.instance => Version(new, j) = Version(db, j)
  BY Zenon DEF Step, Extended
<1>2. ASSUME NEW j \in Instance, NEW s \in 1..Version(db, j)
      PROVE  /\ EventKey(j, s) \in DOMAIN new
             /\ new[EventKey(j, s)] = db[EventKey(j, s)]
             /\ s \in 1..Version(new, j)
  <2>1. EventKey(j, s) \in DOMAIN db /\ EventKey(j, s)[1] = "events"
    BY Keys DEF Step, Rows, EventRows
  <2> QED  BY <1>1, <2>1 DEF Step
<1>3. ASSUME NEW o \in 1..t
      PROVE  OutboxKey(o) \in DOMAIN new /\ new[OutboxKey(o)] = db[OutboxKey(o)]
  <2>1. OutboxKey(o) \in DOMAIN db /\ OutboxKey(o)[1] = "outbox"
    BY Keys, Zenon DEF Step, Rows, OutboxRows
  <2> QED  BY <1>1, <2>1, Zenon
<1> QED  BY <1>2, <1>3, Zenon

(* ... and those of the batch are the events and their announcements. *)
LEMMA NewRows ==
    ASSUME NEW db, NEW new, NEW q, NEW v, NEW k, NEW t, Step(db, new, q, v, k, t),
           NEW o \in t + 1 .. t + k
    PROVE  /\ v + (o - t) \in v + 1 .. v + k
           /\ new[EventKey(q.instance, v + (o - t))] = EventId(q.command_id, v + (o - t))
           /\ new[OutboxKey(o)].instance = q.instance
           /\ new[OutboxKey(o)].sequence = v + (o - t)
           /\ new[OutboxKey(o)].event_id = EventId(q.command_id, v + (o - t))
<1> DEFINE s == v + (o - t)
<1>1. s \in v + 1 .. v + k
  BY DEF Step
<1>2. /\ new[OutboxKey(o)] = OutboxRow(q.instance, s, EventId(q.command_id, s))
      /\ \A u \in v + 1 .. v + k : new[EventKey(q.instance, u)] = EventId(q.command_id, u)
  BY Zenon DEF Step, Extended
<1> HIDE DEF s
<1>3. /\ new[OutboxKey(o)].instance = q.instance /\ new[OutboxKey(o)].sequence = s
      /\ new[OutboxKey(o)].event_id = EventId(q.command_id, s)
  BY <1>2 DEF OutboxRow
<1> QED  BY <1>1, <1>2, <1>3, Zenon DEF s

(* Streams and outbox stay dense. *)
LEMMA ExtendDense ==
    ASSUME NEW db, NEW new, NEW q, NEW v, NEW k, NEW t, Step(db, new, q, v, k, t)
    PROVE  Numbers(new) /\ EventRows(new) /\ OutboxRows(new)
<1>1. q.instance \in Instance
  BY Names, Zenon DEF Step
<1>2. /\ Version(new, q.instance) = v + k
      /\ \A j : j # q.instance => /\ Version(new, j) = Version(db, j)
                                  /\ Snapshot(new, j) = Snapshot(db, j)
      /\ Snapshot(new, q.instance) \in {Snapshot(db, q.instance)} \cup v + 1 .. v + k
      /\ OutboxTail(new) = t + k
  BY Zenon DEF Step, Extended
<1>3. Numbers(new)
  BY <1>1, <1>2 DEF Step, Rows, Numbers
<1>4. ASSUME NEW x \in DOMAIN new, x[1] = "events"
      PROVE  x[2] \in Instance /\ x[3] \in 1..Version(new, x[2]) /\ x = EventKey(x[2], x[3])
  <2>1. CASE x \in DOMAIN db
    <3>1. x[2] \in Instance /\ x[3] \in 1..Version(db, x[2]) /\ x = EventKey(x[2], x[3])
      BY <1>4, <2>1, Zenon DEF Step, Rows, EventRows
    <3> QED  BY <3>1, OldRows
  <2>2. ASSUME NEW s \in v + 1 .. v + k, x = EventKey(q.instance, s)
        PROVE  x[2] \in Instance /\ x[3] \in 1..Version(new, x[2]) /\ x = EventKey(x[2], x[3])
    <3>1. x[2] = q.instance /\ x[3] = s
      BY <2>2, Keys
    <3> QED  BY <3>1, <2>2, <1>1, <1>2 DEF Step
  <2> QED  BY <1>4, <2>1, <2>2, Zenon DEF Step, Extended
<1>5. ASSUME NEW j \in Instance, NEW s \in 1..Version(new, j)
      PROVE  EventKey(j, s) \in DOMAIN new
  <2>1. CASE s \in 1..Version(db, j)
    BY <2>1, OldRows, Zenon
  <2>2. CASE s \notin 1..Version(db, j)
    BY <2>2, <1>2 DEF Step, Extended
  <2> QED  BY <2>1, <2>2, Zenon
<1>6. ASSUME NEW x \in DOMAIN new, x[1] = "outbox" PROVE x[2] \in 1..t + k
  <2>1. CASE x \in DOMAIN db
    BY <1>6, <2>1 DEF Step, Rows, OutboxRows
  <2>2. ASSUME NEW o \in t + 1 .. t + k, x = OutboxKey(o) PROVE x[2] \in 1..t + k
    BY <2>2, Keys DEF Step
  <2> QED  BY <1>6, <2>1, <2>2, Zenon DEF Step, Extended
<1>7. \A o \in 1..t + k : OutboxKey(o) \in DOMAIN new
  <2> TAKE o \in 1..t + k
  <2>1. CASE o \in 1..t
    BY <2>1, OldRows, Zenon
  <2>2. CASE o \in t + 1 .. t + k
    BY <2>2, Zenon DEF Step, Extended
  <2> QED  BY <2>1, <2>2 DEF Step
<1> QED  BY <1>2, <1>3, <1>4, <1>5, <1>6, <1>7, Zenon DEF EventRows, OutboxRows

(* Every outbox row still announces an event of its stream ... *)
LEMMA ExtendAnnounced ==
    ASSUME NEW db, NEW new, NEW q, NEW v, NEW k, NEW t, Step(db, new, q, v, k, t)
    PROVE  Announced(new)
<1>1. OutboxTail(new) = t + k /\ t \in Nat /\ k \in Nat /\ v \in Nat /\ Version(new, q.instance) = v + k
  BY Zenon DEF Step, Extended
<1>2. SUFFICES ASSUME NEW o \in 1..t + k
               PROVE  \E r \in Request : \E s \in 1..Version(new, r.instance) :
                        /\ new[OutboxKey(o)] =
                             OutboxRow(r.instance, s, EventId(r.command_id, s))
                        /\ new[EventKey(r.instance, s)] = EventId(r.command_id, s)
  BY <1>1, Zenon DEF Announced
<1>3. CASE o \in 1..t
  <2>1. PICK r \in Request : \E s \in 1..Version(db, r.instance) :
           /\ db[OutboxKey(o)] = OutboxRow(r.instance, s, EventId(r.command_id, s))
           /\ db[EventKey(r.instance, s)] = EventId(r.command_id, s)
    BY <1>3, Zenon DEF Step, Rows, Announced
  <2>2. PICK s \in 1..Version(db, r.instance) :
           /\ db[OutboxKey(o)] = OutboxRow(r.instance, s, EventId(r.command_id, s))
           /\ db[EventKey(r.instance, s)] = EventId(r.command_id, s)
    BY <2>1, Zenon
  <2>3. r.instance \in Instance
    BY Names, Zenon
  <2>4. /\ new[OutboxKey(o)] = db[OutboxKey(o)] /\ s \in 1..Version(new, r.instance)
        /\ new[EventKey(r.instance, s)] = db[EventKey(r.instance, s)]
    BY <1>3, <2>3, OldRows
  <2> QED  BY <2>2, <2>4, Zenon
<1>4. CASE o \in t + 1 .. t + k
  <2> DEFINE s == v + (o - t)
  <2>1. /\ s \in v + 1 .. v + k
        /\ new[EventKey(q.instance, s)] = EventId(q.command_id, s)
    BY <1>4, NewRows
  <2>2. new[OutboxKey(o)] = OutboxRow(q.instance, s, EventId(q.command_id, s))
    BY <1>4, Zenon DEF Step, Extended
  <2>3. q \in Request /\ s \in 1..Version(new, q.instance)
    BY <1>1, <2>1 DEF Step
  <2> HIDE DEF s
  <2> QED  BY <2>1, <2>2, <2>3, Zenon
<1> QED  BY <1>1, <1>3, <1>4

(* ... each event is announced ... *)
LEMMA ExtendComplete ==
    ASSUME NEW db, NEW new, NEW q, NEW v, NEW k, NEW t, Step(db, new, q, v, k, t)
    PROVE  Complete(new)
<1>1. /\ OutboxTail(new) = t + k /\ t \in Nat /\ k \in Nat /\ v \in Nat
      /\ Version(new, q.instance) = v + k /\ Version(db, q.instance) = v /\ OutboxTail(db) = t
      /\ \A j : j # q.instance => Version(new, j) = Version(db, j)
  BY Zenon DEF Step, Extended
<1>2. SUFFICES ASSUME NEW j \in Instance, NEW s \in 1..Version(new, j)
               PROVE  \E o \in 1..t + k : new[OutboxKey(o)].event_id = new[EventKey(j, s)]
  BY <1>1, Zenon DEF Complete
<1>3. CASE s \in 1..Version(db, j)
  <2>1. PICK o \in 1..t : db[OutboxKey(o)].event_id = db[EventKey(j, s)]
    BY <1>1, <1>3, Zenon DEF Step, Rows, Complete
  <2>2. new[OutboxKey(o)] = db[OutboxKey(o)] /\ new[EventKey(j, s)] = db[EventKey(j, s)]
    BY <1>3, OldRows
  <2> QED  BY <1>1, <2>1, <2>2
<1>4. CASE s \notin 1..Version(db, j)
  <2> DEFINE o == t + (s - v)
  <2>1. j = q.instance /\ o \in t + 1 .. t + k /\ o \in 1..t + k /\ v + (o - t) = s
    BY <1>1, <1>4
  <2> HIDE DEF o
  <2>2. /\ new[OutboxKey(o)].event_id = EventId(q.command_id, v + (o - t))
        /\ new[EventKey(q.instance, v + (o - t))] = EventId(q.command_id, v + (o - t))
    BY <2>1, NewRows
  <2> QED  BY <2>1, <2>2, Zenon
<1> QED  BY <1>3, <1>4, Zenon

(* ... in stream order ... *)
LEMMA ExtendOrdered ==
    ASSUME NEW db, NEW new, NEW q, NEW v, NEW k, NEW t, Step(db, new, q, v, k, t)
    PROVE  Ordered(new)
<1>1. /\ OutboxTail(new) = t + k /\ OutboxTail(db) = t /\ t \in Nat /\ k \in Nat /\ v \in Nat
      /\ Version(db, q.instance) = v
  BY Zenon DEF Step, Extended
<1>2. \A o \in 1..t : new[OutboxKey(o)] = db[OutboxKey(o)]
  BY OldRows
<1>3. \A o \in t + 1 .. t + k : /\ new[OutboxKey(o)].instance = q.instance
                                /\ new[OutboxKey(o)].sequence = v + (o - t)
  BY NewRows
<1>4. SUFFICES ASSUME NEW o \in 1..t + k, NEW p \in 1..t + k, o < p,
                      new[OutboxKey(o)].instance = new[OutboxKey(p)].instance
               PROVE  new[OutboxKey(o)].sequence < new[OutboxKey(p)].sequence
  BY <1>1, Zenon DEF Ordered
<1>5. CASE p \in 1..t
  BY <1>1, <1>2, <1>4, <1>5 DEF Step, Rows, Ordered
<1>6. CASE p \in t + 1 .. t + k /\ o \in 1..t
  <2>1. PICK r \in Request : \E s \in 1..Version(db, r.instance) :
           db[OutboxKey(o)] = OutboxRow(r.instance, s, EventId(r.command_id, s))
    BY <1>1, <1>6, Zenon DEF Step, Rows, Announced
  <2>2. PICK s \in 1..Version(db, r.instance) :
           db[OutboxKey(o)] = OutboxRow(r.instance, s, EventId(r.command_id, s))
    BY <2>1, Zenon
  <2>3. db[OutboxKey(o)].instance = r.instance /\ db[OutboxKey(o)].sequence = s
    BY <2>2 DEF OutboxRow
  <2>4. r.instance = q.instance /\ new[OutboxKey(o)].sequence = s
    BY <2>3, <1>2, <1>3, <1>4, <1>6, Zenon
  <2> QED  BY <2>4, <1>1, <1>3, <1>6
<1>7. CASE p \in t + 1 .. t + k /\ o \in t + 1 .. t + k
  BY <1>1, <1>3, <1>4, <1>7
<1> QED  BY <1>1, <1>5, <1>6, <1>7

(* ... and receipts name events that are there. *)
LEMMA ExtendReceipts ==
    ASSUME NEW db, NEW new, NEW q, NEW v, NEW k, NEW t, Step(db, new, q, v, k, t)
    PROVE  Receipts(new)
<1>1. /\ \A x \in DOMAIN db : x[1] = "events" => x \in DOMAIN new /\ new[x] = db[x]
      /\ \A s \in v + 1 .. v + k : /\ EventKey(q.instance, s) \in DOMAIN new
                                   /\ new[EventKey(q.instance, s)] = EventId(q.command_id, s)
      /\ q \in Request
  BY Zenon DEF Step, Extended
<1>2. /\ new[IdemKey(q.scope)] = Result(q, v, k)
      /\ \A s : s # q.scope => /\ IdemKey(s) \in DOMAIN new <=> IdemKey(s) \in DOMAIN db
                               /\ IdemKey(s) \in DOMAIN db => new[IdemKey(s)] = db[IdemKey(s)]
  BY Zenon DEF Step, Extended
<1>3. SUFFICES ASSUME NEW r \in Request, IdemKey(r.scope) \in DOMAIN new,
                      new[IdemKey(r.scope)].command_id = r.command_id,
                      NEW id \in new[IdemKey(r.scope)].event_ids
               PROVE  /\ EventKey(r.instance, id[2]) \in DOMAIN new
                      /\ new[EventKey(r.instance, id[2])] = id
  BY Zenon DEF Receipts
<1>4. CASE r.scope = q.scope
  <2>1. /\ Result(q, v, k).command_id = q.command_id
        /\ Result(q, v, k).event_ids = {EventId(q.command_id, s) : s \in v + 1 .. v + k}
    BY Zenon DEF Result
  <2>2. r.command_id = q.command_id
    BY <1>2, <1>3, <1>4, <2>1, Zenon
  <2>3. r.instance = q.instance
    BY <2>2, <1>1, Names, Zenon
  <2>4. PICK s \in v + 1 .. v + k : id = EventId(q.command_id, s)
    BY <1>2, <1>3, <1>4, <2>1, Zenon
  <2>5. id[2] = s
    BY <2>4, Zenon DEF EventId
  <2> QED  BY <2>3, <2>4, <2>5, <1>1, Zenon
<1>5. CASE r.scope # q.scope
  <2>1. IdemKey(r.scope) \in DOMAIN db /\ new[IdemKey(r.scope)] = db[IdemKey(r.scope)]
    BY <1>2, <1>3, <1>5, Zenon
  <2>2. EventKey(r.instance, id[2]) \in DOMAIN db /\ db[EventKey(r.instance, id[2])] = id
    BY <1>3, <2>1, Zenon DEF Step, Rows, Receipts
  <2>3. EventKey(r.instance, id[2])[1] = "events"
    BY Keys
  <2> QED  BY <2>2, <2>3, <1>1, Zenon
<1> QED  BY <1>4, <1>5, Zenon

(* A database extended by a command's events is well formed if it was before. *)
LEMMA RowsExtend ==
    ASSUME NEW db, NEW new, NEW q, NEW v, NEW k, NEW t, Step(db, new, q, v, k, t)
    PROVE  Rows(new)
  BY ExtendDense, ExtendAnnounced, ExtendComplete, ExtendOrdered, ExtendReceipts, Zenon
     DEF Rows
-----------------------------------------------------------------------------
(* The abstract event store a database stands for. *)
StreamOf(db, i) == [s \in 1..Version(db, i) |-> db[EventKey(i, s)]]
StreamsOf(db)   == [i \in Instance |-> StreamOf(db, i)]
OutboxOf(db)    == [o \in 1..OutboxTail(db) |-> db[OutboxKey(o)]]
ReceiptsOf(db)  == [s \in {x \in Scope : IdemKey(x) \in DOMAIN db} |-> db[IdemKey(s)]]

(* What the commit of k events of request q at version v adds to each.        *)
StreamGrown(db, new, q, v, k) ==
    /\ Len(StreamOf(db, q.instance)) = v
    /\ StreamOf(new, q.instance)
         = StreamOf(db, q.instance) \o [j \in 1..k |-> EventId(q.command_id, v + j)]
    /\ \A i \in Instance : i # q.instance => StreamOf(new, i) = StreamOf(db, i)
OutboxGrown(db, new, q, v, k) ==
    OutboxOf(new) = OutboxOf(db) \o
        [j \in 1..k |-> OutboxRow(q.instance, v + j, EventId(q.command_id, v + j))]
ReceiptsGrown(db, new, q, v, k) ==
    ReceiptsOf(new) = [s \in DOMAIN ReceiptsOf(db) \cup {q.scope} |->
        IF s = q.scope THEN Result(q, v, k) ELSE ReceiptsOf(db)[s]]

(* A batch that takes effect appends its events to the stream of its          *)
(* instance ...                                                               *)
LEMMA StreamGrows ==
    ASSUME NEW db, NEW new, NEW q, NEW v, NEW k, NEW t, Step(db, new, q, v, k, t)
    PROVE  StreamGrown(db, new, q, v, k)
<1> SUFFICES
       /\ Len(StreamOf(db, q.instance)) = v
       /\ StreamOf(new, q.instance)
            = StreamOf(db, q.instance) \o [j \in 1..k |-> EventId(q.command_id, v + j)]
       /\ \A i \in Instance : i # q.instance => StreamOf(new, i) = StreamOf(db, i)
  BY Zenon DEF StreamGrown
<1> DEFINE Id(s) == EventId(q.command_id, s)
           more == [j \in 1..k |-> Id(v + j)]
           old == StreamOf(db, q.instance)
           grown == StreamOf(new, q.instance)
<1>1. v \in Nat /\ k \in Nat /\ Version(db, q.instance) = v /\ Version(new, q.instance) = v + k
  BY Zenon DEF Step, Extended
<1>2. /\ \A i \in Instance : \A s \in 1..Version(db, i) : new[EventKey(i, s)] = db[EventKey(i, s)]
      /\ \A s \in v + 1 .. v + k : new[EventKey(q.instance, s)] = Id(s)
      /\ \A i \in Instance : i # q.instance => Version(new, i) = Version(db, i)
      /\ q.instance \in Instance
  <2>1. \A i \in Instance : \A s \in 1..Version(db, i) : new[EventKey(i, s)] = db[EventKey(i, s)]
    BY OldRows, Zenon
  <2>2. /\ \A s \in v + 1 .. v + k : new[EventKey(q.instance, s)] = Id(s)
        /\ \A i : i # q.instance => Version(new, i) = Version(db, i)
        /\ q.instance \in Instance
    BY Names, Zenon DEF Step, Extended
  <2> QED  BY <2>1, <2>2, Zenon
<1> HIDE DEF Id
<1>3. Len(old) = v /\ Len(more) = k
  BY <1>1 DEF StreamOf
<1>4. grown = old \o more
  <2>1. /\ DOMAIN grown = 1..(v + k) /\ \A s \in 1..(v + k) : grown[s] = new[EventKey(q.instance, s)]
        /\ old = [s \in 1..v |-> db[EventKey(q.instance, s)]]
    BY <1>1, Zenon DEF StreamOf
  <2>2. /\ \A s \in 1..v : new[EventKey(q.instance, s)] = db[EventKey(q.instance, s)]
        /\ \A s \in v + 1 .. v + k : new[EventKey(q.instance, s)] = Id(s)
    BY <1>1, <1>2, Zenon
  <2> HIDE DEF grown, old
  <2>3. ASSUME NEW s \in 1..(v + k) PROVE grown[s] = (old \o more)[s]
    <3>1. CASE s \in 1..v
      BY <3>1, <1>1, <1>3, <2>1, <2>2
    <3>2. CASE s \in v + 1 .. v + k
      BY <3>2, <1>1, <1>3, <2>1, <2>2
    <3>3. s \in 1..v \/ s \in v + 1 .. v + k
      BY <1>1
    <3> QED  BY <3>1, <3>2, <3>3, Zenon
  <2>4. DOMAIN (old \o more) = 1..(v + k) /\ old \o more = [s \in 1..(v + k) |-> (old \o more)[s]]
    BY <1>1, <1>3, <2>1
  <2>5. grown = [s \in 1..(v + k) |-> grown[s]]
    BY <2>1, Zenon DEF grown, StreamOf
  <2> QED  BY <2>3, <2>4, <2>5, Zenon
<1>5. ASSUME NEW i \in Instance, i # q.instance PROVE StreamOf(new, i) = StreamOf(db, i)
  BY <1>2, <1>5, Zenon DEF StreamOf
<1> QED  BY <1>3, <1>4, <1>5, Zenon DEF Id

(* ... as many rows to the outbox ...                                         *)
LEMMA OutboxGrows ==
    ASSUME NEW db, NEW new, NEW q, NEW v, NEW k, NEW t, Step(db, new, q, v, k, t)
    PROVE  OutboxGrown(db, new, q, v, k)
<1> SUFFICES OutboxOf(new) = OutboxOf(db) \o
              [j \in 1..k |-> OutboxRow(q.instance, v + j, EventId(q.command_id, v + j))]
  BY Zenon DEF OutboxGrown
<1> DEFINE Row(s) == OutboxRow(q.instance, s, EventId(q.command_id, s))
           more == [j \in 1..k |-> Row(v + j)]
           old == OutboxOf(db)
           grown == OutboxOf(new)
<1>1. v \in Nat /\ k \in Nat /\ t \in Nat /\ OutboxTail(db) = t /\ OutboxTail(new) = t + k
  BY Zenon DEF Step, Extended
<1>2. /\ \A o \in 1..t : new[OutboxKey(o)] = db[OutboxKey(o)]
      /\ \A o \in t + 1 .. t + k : new[OutboxKey(o)] = Row(v + (o - t))
  <2>1. \A o \in 1..t : new[OutboxKey(o)] = db[OutboxKey(o)]
    BY OldRows
  <2>2. \A o \in t + 1 .. t + k : new[OutboxKey(o)] = Row(v + (o - t))
    BY Zenon DEF Step, Extended
  <2> QED  BY <2>1, <2>2, Zenon
<1> HIDE DEF Row
<1>3. Len(old) = t /\ Len(more) = k
  BY <1>1 DEF OutboxOf
<1>4. /\ DOMAIN grown = 1..(t + k) /\ \A o \in 1..(t + k) : grown[o] = new[OutboxKey(o)]
      /\ old = [o \in 1..t |-> db[OutboxKey(o)]]
      /\ grown = [o \in 1..(t + k) |-> grown[o]]
  <2>1. grown = [o \in 1..(t + k) |-> new[OutboxKey(o)]]
    BY <1>1, Zenon DEF OutboxOf
  <2> HIDE DEF grown
  <2> QED  BY <2>1, <1>1, Zenon DEF OutboxOf
<1> HIDE DEF grown, old
<1>5. ASSUME NEW o \in 1..(t + k) PROVE grown[o] = (old \o more)[o]
  <2>1. CASE o \in 1..t
    BY <2>1, <1>1, <1>2, <1>3, <1>4
  <2>2. CASE o \in t + 1 .. t + k
    <3>1. v + (o - t) = v + (o - Len(old)) /\ grown[o] = Row(v + (o - t))
      BY <2>2, <1>2, <1>3, <1>4, Zenon
    <3>2. (old \o more)[o] = more[o - t]
      BY <2>2, <1>1, <1>3, <1>4
    <3> QED  BY <3>1, <3>2, <2>2, <1>1
  <2>3. o \in 1..t \/ o \in t + 1 .. t + k
    BY <1>1
  <2> QED  BY <2>1, <2>2, <2>3, Zenon
<1>6. old \o more = [o \in 1..(t + k) |-> (old \o more)[o]]
  BY <1>1, <1>3, <1>4
<1>7. grown = old \o more
  BY <1>4, <1>5, <1>6, Zenon
<1> QED  BY <1>7, Zenon DEF old, grown, Row

(* ... and the receipt under its scope.                                       *)
LEMMA ReceiptsGrow ==
    ASSUME NEW db, NEW new, NEW q, NEW v, NEW k, NEW t, Step(db, new, q, v, k, t)
    PROVE  ReceiptsGrown(db, new, q, v, k)
<1> SUFFICES ReceiptsOf(new) = [s \in DOMAIN ReceiptsOf(db) \cup {q.scope} |->
              IF s = q.scope THEN Result(q, v, k) ELSE ReceiptsOf(db)[s]]
  BY Zenon DEF ReceiptsGrown
<1>1. /\ IdemKey(q.scope) \in DOMAIN new /\ new[IdemKey(q.scope)] = Result(q, v, k)
      /\ \A s : s # q.scope => /\ IdemKey(s) \in DOMAIN new <=> IdemKey(s) \in DOMAIN db
                               /\ IdemKey(s) \in DOMAIN db => new[IdemKey(s)] = db[IdemKey(s)]
      /\ q.scope \in Scope
  BY Names, Zenon DEF Step, Extended
<1> DEFINE S == {x \in Scope : IdemKey(x) \in DOMAIN db}
           T == {x \in Scope : IdemKey(x) \in DOMAIN new}
<1>2. T = S \cup {q.scope}
  BY <1>1, Zenon
<1>3. /\ DOMAIN ReceiptsOf(db) = S /\ \A s \in S : ReceiptsOf(db)[s] = db[IdemKey(s)]
      /\ ReceiptsOf(new) = [s \in T |-> new[IdemKey(s)]]
  BY Zenon DEF ReceiptsOf
<1>4. \A s \in S : s # q.scope => new[IdemKey(s)] = db[IdemKey(s)]
  BY <1>1, Zenon
<1> HIDE DEF S, T
<1> QED  BY <1>1, <1>2, <1>3, <1>4
-----------------------------------------------------------------------------
(* What the mutations W of a batch write, family by family. *)
Written(W, q, v, k, t) ==
    LET i == q.instance
        Id(s) == EventId(q.command_id, s)
    IN
    /\ \A x \in DOMAIN W : x[1] = "events" => \E s \in v + 1 .. v + k : x = EventKey(i, s)
    /\ \A s \in v + 1 .. v + k : EventKey(i, s) \in DOMAIN W /\ W[EventKey(i, s)] = Id(s)
    /\ \A x \in DOMAIN W : x[1] = "outbox" => \E o \in t + 1 .. t + k : x = OutboxKey(o)
    /\ \A o \in t + 1 .. t + k :
          /\ OutboxKey(o) \in DOMAIN W
          /\ W[OutboxKey(o)] = OutboxRow(i, v + (o - t), Id(v + (o - t)))
    /\ TailKey \in DOMAIN W /\ W[TailKey] = t + k
    /\ StreamKey(i) \in DOMAIN W /\ W[StreamKey(i)] = v + k
    /\ \A j : StreamKey(j) \in DOMAIN W => j = i
    /\ IdemKey(q.scope) \in DOMAIN W /\ W[IdemKey(q.scope)] = Result(q, v, k)
    /\ \A s : IdemKey(s) \in DOMAIN W => s = q.scope
    /\ \A j : SnapshotKey(j) \in DOMAIN W =>
          j = i /\ SnapshotAt(v, k) # 0 /\ W[SnapshotKey(j)] = SnapshotAt(v, k)

LEMMA MutationsWrite ==
    ASSUME NEW q, NEW v \in Nat, NEW k \in Nat, NEW t \in Nat,
           NEW W, W = Mutations(q, v, k, t)
    PROVE  Written(W, q, v, k, t)
<1> DEFINE i == q.instance
           Id(s) == EventId(q.command_id, s)
           dom == {EventKey(i, s) : s \in v + 1 .. v + k}
                    \cup {DedupKey(Id(s)) : s \in v + 1 .. v + k}
                    \cup {OutboxKey(o) : o \in t + 1 .. t + k}
                    \cup {TailKey, StreamKey(i), IdemKey(q.scope), AuditKey(q.command_id)}
                    \cup (IF SnapshotAt(v, k) = 0 THEN {} ELSE {SnapshotKey(i)})
<1>1. DOMAIN W = dom
  BY Zenon DEF Mutations, Writes
<1>2. \A x \in dom :
        /\ x[1] = "events" => W[x] = Id(x[3])
        /\ x[1] = "outbox" => W[x] = OutboxRow(i, v + (x[2] - t), Id(v + (x[2] - t)))
        /\ x[1] = "outbox_meta" => W[x] = t + k
        /\ x[1] = "snapshots" => W[x] = SnapshotAt(v, k)
        /\ x[1] = "stream_meta" => W[x] = v + k
        /\ x[1] = "idempotency" => W[x] = Result(q, v, k)
  <2> TAKE x \in dom
  <2>1. W[x] = CASE x[1] = "events"      -> Id(x[3])
            [] x[1] = "dedup"       -> "present"
            [] x[1] = "outbox"      -> OutboxRow(i, v + (x[2] - t), Id(v + (x[2] - t)))
            [] x[1] = "outbox_meta" -> t + k
            [] x[1] = "snapshots"   -> SnapshotAt(v, k)
            [] x[1] = "stream_meta" -> v + k
            [] x[1] = "idempotency" -> Result(q, v, k)
            [] x[1] = "authorization_audit" -> q.command_id
    BY Zenon DEF Mutations, Writes
  <2> HIDE DEF Id, dom
  <2> QED  BY <2>1, Zenon
<1>3. \A x \in dom : x[1] = "events" => \E s \in v + 1 .. v + k : x = EventKey(i, s)
  <2> HIDE DEF Id
  <2> SUFFICES ASSUME NEW x \in dom, x[1] = "events" PROVE x \in {EventKey(i, s) : s \in v + 1 .. v + k}
    BY Zenon
  <2>1. x \notin {OutboxKey(o) : o \in t + 1 .. t + k}
    BY Keys
  <2>2. x \notin {DedupKey(Id(s)) : s \in v + 1 .. v + k}
    BY Keys
  <2>3. x \notin {TailKey, StreamKey(i), IdemKey(q.scope), AuditKey(q.command_id), SnapshotKey(i)}
    BY Keys
  <2> QED  BY <2>1, <2>2, <2>3, Zenon
<1>4. \A x \in dom : x[1] = "outbox" => \E o \in t + 1 .. t + k : x = OutboxKey(o)
  <2> HIDE DEF Id
  <2> SUFFICES ASSUME NEW x \in dom, x[1] = "outbox" PROVE x \in {OutboxKey(o) : o \in t + 1 .. t + k}
    BY Zenon
  <2>1. x \notin {EventKey(i, s) : s \in v + 1 .. v + k}
    BY Keys
  <2>2. x \notin {DedupKey(Id(s)) : s \in v + 1 .. v + k}
    BY Keys
  <2>3. x \notin {TailKey, StreamKey(i), IdemKey(q.scope), AuditKey(q.command_id), SnapshotKey(i)}
    BY Keys
  <2> QED  BY <2>1, <2>2, <2>3, Zenon
<1>5. \A s \in v + 1 .. v + k : EventKey(i, s) \in dom
  BY Zenon
<1>6. \A o \in t + 1 .. t + k : OutboxKey(o) \in dom
  BY Zenon
<1>7. TailKey \in dom /\ StreamKey(i) \in dom /\ IdemKey(q.scope) \in dom
  BY Zenon
<1>8. \A x \in dom : x[1] = "stream_meta" => x = StreamKey(i)
  BY Keys
<1>9. \A x \in dom : x[1] = "idempotency" => x = IdemKey(q.scope)
  BY Keys
<1>10. \A x \in dom : x[1] = "snapshots" => x = SnapshotKey(i) /\ SnapshotAt(v, k) # 0
  BY Keys
<1> HIDE DEF dom, Id
<1>11. \A s \in v + 1 .. v + k : W[EventKey(i, s)] = Id(s)
  BY <1>2, <1>5, Keys
<1>12. \A o \in t + 1 .. t + k : W[OutboxKey(o)] = OutboxRow(i, v + (o - t), Id(v + (o - t)))
  BY <1>2, <1>6, Keys
<1>13. /\ W[TailKey] = t + k /\ W[StreamKey(i)] = v + k
       /\ W[IdemKey(q.scope)] = Result(q, v, k)
  BY <1>2, <1>7, Keys
<1>14. /\ \A j : StreamKey(j) \in dom => j = i
       /\ \A j : IdemKey(j) \in dom => j = q.scope
  BY <1>8, <1>9, Keys
<1>15. \A j : SnapshotKey(j) \in dom => j = i /\ SnapshotAt(v, k) # 0
  BY <1>10, Keys
<1>16. \A j : SnapshotKey(j) \in dom => W[SnapshotKey(j)] = SnapshotAt(v, k)
  BY <1>2, Keys
<1> QED
  BY <1>1, <1>3, <1>4, <1>5, <1>6, <1>7, <1>11, <1>12, <1>13, <1>14, <1>15, <1>16, Zenon
     DEF Id, Written

(* Writing the mutations of a batch extends the database by its events. *)
LEMMA WriteExtends ==
    ASSUME NEW db, Rows(db), NEW q, NEW v \in Nat, NEW k \in Nat, NEW t \in Nat,
           Version(db, q.instance) = v, OutboxTail(db) = t,
           SnapshotAt(v, k) \in {0} \cup v + 1 .. v + k,
           NEW W, Written(W, q, v, k, t),
           NEW new, DOMAIN new = DOMAIN db \cup DOMAIN W,
           \A x \in DOMAIN W : new[x] = W[x],
           \A x \in DOMAIN db : x \notin DOMAIN W => new[x] = db[x]
    PROVE  Extended(db, new, q, v, k, t)
<1> DEFINE i == q.instance
           Id(s) == EventId(q.command_id, s)
<1>1. /\ Version(new, i) = v + k
      /\ \A j : j # i => Version(new, j) = Version(db, j)
  BY Zenon DEF Written, Version, NumberAt
<1>2. OutboxTail(new) = t + k
  BY Zenon DEF Written, OutboxTail, NumberAt
<1>3. \A j : j # i => Snapshot(new, j) = Snapshot(db, j)
  BY Zenon DEF Written, Snapshot, NumberAt
<1>4. Snapshot(new, i) \in {Snapshot(db, i)} \cup v + 1 .. v + k
  BY DEF Written, Snapshot, NumberAt
<1>5. /\ \A x \in DOMAIN W : x[1] = "events" => \E s \in v + 1 .. v + k : x = EventKey(i, s)
      /\ \A s \in v + 1 .. v + k : EventKey(i, s) \in DOMAIN W /\ W[EventKey(i, s)] = Id(s)
  BY Zenon DEF Written
<1>6. /\ \A x \in DOMAIN W : x[1] = "outbox" => \E o \in t + 1 .. t + k : x = OutboxKey(o)
      /\ \A o \in t + 1 .. t + k :
            /\ OutboxKey(o) \in DOMAIN W
            /\ W[OutboxKey(o)] = OutboxRow(i, v + (o - t), Id(v + (o - t)))
  BY Zenon DEF Written
<1>7. \A x \in DOMAIN db : x[1] = "events" => x \notin DOMAIN W
  <2> SUFFICES ASSUME NEW x \in DOMAIN db, x[1] = "events", x \in DOMAIN W PROVE FALSE
    BY Zenon
  <2>1. PICK s \in v + 1 .. v + k : x = EventKey(i, s)
    BY <1>5, Zenon
  <2>2. x[2] = i /\ x[3] = s
    BY <2>1, Keys
  <2> QED  BY <2>2 DEF Rows, EventRows
<1>8. \A x \in DOMAIN db : x[1] = "outbox" => x \notin DOMAIN W
  <2> SUFFICES ASSUME NEW x \in DOMAIN db, x[1] = "outbox", x \in DOMAIN W PROVE FALSE
    BY Zenon
  <2>1. PICK o \in t + 1 .. t + k : x = OutboxKey(o)
    BY <1>6, Zenon
  <2>2. x[2] = o
    BY <2>1, Keys, Zenon
  <2> QED  BY <2>2 DEF Rows, OutboxRows
<1>9. /\ \A x \in DOMAIN new :
            x[1] = "events" => x \in DOMAIN db \/ \E s \in v + 1 .. v + k : x = EventKey(i, s)
      /\ \A s \in v + 1 .. v + k : EventKey(i, s) \in DOMAIN new /\ new[EventKey(i, s)] = Id(s)
  BY <1>5, Zenon
<1>10. /\ \A x \in DOMAIN new :
            x[1] = "outbox" => x \in DOMAIN db \/ \E o \in t + 1 .. t + k : x = OutboxKey(o)
       /\ \A o \in t + 1 .. t + k :
            /\ OutboxKey(o) \in DOMAIN new
            /\ new[OutboxKey(o)] = OutboxRow(i, v + (o - t), Id(v + (o - t)))
  BY <1>6, Zenon
<1>11. \A x \in DOMAIN db : x[1] \in {"events", "outbox"} => x \in DOMAIN new /\ new[x] = db[x]
  BY <1>7, <1>8, Zenon
<1>12. /\ IdemKey(q.scope) \in DOMAIN new /\ new[IdemKey(q.scope)] = Result(q, v, k)
       /\ \A s : s # q.scope => /\ IdemKey(s) \in DOMAIN new <=> IdemKey(s) \in DOMAIN db
                                /\ IdemKey(s) \in DOMAIN db => new[IdemKey(s)] = db[IdemKey(s)]
  BY Zenon DEF Written
<1> QED
  BY <1>1, <1>2, <1>3, <1>4, <1>9, <1>10, <1>11, <1>12, Zenon DEF Extended

(* A function on 1..n is a sequence of length n. *)
LEMMA Listing ==
    ASSUME NEW n \in Nat, NEW U, NEW f \in [1..n -> U]
    PROVE  f \in Seq(U) /\ Len(f) = n
  OBVIOUS

(* The first conditions of a batch that applies: the stream is at the version *)
(* the command was decided on, its scope is free, the cursor has not moved.   *)
LEMMA Conditioned ==
    ASSUME NEW q, NEW v \in Nat, NEW k \in Nat, NEW t \in Nat, NEW n, NEW d, NEW db,
           Failing(db, Prepared(q, v, k, t, n, d)) = {}
    PROVE  /\ Version(db, q.instance) = v
           /\ OutboxTail(db) = t
           /\ IdemKey(q.scope) \notin DOMAIN db
<1> DEFINE A == << Expect(StreamKey(q.instance), OrMissing(v)),
                   Expect(IdemKey(q.scope), Missing),
                   Expect(AuditKey(q.command_id), Missing),
                   Expect(TailKey, OrMissing(t)) >>
           B == IF SnapshotAt(v, k) = 0 THEN <<>>
                ELSE << Expect(SnapshotKey(q.instance), OrMissing(n)) >>
           PerEvent(j) == << Expect(EventKey(q.instance, v + j), Missing),
                             Expect(DedupKey(EventId(q.command_id, v + j)), Missing),
                             Expect(OutboxKey(t + j), Missing) >>
           C == [x \in 1..3*k |-> PerEvent(1 + ((x - 1) \div 3))[1 + ((x - 1) % 3)]]
           U == {A[x] : x \in 1..4} \cup {B[x] : x \in DOMAIN B} \cup {C[x] : x \in 1..3*k}
           pre == (A \o B) \o C
<1>1. A \in Seq(U) /\ Len(A) = 4
  <2>1. Len(A) = 4 /\ DOMAIN A = 1..4
    OBVIOUS
  <2>2. \A x \in 1..4 : A[x] \in U
    BY Zenon
  <2> QED  BY <2>1, <2>2
<1>2. B \in Seq(U)
  <2>1. CASE SnapshotAt(v, k) = 0
    BY <2>1
  <2>2. CASE SnapshotAt(v, k) # 0
    <3>1. B = << Expect(SnapshotKey(q.instance), OrMissing(n)) >>
      BY <2>2, Zenon
    <3> HIDE DEF B, C, A
    <3>2. B[1] = Expect(SnapshotKey(q.instance), OrMissing(n)) /\ 1 \in DOMAIN B
      BY <3>1
    <3> QED  BY <3>1, <3>2
  <2> QED  BY <2>1, <2>2, Zenon
<1>3. C \in Seq(U)
  <2>1. 3 * k \in Nat /\ C = [x \in 1..3*k |-> C[x]]
    OBVIOUS
  <2>2. \A x \in 1..3*k : C[x] \in U
    <3> HIDE DEF A, B, C
    <3> QED  BY Zenon DEF U
  <2> HIDE DEF C, U
  <2>3. C \in [1..3*k -> U]
    BY <2>1, <2>2, Zenon
  <2> QED  BY <2>1, <2>3, Listing, Zenon
<1> HIDE DEF U, B, C
<1>4. (A \o B) \in Seq(U) /\ Len(A \o B) >= 4 /\ \A x \in 1..4 : (A \o B)[x] = A[x]
  BY <1>1, <1>2
<1>5. /\ \A x \in 1..4 : pre[x] = A[x] /\ x \in DOMAIN pre
  BY <1>4, <1>3
<1>6. Prepared(q, v, k, t, n, d).pre = pre
  BY Zenon DEF Prepared, Conditions, A, B, C
<1> HIDE DEF pre
<1>7. \A x \in 1..4 : Satisfied(db, A[x])
  BY <1>5, <1>6, Zenon DEF Failing
<1>8. /\ Satisfied(db, Expect(StreamKey(q.instance), OrMissing(v)))
      /\ Satisfied(db, Expect(IdemKey(q.scope), Missing))
      /\ Satisfied(db, Expect(TailKey, OrMissing(t)))
  BY <1>7
<1> QED  BY <1>8, CommitConstants, Zenon DEF Satisfied, Expect, OrMissing, Version, OutboxTail, NumberAt

-----------------------------------------------------------------------------
(* snapshot_at_latest_boundary returns a new sequence number, or none. *)
Boundaries == \A v, k \in Nat : SnapshotAt(v, k) \in {0} \cup v + 1 .. v + k

(* A batch whose conditions hold extends the database by its events. *)
LEMMA Effect ==
    ASSUME Boundaries, NEW db, Rows(db), NEW q \in Request, NEW v \in Nat, NEW k \in Nat, NEW t \in Nat,
           NEW n, NEW d, NEW b, b = Prepared(q, v, k, t, n, d), Failing(db, b) = {}
    PROVE  Step(db, Write(db, b), q, v, k, t) /\ IdemKey(q.scope) \notin DOMAIN db
<1>1. b.put = Mutations(q, v, k, t) /\ b.del = {}
  BY Zenon DEF Prepared
<1>2. Written(b.put, q, v, k, t)
  BY <1>1, MutationsWrite, Zenon
<1>3. /\ Version(db, q.instance) = v /\ OutboxTail(db) = t
      /\ IdemKey(q.scope) \notin DOMAIN db
  BY Conditioned
<1>4. SnapshotAt(v, k) \in {0} \cup v + 1 .. v + k
  BY Zenon DEF Boundaries
<1> DEFINE new == Write(db, b)
<1>5. /\ DOMAIN new = DOMAIN db \cup DOMAIN b.put
      /\ \A x \in DOMAIN b.put : new[x] = b.put[x]
      /\ \A x \in DOMAIN db : x \notin DOMAIN b.put => new[x] = db[x]
  BY <1>1, Zenon DEF Write
<1> HIDE DEF new
<1>6. Extended(db, new, q, v, k, t)
  BY <1>2, <1>3, <1>4, <1>5, WriteExtends, Zenon
<1> QED  BY <1>3, <1>6, Zenon DEF Step, new
-----------------------------------------------------------------------------
(* The applied-commands table and the receipts say the same.                 *)
Table(st) ==
    \A s \in DOMAIN st.applied :
        /\ IdemKey(s) \in DOMAIN st.db
        /\ st.db[IdemKey(s)] = st.applied[s].answer
        /\ st.applied[s].answer.command_id = st.applied[s].command_id

(* A batch that is not applied leaves the state alone; one that is applied    *)
(* extends the database, and its receipt is in both tables.                   *)
LEMMA BatchApplies ==
    ASSUME Boundaries, NEW st, Rows(st.db), Table(st),
           NEW q \in Request, NEW v \in Nat, NEW k \in Nat, NEW t \in Nat, NEW n, NEW d,
           NEW b, b = Prepared(q, v, k, t, n, d), Outcome(st, b).kind = "Applied"
    PROVE  /\ Step(st.db, ApplyBatch(st, b).db, q, v, k, t)
           /\ IdemKey(q.scope) \notin DOMAIN st.db
           /\ Outcome(st, b).answer = Result(q, v, k)
           /\ Table(ApplyBatch(st, b))
<1>1. Failing(st.db, b) = {} /\ Outcome(st, b) = Applied(b.answer)
  BY Zenon DEF Outcome, Rejected, Duplicate, PreconditionFailed
<1>2. /\ b.scope = q.scope /\ b.command_id = q.command_id /\ b.answer = Result(q, v, k)
  BY Zenon DEF Prepared
<1> DEFINE new == ApplyBatch(st, b)
<1>3. /\ new.db = Write(st.db, b)
      /\ new.applied = [s \in DOMAIN st.applied \cup {q.scope} |->
                          IF s = q.scope THEN Receipt(b) ELSE st.applied[s]]
  BY <1>2, Zenon DEF ApplyBatch
<1> HIDE DEF new
<1>4. Step(st.db, new.db, q, v, k, t) /\ IdemKey(q.scope) \notin DOMAIN st.db
  <2> DEFINE db == st.db
  <2>1. Rows(db) /\ Failing(db, b) = {}
    BY <1>1, Zenon
  <2> HIDE DEF db
  <2>2. Step(db, Write(db, b), q, v, k, t) /\ IdemKey(q.scope) \notin DOMAIN db
    BY <2>1, Effect, Zenon
  <2> QED  BY <2>2, <1>3, Zenon DEF db
<1>5. /\ IdemKey(q.scope) \in DOMAIN new.db /\ new.db[IdemKey(q.scope)] = Result(q, v, k)
      /\ \A s : s # q.scope =>
            /\ IdemKey(s) \in DOMAIN new.db <=> IdemKey(s) \in DOMAIN st.db
            /\ IdemKey(s) \in DOMAIN st.db => new.db[IdemKey(s)] = st.db[IdemKey(s)]
  BY <1>4, Zenon DEF Step, Extended
<1>6. Table(new)
  <2> SUFFICES ASSUME NEW s \in DOMAIN new.applied
               PROVE  /\ IdemKey(s) \in DOMAIN new.db
                      /\ new.db[IdemKey(s)] = new.applied[s].answer
                      /\ new.applied[s].answer.command_id = new.applied[s].command_id
    BY Zenon DEF Table
  <2>1. CASE s = q.scope
    <3>1. new.applied[s] = Receipt(b)
      BY <2>1, <1>3, Zenon
    <3>2. /\ new.applied[s].answer = Result(q, v, k)
          /\ new.applied[s].command_id = q.command_id
      BY <3>1, <1>2 DEF Receipt
    <3>3. Result(q, v, k).command_id = q.command_id
      BY Zenon DEF Result
    <3> QED  BY <3>2, <3>3, <2>1, <1>5, Zenon
  <2>2. CASE s # q.scope
    BY <2>2, <1>3, <1>5, Zenon DEF Table
  <2> QED  BY <2>1, <2>2, Zenon
<1>7. Outcome(st, b).answer = Result(q, v, k)
  BY <1>1, <1>2 DEF Applied
<1> QED  BY <1>4, <1>6, <1>7, Zenon DEF new

(* Batch b was prepared for call c. *)
Made(c, b) ==
    \E v, t, n, a \in Nat : \E k \in 1..MaxEvents : \E h \in {0, 1} :
        b = Prepared(Q(c), v, k, t, n, <<c, h, a>>)

(* What a prepared batch says of itself. *)
LEMMA MadeIs ==
    ASSUME NEW c \in Call, NEW b, Made(c, b)
    PROVE  /\ b.digest[1] = c /\ b.scope = Q(c).scope /\ b.command_id = Q(c).command_id
           /\ b \in WorkflowBatch
           /\ \E h \in {0, 1}, a \in Nat : b.digest = <<c, h, a>>
<1>1. PICK v \in Nat, t \in Nat, n \in Nat, a \in Nat, k \in 1..MaxEvents, h \in {0, 1} :
         b = Prepared(Q(c), v, k, t, n, <<c, h, a>>)
  BY Zenon DEF Made
<1>2. b.digest = <<c, h, a>> /\ b.scope = Q(c).scope /\ b.command_id = Q(c).command_id
  BY <1>1, Zenon DEF Prepared
<1>3. b \in WorkflowBatch
  BY <1>1, Names DEF WorkflowBatch
<1> QED  BY <1>2, <1>3

(* Such a batch keeps a state well formed. *)
LEMMA BatchKeeps ==
    ASSUME Boundaries, NEW st, Rows(st.db), Table(st), NEW c \in Call, NEW b, Made(c, b)
    PROVE  Rows(ApplyBatch(st, b).db) /\ Table(ApplyBatch(st, b))
<1>1. PICK v \in Nat, t \in Nat, n \in Nat, a \in Nat, k \in 1..MaxEvents, h \in {0, 1} :
         b = Prepared(Q(c), v, k, t, n, <<c, h, a>>)
  BY Zenon DEF Made
<1>2. Q(c) \in Request /\ k \in Nat
  BY Names
<1>3. CASE Outcome(st, b).kind = "Applied"
  <2> DEFINE q == Q(c)
             new == ApplyBatch(st, b).db
             d == <<c, h, a>>
  <2>1. q \in Request /\ b = Prepared(q, v, k, t, n, d)
    BY <1>1, <1>2, Zenon
  <2> HIDE DEF q, d
  <2>2. Step(st.db, new, q, v, k, t) /\ Table(ApplyBatch(st, b))
    BY <2>1, <1>2, <1>3, BatchApplies, Zenon
  <2> HIDE DEF new
  <2>3. Rows(new)
    BY <2>1, <2>2, <1>2, RowsExtend, Zenon
  <2> QED  BY <2>2, <2>3, Zenon DEF new
<1>4. CASE Outcome(st, b).kind # "Applied"
  BY <1>4, Zenon DEF ApplyBatch
<1> QED  BY <1>3, <1>4, Zenon

(* The state the log starts from. *)
LEMMA EmptyRows ==
    ASSUME NEW st, st.db = <<>>, st.applied = <<>>
    PROVE  Rows(st.db) /\ Table(st)
<1>1. DOMAIN st.db = {} /\ DOMAIN st.applied = {}
  OBVIOUS
<1>2. OutboxTail(st.db) = 0 /\ \A i : Version(st.db, i) = 0 /\ Snapshot(st.db, i) = 0
  BY <1>1, Zenon DEF OutboxTail, Version, Snapshot, NumberAt
<1>3. Numbers(st.db) /\ EventRows(st.db) /\ OutboxRows(st.db)
  BY <1>1, <1>2 DEF Numbers, EventRows, OutboxRows
<1>4. Announced(st.db) /\ Complete(st.db) /\ Ordered(st.db)
  BY <1>2 DEF Announced, Complete, Ordered
<1>5. Receipts(st.db) /\ Table(st)
  BY <1>1, Zenon DEF Receipts, Table
<1> QED  BY <1>3, <1>4, <1>5, Zenon DEF Rows
-----------------------------------------------------------------------------
(* What the command path relies on of the replicated store: its log and the   *)
(* replay of it, and disks that hold a state of that replay.                  *)
Replicated ==
    /\ Len(log) \in Nat /\ DOMAIN log = 1..Len(log)
    /\ DOMAIN chain = 0..Len(log) /\ DOMAIN verdict = 1..Len(log)
    /\ up \subseteq Node
    /\ \A n \in Node : /\ disk[n].last \in 0..Len(log) /\ last[n] = disk[n].last
                       /\ disk[n].state = chain[disk[n].last]
    /\ \A i \in 1..Len(log) : /\ chain[i] = ApplyBatch(chain[i - 1], log[i].batch)
                             /\ verdict[i] = Outcome(chain[i - 1], log[i].batch)
    /\ \A i \in 0..Len(log) : \A j \in i..Len(log) : \A k \in DOMAIN chain[i].db :
          AppendOnly(k) => k \in DOMAIN chain[j].db /\ chain[j].db[k] = chain[i].db[k]
    /\ \A a \in answers : a[1] \in 1..Len(log) /\ a[2] = verdict[a[1]]

(* The shape of the log and of its replay. *)
Shaped ==
    /\ Len(log) \in Nat /\ DOMAIN log = 1..Len(log)
    /\ DOMAIN chain = 0..Len(log) /\ DOMAIN verdict = 1..Len(log)

LEMMA ShapeOf == Replicated => Shaped
  BY Zenon DEF Replicated, Shaped

States == \A i \in 0..Len(log) : Rows(chain[i].db) /\ Table(chain[i])

Proposals ==
    /\ \A p \in flight : p.call \in Call /\ Made(p.call, p.batch)
    /\ \A i \in DOMAIN log :
          /\ log[i].kind = "batch"
          /\ log[i].batch.digest[1] \in Call
          /\ Made(log[i].batch.digest[1], log[i].batch)

(* What a step of a call leaves alone. *)
LEMMA CallLeavesStore ==
    ASSUME NEW c \in Call, CallStep(c)
    PROVE  UNCHANGED storeVars
  BY ZenonT(30) DEF CallStep, Begin, Lookup, Refuse, LoadVersion, LoadSnapshot, LoadEvents, Decide,
         Prepare, Build, Expire, Answer, ResolveResult, ResolveVersion

(* The log grows by batch b and so does its replay. *)
Grows(b) ==
    /\ Len(log') = Len(log) + 1
    /\ log'[Len(log) + 1].kind = "batch" /\ log'[Len(log) + 1].batch = b
    /\ \A i \in 1..Len(log) : log'[i] = log[i] /\ verdict'[i] = verdict[i]
    /\ chain'[Len(log) + 1] = ApplyBatch(chain[Len(log)], b)
    /\ \A i \in 0..Len(log) : chain'[i] = chain[i]
    /\ verdict'[Len(log) + 1] = Outcome(chain[Len(log)], b)
    /\ DOMAIN log' = 1..(Len(log) + 1)
    /\ UNCHANGED <<disk, last, up, answers>>

(* A node's database is one the log replays to. *)
LEMMA OnDisk ==
    ASSUME Replicated, States, NEW n \in Node
    PROVE  /\ disk[n].last \in 0..Len(log) /\ disk[n].state = chain[disk[n].last]
           /\ last[n] = disk[n].last
           /\ Rows(disk[n].state.db) /\ Table(disk[n].state)
<1>1. /\ disk[n].last \in 0..Len(log) /\ disk[n].state = chain[disk[n].last]
      /\ last[n] = disk[n].last
  BY Zenon DEF Replicated
<1> QED  BY <1>1, Zenon DEF States

(* Every state the log replays to stays well formed. *)
LEMMA StatesGrow ==
    ASSUME Boundaries, Replicated, States, Proposals, NEW p \in flight, Grows(p.batch)
    PROVE  States'
<1>2. p.call \in Call /\ Made(p.call, p.batch)
  BY Zenon DEF Proposals
<1>3. Rows(chain[Len(log)].db) /\ Table(chain[Len(log)])
  BY ShapeOf DEF States, Shaped
<1>4. /\ Rows(ApplyBatch(chain[Len(log)], p.batch).db)
      /\ Table(ApplyBatch(chain[Len(log)], p.batch))
  BY <1>2, <1>3, BatchKeeps, Zenon
<1>5. ASSUME NEW i \in 0..(Len(log) + 1)
      PROVE  Rows(chain'[i].db) /\ Table(chain'[i])
  <2>1. i = Len(log) + 1 \/ i \in 0..Len(log)
    BY ShapeOf DEF Shaped
  <2>2. \/ chain'[i] = ApplyBatch(chain[Len(log)], p.batch)
        \/ i \in 0..Len(log) /\ chain'[i] = chain[i]
    BY <2>1, <1>2, Zenon DEF Grows
  <2> QED  BY <2>2, <1>4, Zenon DEF States
<1>6. Len(log') = Len(log) + 1
  BY <1>2, Zenon DEF Grows
<1>7. \A i \in 0..Len(log') : Rows(chain'[i].db) /\ Table(chain'[i])
  BY <1>5, <1>6, Zenon
<1> QED  BY <1>7, Zenon DEF States, Rows, Table, Numbers, EventRows, OutboxRows, Announced, Complete, Ordered, Receipts
-----------------------------------------------------------------------------
(* A call that has begun and not returned. *)
Live(r) == r.pc \notin {"idle", "done"}

Typed(r) ==
    /\ r.pc \in {"idle", "done", "lookup", "version", "snapshot", "events", "decide",
                 "prepare", "build", "waiting", "result", "conflict"}
    /\ Live(r) =>
          /\ r.node \in up
          /\ r.hop \in {0, 1}
          /\ r.version \in Nat /\ r.snapshot \in Nat
          /\ r.attempt \in 0..MaxAttempts - 1
          /\ r.pc \in {"prepare", "build", "waiting", "result", "conflict"}
                => r.events \in 1..MaxEvents
Calls == DOMAIN call = Call /\ \A c \in Call : Typed(call[c])

(* Only call c changes, and becomes r. *)
Only(c, r) ==
    /\ DOMAIN call' = Call /\ call'[c] = r
    /\ \A d \in Call : d # c => call'[d] = call[d]

LEMMA Becoming ==
    ASSUME DOMAIN call = Call, NEW c \in Call, NEW r, Become(c, r)
    PROVE  Only(c, r)
  BY Zenon DEF Become, Only

LEMMA HandlerIs ==
    ASSUME NEW pc, NEW n, NEW hop, NEW v, NEW s, NEW seen, NEW k, NEW a,
           NEW r, r = Handler(pc, n, hop, v, s, seen, k, a)
    PROVE  /\ r.pc = pc /\ r.node = n /\ r.hop = hop /\ r.version = v /\ r.snapshot = s
           /\ r.seen = seen /\ r.events = k /\ r.attempt = a
  BY Zenon DEF Handler

LEMMA LoadedIs ==
    ASSUME NEW c, NEW pc, NEW v, NEW s, NEW seen, NEW r, r = Loaded(c, pc, v, s, seen)
    PROVE  /\ r.pc = pc /\ r.node = call[c].node /\ r.hop = call[c].hop
           /\ r.version = v /\ r.snapshot = s
           /\ r.seen = seen /\ r.events = call[c].events /\ r.attempt = call[c].attempt
  BY HandlerIs DEF Loaded

LEMMA PreparingIs ==
    ASSUME NEW c, NEW k, NEW a, NEW r, r = Preparing(c, k, a)
    PROVE  /\ r.pc = "prepare" /\ r.node = call[c].node /\ r.hop = call[c].hop
           /\ r.version = call[c].version /\ r.snapshot = call[c].snapshot
           /\ r.seen = call[c].seen /\ r.events = k /\ r.attempt = a
  BY HandlerIs DEF Preparing

LEMMA ReturnedIs ==
    ASSUME NEW kind, NEW result, NEW r, r = Returned(kind, result)
    PROVE  r.pc = "done" /\ r.kind = kind /\ r.result = result
  BY Zenon DEF Returned

(* Call c, at o, goes on with what it has, at r. *)
Same(o, r) ==
    /\ r.node = o.node /\ r.hop = o.hop /\ r.attempt = o.attempt
    /\ r.version = o.version /\ r.snapshot = o.snapshot
    /\ r.seen = o.seen /\ r.events = o.events

LEMMA Going ==
    ASSUME DOMAIN call = Call, NEW c \in Call, NEW pc, GoTo(c, pc)
    PROVE  Only(c, call'[c]) /\ call'[c].pc = pc /\ Same(call[c], call'[c])
<1> DEFINE r == Loaded(c, pc, call[c].version, call[c].snapshot, call[c].seen)
<1>1. Only(c, r)
  BY Becoming, Zenon DEF GoTo
<1>2. call'[c] = r
  BY <1>1, Zenon DEF Only
<1> HIDE DEF r
<1>3. r.pc = pc /\ Same(call[c], r)
  BY LoadedIs DEF Same, r
<1> QED  BY <1>1, <1>2, <1>3, Zenon

LEMMA Returning ==
    ASSUME DOMAIN call = Call, NEW c \in Call, NEW kind, NEW result,
           Become(c, Returned(kind, result))
    PROVE  /\ Only(c, call'[c]) /\ call'[c].pc = "done"
           /\ call'[c].kind = kind /\ call'[c].result = result
<1> DEFINE r == Returned(kind, result)
<1>1. Only(c, r)
  BY Becoming, Zenon
<1>2. call'[c] = r
  BY <1>1, Zenon DEF Only
<1> HIDE DEF r
<1>3. r.pc = "done" /\ r.kind = kind /\ r.result = result
  BY ReturnedIs DEF r
<1> QED  BY <1>1, <1>2, <1>3, Zenon

LEMMA Giving ==
    ASSUME DOMAIN call = Call, NEW c \in Call, NEW kind, Become(c, Failed(kind))
    PROVE  Only(c, call'[c]) /\ call'[c].pc = "done" /\ call'[c].kind = kind
  BY Returning, Zenon DEF Failed

LEMMA Replying ==
    ASSUME DOMAIN call = Call, NEW c \in Call, AnswerFromRow(c)
    PROVE  /\ Only(c, call'[c]) /\ call'[c].pc = "done"
           /\ \/ /\ call'[c].kind = "Duplicate"
                 /\ call'[c].result = Db(c)[IdemKey(Q(c).scope)]
                 /\ Db(c)[IdemKey(Q(c).scope)].command_id = Q(c).command_id
              \/ call'[c].kind = "IdempotencyConflict"
<1> DEFINE row == Db(c)[IdemKey(Q(c).scope)]
<1>1. Become(c, IF row.command_id = Q(c).command_id
                THEN Returned("Duplicate", row) ELSE Failed("IdempotencyConflict"))
  BY Zenon DEF AnswerFromRow
<1> HIDE DEF row
<1>2. CASE row.command_id = Q(c).command_id
  <2>1. Become(c, Returned("Duplicate", row))
    BY <1>1, <1>2, Zenon
  <2> QED  BY <2>1, <1>2, Returning DEF row
<1>3. CASE row.command_id # Q(c).command_id
  <2>1. Become(c, Failed("IdempotencyConflict"))
    BY <1>1, <1>3, Zenon
  <2> QED  BY <2>1, Giving, Zenon
<1> QED  BY <1>2, <1>3, Zenon

(* The database a running call reads. *)
LEMMA Reading ==
    ASSUME Replicated, States, Calls, NEW c \in Call, Live(call[c])
    PROVE  /\ call[c].node \in Node /\ Rows(Db(c))
           /\ disk[call[c].node].last \in 0..Len(log) /\ Db(c) = chain[disk[call[c].node].last].db
           /\ Version(Db(c), Q(c).instance) \in Nat /\ Snapshot(Db(c), Q(c).instance) \in Nat
           /\ OutboxTail(Db(c)) \in Nat
<1>1. call[c].node \in Node
  BY Zenon DEF Calls, Typed, Replicated
<1>2. /\ Rows(Db(c)) /\ disk[call[c].node].last \in 0..Len(log)
      /\ Db(c) = chain[disk[call[c].node].last].db
  BY <1>1, OnDisk, Zenon DEF Db
<1>3. Q(c).instance \in Instance
  BY Names, Zenon
<1>4. Numbers(Db(c))
  BY <1>2, Zenon DEF Rows
<1>5. /\ Version(Db(c), Q(c).instance) \in Nat /\ OutboxTail(Db(c)) \in Nat
      /\ Snapshot(Db(c), Q(c).instance) \in 0..Version(Db(c), Q(c).instance)
  BY <1>3, <1>4, Zenon DEF Numbers
<1>6. Snapshot(Db(c), Q(c).instance) \in Nat
  BY <1>5
<1> QED  BY <1>1, <1>2, <1>5, <1>6, Zenon

(* A call that does not wait for a proposal returns or goes on to the next of *)
(* its reads and preparations.                                                *)
Went(o, r) ==
    /\ Live(o) /\ o.pc # "waiting"
    /\ \/ r.pc = "done"
       \/ /\ r.node = o.node /\ r.hop = o.hop /\ r.attempt = o.attempt
          /\ r.version \in Nat /\ r.snapshot \in Nat
          /\ \/ r.pc = "version" /\ o.pc = "lookup"
             \/ r.pc = "snapshot" /\ o.pc = "version"
             \/ r.pc = "events" /\ o.pc = "snapshot"
             \/ r.pc = "decide" /\ o.pc = "events"
             \/ /\ r.pc = "prepare" /\ o.pc = "decide" /\ r.events \in 1..MaxEvents
                /\ r.version = o.version /\ r.snapshot = o.snapshot /\ r.seen = o.seen
             \/ r.pc = "build" /\ o.pc = "prepare" /\ Same(o, r)
             \/ r.pc = "conflict" /\ o.pc = "result" /\ Same(o, r)

(* What a call that returns has been told, and on what one that decides does. *)
Told(c) ==
    call'[c].pc = "done" =>
        \/ call'[c].kind \notin {"Committed", "Duplicate"}
        \/ /\ RowPresent(c) /\ call'[c].result = Db(c)[IdemKey(Q(c).scope)]
           /\ Db(c)[IdemKey(Q(c).scope)].command_id = Q(c).command_id

Replays(c) ==
    call'[c].pc = "decide" =>
        /\ call[c].snapshot + Cardinality(TailEvents(c)) = call[c].version
        /\ call'[c] = Replayed(c)

Moves(c) == Only(c, call'[c]) /\ Went(call[c], call'[c]) /\ Told(c) /\ Replays(c)

(* A kind of answer that is no receipt. *)
Empty(kind) == kind \notin {"Committed", "Duplicate"}

LEMMA GivingMoves ==
    ASSUME Calls, NEW c \in Call, Live(call[c]), call[c].pc # "waiting",
           NEW kind, Empty(kind), Become(c, Failed(kind))
    PROVE  Moves(c)
<1>1. Only(c, call'[c]) /\ call'[c].pc = "done" /\ call'[c].kind = kind
  BY Giving, Zenon DEF Calls
<1> QED  BY <1>1, Zenon DEF Moves, Went, Told, Replays, Empty

LEMMA LookupMoves ==
    ASSUME Calls, NEW c \in Call, Lookup(c) \/ Prepare(c) \/ ResolveResult(c)
    PROVE  Moves(c)
<1>1. /\ call[c].pc \in {"lookup", "prepare", "result"} /\ Live(call[c])
      /\ call[c].version \in Nat /\ call[c].snapshot \in Nat
  BY Zenon DEF Calls, Typed, Live, Lookup, Prepare, ResolveResult
<1>2. DOMAIN call = Call
  BY Zenon DEF Calls
<1>3. CASE RowPresent(c) /\ AnswerFromRow(c)
  <2>1. /\ Only(c, call'[c]) /\ call'[c].pc = "done"
        /\ \/ /\ call'[c].kind = "Duplicate"
              /\ call'[c].result = Db(c)[IdemKey(Q(c).scope)]
              /\ Db(c)[IdemKey(Q(c).scope)].command_id = Q(c).command_id
           \/ call'[c].kind = "IdempotencyConflict"
    BY <1>2, <1>3, Replying, Zenon
  <2>2. Went(call[c], call'[c]) /\ Replays(c)
    BY <1>1, <2>1, Zenon DEF Went, Replays
  <2>3. Told(c)
    BY <1>3, <2>1, Zenon DEF Told
  <2> QED  BY <2>1, <2>2, <2>3, Zenon DEF Moves
<1>4. CASE Become(c, Failed("Unavailable"))
  BY <1>1, <1>4, GivingMoves, Zenon DEF Empty
<1>5. CASE \E pc : /\ GoTo(c, pc)
                   /\ \/ pc = "version" /\ call[c].pc = "lookup"
                      \/ pc = "build" /\ call[c].pc = "prepare"
                      \/ pc = "conflict" /\ call[c].pc = "result"
  <2>1. PICK pc : /\ GoTo(c, pc)
                  /\ \/ pc = "version" /\ call[c].pc = "lookup"
                     \/ pc = "build" /\ call[c].pc = "prepare"
                     \/ pc = "conflict" /\ call[c].pc = "result"
    BY <1>5, Zenon
  <2>2. Only(c, call'[c]) /\ call'[c].pc = pc /\ Same(call[c], call'[c])
    BY <2>1, <1>2, Going, Zenon
  <2> QED  BY <2>1, <2>2, <1>1, Zenon DEF Moves, Went, Same, Told, Replays
<1> QED  BY <1>3, <1>4, <1>5, Zenon DEF Lookup, Prepare, ResolveResult

LEMMA RefuseMoves ==
    ASSUME Calls, NEW c \in Call, Refuse(c) \/ ResolveVersion(c)
    PROVE  Moves(c)
<1>1. \E kind : Empty(kind) /\ Become(c, Failed(kind))
  <2>1. Empty("Refused") /\ Empty("VersionConflict") /\ Empty("Unavailable")
    BY Zenon DEF Empty
  <2> QED  BY <2>1, Zenon DEF Refuse, ResolveVersion
<1>2. call[c].pc # "waiting" /\ Live(call[c])
  BY Zenon DEF Refuse, ResolveVersion, Live
<1> QED  BY <1>1, <1>2, GivingMoves, Zenon

LEMMA LoadMoves ==
    ASSUME Replicated, States, Calls, NEW c \in Call,
           LoadVersion(c) \/ LoadSnapshot(c) \/ LoadEvents(c)
    PROVE  Moves(c)
<1>1. /\ call[c].pc \in {"version", "snapshot", "events"} /\ Live(call[c])
      /\ call[c].version \in Nat /\ call[c].snapshot \in Nat
  BY Zenon DEF Calls, Typed, Live, LoadVersion, LoadSnapshot, LoadEvents
<1>2. DOMAIN call = Call
  BY Zenon DEF Calls
<1>3. /\ Version(Db(c), Q(c).instance) \in Nat /\ Snapshot(Db(c), Q(c).instance) \in Nat
  BY <1>1, Reading, Zenon
<1>4. CASE \E kind : Empty(kind) /\ Become(c, Failed(kind))
  BY <1>1, <1>4, GivingMoves, Zenon
<1>4a. Empty("CorruptData") /\ Empty("ReplayLimitExceeded")
  BY Zenon DEF Empty
<1>5. ASSUME NEW pc, NEW v \in Nat, NEW s \in Nat, NEW seen, Become(c, Loaded(c, pc, v, s, seen)),
             \/ pc = "snapshot" /\ call[c].pc = "version"
             \/ pc = "events" /\ call[c].pc = "snapshot"
             \/ /\ pc = "decide" /\ call[c].pc = "events"
                /\ call[c].snapshot + Cardinality(TailEvents(c)) = call[c].version
                /\ Loaded(c, pc, v, s, seen) = Replayed(c)
      PROVE  Moves(c)
  <2> DEFINE r == Loaded(c, pc, v, s, seen)
  <2>1. Only(c, r)
    BY <1>2, <1>5, Becoming, Zenon
  <2>2. call'[c] = r
    BY <2>1, Zenon DEF Only
  <2> HIDE DEF r
  <2>3. /\ r.pc = pc /\ r.node = call[c].node /\ r.hop = call[c].hop
        /\ r.version = v /\ r.snapshot = s /\ r.attempt = call[c].attempt
    BY LoadedIs DEF r
  <2>4. Went(call[c], r) /\ Told(c)
    BY <2>2, <2>3, <1>1, <1>5, Zenon DEF Went, Told
  <2>5. Replays(c)
    BY <2>2, <2>3, <1>5, Zenon DEF Replays, r
  <2> QED  BY <2>1, <2>2, <2>4, <2>5, Zenon DEF Moves
<1>6. CASE LoadVersion(c)
  BY <1>1, <1>3, <1>5, <1>6, Zenon DEF LoadVersion
<1>7. CASE LoadSnapshot(c)
  BY <1>1, <1>3, <1>4, <1>4a, <1>5, <1>7, Zenon DEF LoadSnapshot
<1>8. CASE LoadEvents(c)
  <2>1. \/ \E kind : Empty(kind) /\ Become(c, Failed(kind))
        \/ /\ call[c].pc = "events" /\ Become(c, Replayed(c))
           /\ call[c].snapshot + Cardinality(TailEvents(c)) = call[c].version
    BY <1>8, <1>4a, Zenon DEF LoadEvents
  <2> QED  BY <2>1, <1>1, <1>4, <1>5, Zenon DEF Replayed
<1> QED  BY <1>6, <1>7, <1>8, Zenon

LEMMA DecideMoves ==
    ASSUME Calls, NEW c \in Call, NEW k \in 1..MaxEvents, Decide(c, k)
    PROVE  Moves(c)
<1>1. /\ call[c].pc = "decide" /\ Live(call[c])
      /\ call[c].version \in Nat /\ call[c].snapshot \in Nat
  BY Zenon DEF Calls, Typed, Live, Decide
<1> DEFINE r == Preparing(c, k, call[c].attempt)
<1>2. Only(c, r)
  BY Becoming, Zenon DEF Decide, Calls
<1>3. call'[c] = r
  BY <1>2, Zenon DEF Only
<1> HIDE DEF r
<1>4. /\ r.pc = "prepare" /\ r.node = call[c].node /\ r.hop = call[c].hop
      /\ r.version = call[c].version /\ r.snapshot = call[c].snapshot
      /\ r.seen = call[c].seen /\ r.events = k /\ r.attempt = call[c].attempt
  BY PreparingIs DEF r
<1>5. Told(c) /\ Replays(c)
  BY <1>3, <1>4, Zenon DEF Told, Replays
<1> QED  BY <1>1, <1>2, <1>3, <1>4, <1>5, Zenon DEF Moves, Went
-----------------------------------------------------------------------------
(* d is the digest of an attempt before the one record r stands for. *)
Older(d, r) == d[2] < r.hop \/ (d[2] = r.hop /\ d[3] < r.attempt)

Current(c, r) == <<c, r.hop, r.attempt>>

(* The call must not have had, nor still have, an effect. *)
Clear(r) ==
    \/ Live(r) /\ r.pc # "waiting"
    \/ /\ r.pc = "done"
       /\ r.kind \in {"VersionConflict", "IdempotencyConflict", "NotLeader", "Refused"}

(* Call c in state r accounts for digest d of a proposal of its own.         *)
Accounts(c, r, d) ==
    /\ r.pc # "idle"
    /\ Live(r) => \/ Older(d, r)
                  \/ d = Current(c, r) /\ r.pc \in {"waiting", "result", "conflict"}

(* A proposal of the call that is in flight or took effect: the call waits   *)
(* for it, or has returned without a definite refusal.                       *)
Answerable(c, r, d) ==
    /\ ~Clear(r)
    /\ r.pc = "waiting" => d = Current(c, r)

Accountable(c, r) ==
    /\ \A p \in flight : p.call = c =>
          Accounts(c, r, p.batch.digest) /\ Answerable(c, r, p.batch.digest)
    /\ \A i \in DOMAIN log : log[i].batch.digest[1] = c =>
          /\ Accounts(c, r, log[i].batch.digest)
          /\ verdict[i].kind = "Applied" => Answerable(c, r, log[i].batch.digest)

(* No two proposals, in flight or committed, have the same bytes. *)
Distinct ==
    /\ \A p, r \in flight : p.batch.digest = r.batch.digest => p = r
    /\ \A p \in flight : \A i \in DOMAIN log : p.batch.digest # log[i].batch.digest
    /\ \A i, j \in DOMAIN log : log[i].batch.digest = log[j].batch.digest => i = j

Accounted == Distinct /\ \A c \in Call : Accountable(c, call[c])

(* Nothing of call c is in flight or took effect. *)
Quiet(c) ==
    /\ \A p \in flight : p.call # c
    /\ \A i \in DOMAIN log : log[i].batch.digest[1] = c => verdict[i].kind # "Applied"

LEMMA ClearIsQuiet ==
    ASSUME NEW c, NEW r, Accountable(c, r), Clear(r)
    PROVE  Quiet(c)
  BY Zenon DEF Accountable, Answerable, Quiet

(* A call's account stands while the log does and the call proposes nothing.  *)
LEMMA AccountStands ==
    ASSUME NEW d, Accountable(d, call[d]), call'[d] = call[d],
           \A p \in flight' : p \in flight \/ p.call # d, UNCHANGED <<log, verdict>>
    PROVE  Accountable(d, call[d])'
  BY Zenon DEF Accountable, Accounts, Answerable, Older, Current, Clear, Live

(* A call that moves on without a proposal. *)
LEMMA AccountMoves ==
    ASSUME NEW c \in Call, Accountable(c, call[c]), Went(call[c], call'[c]),
           flight' = flight, UNCHANGED <<log, verdict>>
    PROVE  Accountable(c, call[c])'
<1> DEFINE o == call[c]
           r == call'[c]
<1>1. Quiet(c)
  BY ClearIsQuiet, Zenon DEF Went, Clear
<1>2. \A i \in DOMAIN log : log[i].batch.digest[1] = c => Accounts(c, o, log[i].batch.digest)
  BY Zenon DEF Accountable
<1>3. Went(o, r)
  BY Zenon
<1> HIDE DEF o, r
<1>4. ASSUME NEW d, Accounts(c, o, d) PROVE Accounts(c, r, d)
  <2>1. CASE r.pc = "done"
    BY <2>1, Zenon DEF Accounts, Live
  <2>2. CASE r.pc # "done"
    <3>1. r.hop = o.hop /\ r.attempt = o.attempt /\ r.pc # "idle" /\ Live(o)
          /\ (o.pc \in {"waiting", "result", "conflict"} => r.pc = "conflict")
      BY <1>3, <2>2, Zenon DEF Went
    <3> QED  BY <3>1, <1>4, Zenon DEF Accounts, Older, Current
  <2> QED  BY <2>1, <2>2, Zenon
<1>5. Accountable(c, r)
  BY <1>1, <1>2, <1>4, Zenon DEF Accountable, Quiet
<1> QED  BY <1>5, Zenon DEF Accountable, Accounts, Answerable, Older, Current, Clear, Live, r

(* A call that returns without a definite refusal. *)
LEMMA AccountEnds ==
    ASSUME NEW c \in Call, Accountable(c, call[c]), call'[c].pc = "done",
           call'[c].kind \notin {"VersionConflict", "IdempotencyConflict", "NotLeader", "Refused"},
           flight' = flight, UNCHANGED <<log, verdict>>
    PROVE  Accountable(c, call[c])'
  BY Zenon DEF Accountable, Accounts, Answerable, Clear, Live

(* A call that has nothing in flight and has seen none of its proposals take *)
(* effect may go anywhere, if it accounts for what is in the log.            *)
LEMMA AccountQuiet ==
    ASSUME NEW c \in Call, \A p \in flight' : p.call # c, UNCHANGED <<log, verdict>>,
           \A i \in DOMAIN log : log[i].batch.digest[1] = c =>
              /\ verdict[i].kind # "Applied"
              /\ Accounts(c, call'[c], log[i].batch.digest)
    PROVE  Accountable(c, call[c])'
<1>1. \A i \in DOMAIN log' : log'[i].batch.digest[1] = c =>
              /\ verdict'[i].kind # "Applied"
              /\ Accounts(c, call'[c], log'[i].batch.digest)
  BY Zenon
<1> QED  BY <1>1, Zenon DEF Accountable, Accounts, Older, Current, Live

LEMMA AccountBegins ==
    ASSUME NEW c \in Call, Accountable(c, call[c]), call[c].pc = "idle",
           flight' = flight, UNCHANGED <<log, verdict>>
    PROVE  Accountable(c, call[c])'
<1>1. /\ \A p \in flight : p.call # c
      /\ \A i \in DOMAIN log : log[i].batch.digest[1] # c
  BY Zenon DEF Accountable, Accounts
<1> QED  BY <1>1, AccountQuiet, Zenon

(* The proposal of a call is the first with its bytes, and the call waits for it. *)
LEMMA AccountBuilds ==
    ASSUME Calls, Proposals, Accounted, NEW c \in Call, call[c].pc = "build",
           NEW p, p.call = c, p.batch.digest = Current(c, call[c]), flight' = flight \cup {p},
           call'[c].pc = "waiting", Same(call[c], call'[c]), UNCHANGED <<log, verdict>>
    PROVE  Accountable(c, call[c])' /\ Distinct'
<1> DEFINE o == call[c]
           r == call'[c]
           d == p.batch.digest
<1>1. Accountable(c, o) /\ Distinct
  BY Zenon DEF Accounted
<1>2. Clear(o) /\ Live(o) /\ o.hop \in Nat /\ o.attempt \in Nat
  BY CommitConstants DEF Clear, Live, Calls, Typed
<1>3. Quiet(c)
  BY <1>1, <1>2, ClearIsQuiet, Zenon
<1>4. ASSUME NEW i \in DOMAIN log, log[i].batch.digest[1] = c
      PROVE  Older(log[i].batch.digest, o)
  BY <1>1, <1>2, <1>4, Zenon DEF Accountable, Accounts
<1>5. d = <<c, o.hop, o.attempt>> /\ d[1] = c /\ d[2] = o.hop /\ d[3] = o.attempt
  BY DEF Current
<1>6. ~Older(d, o)
  BY <1>2, <1>5 DEF Older
<1>7. \A i \in DOMAIN log : log[i].batch.digest # d
  BY <1>4, <1>5, <1>6, Zenon
<1>8. \A x \in flight : x.batch.digest # d
  <2> SUFFICES ASSUME NEW x \in flight, x.batch.digest = d PROVE FALSE
    BY Zenon
  <2>1. x.call \in Call /\ Made(x.call, x.batch)
    BY Zenon DEF Proposals
  <2>2. x.batch.digest[1] = x.call
    BY <2>1, MadeIs, Zenon
  <2> QED  BY <2>2, <1>3, <1>5, Zenon DEF Quiet
<1>9. Distinct'
  BY <1>1, <1>7, <1>8, Zenon DEF Distinct
<1>10. r.hop = o.hop /\ r.attempt = o.attempt /\ r.pc = "waiting"
  BY Zenon DEF Same
<1> HIDE DEF o, r, d
<1>11. Accounts(c, r, d) /\ Answerable(c, r, d)
  BY <1>5, <1>10, Zenon DEF Accounts, Answerable, Clear, Live, Current
<1>12. \A x \in flight' : x.call = c => x.batch.digest = d
  BY <1>3, Zenon DEF Quiet, d
<1>13. \A i \in DOMAIN log' : log'[i].batch.digest[1] = c =>
          Accounts(c, r, log'[i].batch.digest) /\ verdict'[i].kind # "Applied"
  BY <1>3, <1>4, <1>10, Zenon DEF Quiet, Accounts, Older
<1> QED  BY <1>9, <1>11, <1>12, <1>13, Zenon DEF Accountable, Accounts, Answerable, Older, Current, Clear, Live, r

(* A call whose proposal did not take effect prepares again or resolves. *)
LEMMA AccountResolves ==
    ASSUME Calls, Proposals, Accounted, NEW c \in Call, call[c].pc = "waiting",
           NEW i \in DOMAIN log, log[i].batch.digest = Current(c, call[c]),
           verdict[i].kind # "Applied", call'[c].hop = call[c].hop,
           \/ call'[c].pc = "prepare" /\ call'[c].attempt = call[c].attempt + 1
           \/ call'[c].pc = "result" /\ call'[c].attempt = call[c].attempt,
           flight' = flight, UNCHANGED <<log, verdict>>
    PROVE  Accountable(c, call[c])'
<1> DEFINE o == call[c]
           r == call'[c]
<1>1. Accountable(c, o) /\ Distinct
  BY Zenon DEF Accounted
<1>2. Live(o) /\ o.hop \in Nat /\ o.attempt \in Nat
  BY CommitConstants DEF Live, Calls, Typed
<1>3. \A p \in flight' : p.call # c
  BY <1>1, Zenon DEF Accountable, Answerable, Distinct
<1>4. ASSUME NEW j \in DOMAIN log, log[j].batch.digest[1] = c
      PROVE  /\ verdict[j].kind # "Applied"
             /\ Accounts(c, r, log[j].batch.digest)
  <2> DEFINE d == log[j].batch.digest
  <2>1. Accounts(c, o, d) /\ (verdict[j].kind = "Applied" => d = Current(c, o))
    BY <1>1, <1>4, Zenon DEF Accountable, Answerable
  <2>2. verdict[j].kind # "Applied"
    BY <2>1, <1>1, Zenon DEF Distinct
  <2>3. Older(d, o) \/ d = <<c, o.hop, o.attempt>>
    BY <2>1, <1>2, Zenon DEF Accounts, Current
  <2> HIDE DEF o, r, d
  <2>4. \/ r.pc = "prepare" /\ r.attempt = o.attempt + 1 /\ r.hop = o.hop
        \/ r.pc = "result" /\ r.attempt = o.attempt /\ r.hop = o.hop
    BY Zenon DEF o, r
  <2>5. CASE Older(d, o)
    <3>1. d[2] < o.hop \/ (d[2] = o.hop /\ d[3] < o.attempt)
      BY <2>5, Zenon DEF Older
    <3>2. o.attempt \in Nat /\ d[3] \in Nat
      <4>1. Made(c, log[j].batch)
        BY <1>4, Zenon DEF Proposals
      <4>2. PICK h \in {0, 1}, a \in Nat : log[j].batch.digest = <<c, h, a>>
        BY <4>1, MadeIs
      <4> QED  BY <4>2, <1>2 DEF d
    <3>3. d[3] < o.attempt => d[3] < o.attempt + 1
      BY <3>2
    <3>4. Older(d, r)
      BY <2>4, <3>1, <3>3, Zenon DEF Older
    <3> QED  BY <2>2, <2>4, <3>4, Zenon DEF Accounts, d
  <2>6. CASE d = <<c, o.hop, o.attempt>>
    <3>1. d[2] = o.hop /\ d[3] = o.attempt
      BY <2>6, Zenon
    <3>2. d[3] < o.attempt + 1
      BY <3>1, <1>2 DEF o
    <3>3. Older(d, r) \/ (d = Current(c, r) /\ r.pc = "result")
      BY <2>4, <2>6, <3>1, <3>2, Zenon DEF Older, Current
    <3> QED  BY <2>2, <2>4, <3>3, Zenon DEF Accounts, d
  <2> QED  BY <2>2, <2>3, <2>5, <2>6, Zenon DEF d
<1> QED  BY <1>3, <1>4, AccountQuiet, Zenon

(* A call whose proposal is lost has none left. *)
LEMMA AccountLoses ==
    ASSUME Calls, Proposals, Accounted, NEW p \in flight, Awaited(p),
           flight' = flight \ {p}, UNCHANGED <<log, verdict>>,
           \/ call'[p.call].pc = "done"
           \/ call[p.call].hop = 0 /\ call'[p.call].hop = 1 /\ call'[p.call].pc = "lookup"
    PROVE  Accountable(p.call, call[p.call])'
<1> DEFINE c == p.call
           o == call[c]
           r == call'[c]
<1>1. c \in Call /\ Accountable(c, o) /\ Distinct
  BY Zenon DEF Accounted, Proposals
<1>2. o.pc = "waiting" /\ p.batch.digest = Current(c, o)
  BY Zenon DEF Awaited, Current
<1>3. \A x \in flight' : x.call # c
  BY <1>1, <1>2, Zenon DEF Accountable, Answerable, Distinct
<1>4. ASSUME NEW j \in DOMAIN log, log[j].batch.digest[1] = c
      PROVE  verdict[j].kind # "Applied" /\ Accounts(c, r, log[j].batch.digest)
  <2> DEFINE d == log[j].batch.digest
  <2>1. Accounts(c, o, d) /\ (verdict[j].kind = "Applied" => d = Current(c, o))
    BY <1>1, <1>2, <1>4, Zenon DEF Accountable, Answerable
  <2>2. verdict[j].kind # "Applied"
    BY <2>1, <1>1, <1>2, Zenon DEF Distinct
  <2>3. CASE r.pc = "done"
    BY <2>2, <2>3, Zenon DEF Accounts, Live
  <2>4. CASE o.hop = 0 /\ r.hop = 1 /\ r.pc = "lookup"
    <3>1. PICK h \in {0, 1}, a \in Nat : d = <<c, h, a>>
      BY <1>1, <1>4, MadeIs DEF Proposals
    <3>2. Older(d, o) \/ d = <<c, o.hop, o.attempt>>
      BY <2>1, <1>2, Zenon DEF Accounts, Current, Live
    <3> HIDE DEF d
    <3>3. d[2] = 0
      BY <2>4, <3>1, <3>2 DEF Older
    <3> QED  BY <2>2, <2>4, <3>3 DEF Accounts, Older, d
  <2> QED  BY <2>3, <2>4, Zenon
<1> QED  BY <1>1, <1>3, <1>4, AccountQuiet, Zenon
-----------------------------------------------------------------------------
(* A committed proposal is accounted for as it was in flight. *)
LEMMA AccountCommits ==
    ASSUME Replicated, Proposals, Accounted, NEW p \in flight, Grows(p.batch),
           flight' = flight \ {p}, UNCHANGED call
    PROVE  Accounted'
<1> DEFINE n == Len(log) + 1
<1>1. p.call \in Call /\ p.batch.digest[1] = p.call
  BY MadeIs, Zenon DEF Proposals
<1>2. /\ DOMAIN log' = 1..n /\ DOMAIN log = 1..(n - 1) /\ n \in Nat \ {0}
      /\ log'[n].batch = p.batch
      /\ \A i \in 1..(n - 1) : log'[i] = log[i] /\ verdict'[i] = verdict[i]
  BY ShapeOf DEF Grows, Shaped
<1> HIDE DEF n
<1>3. \A i \in DOMAIN log' : i = n \/ (i \in DOMAIN log /\ log'[i] = log[i] /\ verdict'[i] = verdict[i])
  BY <1>2
<1>4. Distinct'
  <2>1. \A x, y \in flight' : x.batch.digest = y.batch.digest => x = y
    BY Zenon DEF Accounted, Distinct
  <2>2. \A x \in flight' : \A i \in DOMAIN log' : x.batch.digest # log'[i].batch.digest
    BY <1>2, <1>3 DEF Accounted, Distinct
  <2>3. \A i, j \in DOMAIN log' : log'[i].batch.digest = log'[j].batch.digest => i = j
    BY <1>2, <1>3 DEF Accounted, Distinct
  <2> QED  BY <2>1, <2>2, <2>3, Zenon DEF Distinct
<1>5. ASSUME NEW c \in Call PROVE Accountable(c, call[c])'
  <2> DEFINE r == call[c]
  <2>1. Accountable(c, r)
    BY Zenon DEF Accounted
  <2>2. \A x \in flight' : x.call = c => Accounts(c, r, x.batch.digest) /\ Answerable(c, r, x.batch.digest)
    BY <2>1, Zenon DEF Accountable
  <2>3. \A i \in DOMAIN log' : log'[i].batch.digest[1] = c =>
          /\ Accounts(c, r, log'[i].batch.digest)
          /\ verdict'[i].kind = "Applied" => Answerable(c, r, log'[i].batch.digest)
    <3> SUFFICES ASSUME NEW i \in DOMAIN log', log'[i].batch.digest[1] = c
                 PROVE  /\ Accounts(c, r, log'[i].batch.digest)
                        /\ verdict'[i].kind = "Applied" => Answerable(c, r, log'[i].batch.digest)
      BY Zenon
    <3>1. CASE i = n
      BY <3>1, <1>1, <1>2, <2>1, Zenon DEF Accountable
    <3>2. CASE i \in DOMAIN log /\ log'[i] = log[i] /\ verdict'[i] = verdict[i]
      BY <3>2, <2>1, Zenon DEF Accountable
    <3> QED  BY <3>1, <3>2, <1>3, Zenon
  <2> QED  BY <2>2, <2>3, Zenon DEF Accountable, Accounts, Answerable, Older, Current, Clear, Live
<1> QED  BY <1>4, <1>5, Zenon DEF Accounted
-----------------------------------------------------------------------------
(* The steps of a call that have to do with its proposals. *)
LEMMA BeginIs ==
    ASSUME Calls, NEW c \in Call, NEW n, Begin(c, n)
    PROVE  /\ Only(c, call'[c]) /\ call[c].pc = "idle" /\ call'[c].pc = "lookup"
           /\ call'[c].node \in up /\ call'[c].hop = 0 /\ call'[c].attempt = 0
           /\ call'[c].version = 0 /\ call'[c].snapshot = 0
<1> DEFINE r == Running(n, 0)
<1>1. Only(c, r) /\ call[c].pc = "idle" /\ n \in up
  BY Becoming, Zenon DEF Begin, Calls
<1>2. call'[c] = r
  BY <1>1, Zenon DEF Only
<1> HIDE DEF r
<1>3. /\ r.pc = "lookup" /\ r.node = n /\ r.hop = 0 /\ r.attempt = 0
      /\ r.version = 0 /\ r.snapshot = 0
  BY HandlerIs DEF Running, r
<1> QED  BY <1>1, <1>2, <1>3, Zenon

LEMMA BuildIs ==
    ASSUME Replicated, States, Calls, NEW c \in Call, Build(c)
    PROVE  /\ Only(c, call'[c]) /\ call[c].pc = "build" /\ call'[c].pc = "waiting"
           /\ Same(call[c], call'[c]) /\ flight' = flight \cup {Proposal(c)}
           /\ Proposal(c).call = c /\ Proposal(c).node = call[c].node
           /\ Proposal(c).batch.digest = Current(c, call[c]) /\ Made(c, Proposal(c).batch)
<1> DEFINE r == call[c]
           t == OutboxTail(Db(c))
           n == Snapshot(Db(c), Q(c).instance)
           d == <<c, r.hop, r.attempt>>
           b == Prepared(Q(c), r.version, r.events, t, n, d)
<1>1. /\ Only(c, call'[c]) /\ r.pc = "build" /\ call'[c].pc = "waiting"
      /\ Same(r, call'[c]) /\ flight' = flight \cup {Proposal(c)}
  BY Going, Zenon DEF Build, Calls
<1>2. Proposal(c).call = c /\ Proposal(c).node = r.node /\ Proposal(c).batch = b
  BY Zenon DEF Proposal
<1>3. Live(r) /\ t \in Nat /\ n \in Nat
  BY <1>1, Reading, Zenon DEF Live
<1>4. r.hop \in {0, 1} /\ r.attempt \in Nat /\ r.version \in Nat /\ r.events \in 1..MaxEvents
  BY <1>1, <1>3, CommitConstants DEF Calls, Typed
<1> HIDE DEF r, t, n
<1>5. Made(c, b)
  BY <1>3, <1>4, Zenon DEF Made
<1> HIDE DEF d
<1>6. b.digest = d
  BY Zenon DEF Prepared
<1> QED  BY <1>1, <1>2, <1>5, <1>6, Zenon DEF r, d, Current

(* The answer to a call's proposal is the verdict of the log. *)
Answered(c, i) ==
    /\ log[i].batch.digest = Current(c, call[c])
    /\ \/ /\ verdict[i].kind = "PreconditionFailed" /\ call[c].attempt + 1 < MaxAttempts
          /\ call'[c].pc = "prepare" /\ call'[c].attempt = call[c].attempt + 1
          /\ call'[c].hop = call[c].hop /\ call'[c].node = call[c].node
          /\ call'[c].version = call[c].version /\ call'[c].snapshot = call[c].snapshot
          /\ call'[c].seen = call[c].seen /\ call'[c].events = call[c].events
       \/ /\ verdict[i].kind \in {"Applied", "Duplicate"} /\ call'[c].pc = "done"
          /\ call'[c].kind \in {"Committed", "Duplicate"} /\ call'[c].result = verdict[i].answer
       \/ /\ verdict[i].kind \notin {"Applied", "Duplicate"}
          /\ call'[c].pc = "result" /\ Same(call[c], call'[c])

LEMMA AnswerIs ==
    ASSUME Replicated, Calls, NEW c \in Call, Answer(c)
    PROVE  /\ Only(c, call'[c]) /\ call[c].pc = "waiting"
           /\ \E i \in DOMAIN log : Answered(c, i)
<1>1. PICK i \in IndexOf(c), a \in answers :
        /\ a[1] = i
        /\ Become(c, IF Rebases(c, a[2])
                       THEN Preparing(c, call[c].events, call[c].attempt + 1)
                       ELSE IF a[2].kind = "Applied" THEN Returned("Committed", a[2].answer)
                       ELSE IF a[2].kind = "Duplicate" THEN Returned("Duplicate", a[2].answer)
                       ELSE Loaded(c, "result", call[c].version, call[c].snapshot, call[c].seen))
  BY Zenon DEF Answer
<1> DEFINE o == verdict[i]
<1>2. /\ i \in DOMAIN log /\ log[i].batch.digest = Current(c, call[c])
      /\ a[2] = o /\ call[c].pc = "waiting" /\ DOMAIN call = Call
  BY <1>1, Zenon DEF IndexOf, Replicated, Answer, Calls, Current
<1> HIDE DEF o
<1>3. CASE Rebases(c, o)
  <2> DEFINE r == Preparing(c, call[c].events, call[c].attempt + 1)
  <2>1. Become(c, r)
    BY <1>1, <1>2, <1>3, Zenon
  <2>2. Only(c, r) /\ call'[c] = r
    BY <2>1, <1>2, Becoming, Zenon DEF Only
  <2> HIDE DEF r
  <2>3. /\ r.pc = "prepare" /\ r.node = call[c].node /\ r.hop = call[c].hop
        /\ r.version = call[c].version /\ r.snapshot = call[c].snapshot
        /\ r.seen = call[c].seen /\ r.events = call[c].events /\ r.attempt = call[c].attempt + 1
    BY PreparingIs DEF r
  <2>4. Answered(c, i)
    BY <1>2, <1>3, <2>2, <2>3, Zenon DEF Answered, Rebases, o
  <2> QED  BY <1>2, <2>2, <2>4, Zenon
<1>4. CASE ~Rebases(c, o) /\ o.kind \in {"Applied", "Duplicate"}
  <2>1. PICK kind \in {"Committed", "Duplicate"} : Become(c, Returned(kind, o.answer))
    BY <1>1, <1>2, <1>4, Zenon
  <2>2. /\ Only(c, call'[c]) /\ call'[c].pc = "done"
        /\ call'[c].kind = kind /\ call'[c].result = o.answer
    BY <2>1, <1>2, Returning
  <2>3. Answered(c, i)
    BY <1>2, <1>4, <2>2, Zenon DEF Answered, o
  <2> QED  BY <1>2, <2>2, <2>3, Zenon
<1>5. CASE ~Rebases(c, o) /\ o.kind \notin {"Applied", "Duplicate"}
  <2>1. GoTo(c, "result")
    BY <1>1, <1>2, <1>5, Zenon DEF GoTo
  <2>2. Only(c, call'[c]) /\ call'[c].pc = "result" /\ Same(call[c], call'[c])
    BY <2>1, <1>2, Going, Zenon
  <2>3. Answered(c, i)
    BY <1>2, <1>5, <2>2, Zenon DEF Answered, o
  <2> QED  BY <1>2, <2>2, <2>3, Zenon
<1> QED  BY <1>3, <1>4, <1>5, Zenon
-----------------------------------------------------------------------------
(* A receipt given to call c is in db; what call c loaded is in db. *)
Receipted(c, r, db) ==
    r.pc = "done" /\ r.kind \in {"Committed", "Duplicate"} =>
        /\ IdemKey(Q(c).scope) \in DOMAIN db
        /\ db[IdemKey(Q(c).scope)] = r.result
        /\ r.result.command_id = Q(c).command_id

Grounded(c, r, db) ==
    r.pc \in {"decide", "prepare", "build", "waiting"} =>
        /\ \A s \in r.snapshot + 1 .. r.version : EventKey(Q(c).instance, s) \in DOMAIN db
        /\ r.seen = {<<s, db[EventKey(Q(c).instance, s)]>> : s \in r.snapshot + 1 .. r.version}

Truthful == \A c \in Call : Receipted(c, call[c], Latest) /\ Grounded(c, call[c], Latest)

(* Every append-only row of db is in new. *)
Later(db, new) == \A k \in DOMAIN db : AppendOnly(k) => k \in DOMAIN new /\ new[k] = db[k]

LEMMA LaterKeeps ==
    ASSUME NEW db, NEW new, Later(db, new), NEW c, NEW r
    PROVE  /\ Receipted(c, r, db) => Receipted(c, r, new)
           /\ Grounded(c, r, db) => Grounded(c, r, new)
<1>1. \A i, s : AppendOnly(EventKey(i, s)) /\ AppendOnly(IdemKey(s))
  BY Keys, CommitConstants DEF AppendOnly
<1>2. Receipted(c, r, db) => Receipted(c, r, new)
  BY <1>1, Zenon DEF Receipted, Later
<1>3. ASSUME Grounded(c, r, db), r.pc \in {"decide", "prepare", "build", "waiting"}
      PROVE  Grounded(c, r, new)
  <2> DEFINE S == r.snapshot + 1 .. r.version
             i == Q(c).instance
  <2>1. /\ \A s \in S : EventKey(i, s) \in DOMAIN db
        /\ r.seen = {<<s, db[EventKey(i, s)]>> : s \in S}
    BY <1>3, Zenon DEF Grounded
  <2> HIDE DEF S, i
  <2>2. \A s \in S : EventKey(i, s) \in DOMAIN new /\ new[EventKey(i, s)] = db[EventKey(i, s)]
    BY <1>1, <2>1, Zenon DEF Later
  <2>3. r.seen = {<<s, new[EventKey(i, s)]>> : s \in S}
    BY <2>1, <2>2, Zenon
  <2> QED  BY <2>2, <2>3, Zenon DEF Grounded, S, i
<1> QED  BY <1>2, <1>3, Zenon DEF Grounded

(* A state of the replay stays in the log. *)
LEMMA LatestHasIt ==
    ASSUME Replicated, NEW i \in 0..Len(log)
    PROVE  Later(chain[i].db, Latest)
<1>1. Len(log) \in i..Len(log)
  BY ShapeOf DEF Shaped
<1> QED  BY <1>1, Zenon DEF Replicated, Later, Latest

LEMMA LatestGrows ==
    ASSUME Replicated, Replicated', NEW b, Grows(b)
    PROVE  Later(Latest, Latest')
<1>1. Len(log) \in 0..Len(log') /\ Len(log') \in Len(log)..Len(log')
  BY ShapeOf DEF Grows, Shaped
<1>2. chain'[Len(log)] = chain[Len(log)]
  BY ShapeOf DEF Grows, Shaped
<1>3. \A k \in DOMAIN chain'[Len(log)].db : AppendOnly(k) =>
         k \in DOMAIN chain'[Len(log')].db /\ chain'[Len(log')].db[k] = chain'[Len(log)].db[k]
  BY <1>1, Zenon DEF Replicated, AppendOnly
<1> QED  BY <1>2, <1>3, Zenon DEF Later, Latest

(* What the log answers to a call's proposal is the receipt it holds. *)
LEMMA AnswerIsReceipt ==
    ASSUME Boundaries, Replicated, States, Proposals, NEW i \in DOMAIN log, NEW c \in Call,
           log[i].batch.digest[1] = c, verdict[i].kind \in {"Applied", "Duplicate"}
    PROVE  /\ IdemKey(Q(c).scope) \in DOMAIN Latest
           /\ Latest[IdemKey(Q(c).scope)] = verdict[i].answer
           /\ verdict[i].answer.command_id = Q(c).command_id
<1> DEFINE b == log[i].batch
           st == chain[i - 1]
           new == chain[i]
           q == Q(c)
           k == IdemKey(q.scope)
<1>0. i \in 1..Len(log) /\ i \in 0..Len(log) /\ i - 1 \in 0..Len(log)
  BY ShapeOf DEF Shaped
<1>1. /\ i \in 0..Len(log) /\ i - 1 \in 0..Len(log)
      /\ new = ApplyBatch(st, b) /\ verdict[i] = Outcome(st, b)
  BY <1>0, Zenon DEF Replicated
<1>2. Rows(st.db) /\ Table(st) /\ Made(c, b)
  BY <1>1, Zenon DEF States, Proposals
<1>3. Later(new.db, Latest)
  BY <1>1, LatestHasIt, Zenon
<1>4. b.scope = q.scope /\ b.command_id = q.command_id
  BY <1>2, MadeIs, Zenon
<1>5. AppendOnly(k)
  BY Keys, CommitConstants DEF AppendOnly
<1>6. q \in Request
  BY Names, Zenon
<1> HIDE DEF q, b, st, new
<1>7. ASSUME k \in DOMAIN new.db, new.db[k] = verdict[i].answer, verdict[i].answer.command_id = q.command_id
      PROVE  /\ k \in DOMAIN Latest /\ Latest[k] = verdict[i].answer
             /\ verdict[i].answer.command_id = q.command_id
  BY <1>3, <1>5, <1>7, Zenon DEF Later
<1>8. CASE Outcome(st, b).kind = "Applied"
  <2>1. PICK v \in Nat, t \in Nat, n \in Nat, a \in Nat, m \in 1..MaxEvents, h \in {0, 1} :
           b = Prepared(q, v, m, t, n, <<c, h, a>>)
    BY <1>2, Zenon DEF Made, q
  <2> DEFINE d == <<c, h, a>>
  <2>2. m \in Nat /\ b = Prepared(q, v, m, t, n, d)
    BY <2>1
  <2> HIDE DEF d
  <2>3. Step(st.db, ApplyBatch(st, b).db, q, v, m, t) /\ Outcome(st, b).answer = Result(q, v, m)
    BY <1>2, <1>6, <1>8, <2>2, BatchApplies
  <2>4. k \in DOMAIN new.db /\ new.db[k] = Result(q, v, m)
    BY <1>1, <2>3, Zenon DEF Step, Extended
  <2>5. Result(q, v, m).command_id = q.command_id
    BY Zenon DEF Result
  <2> QED  BY <1>1, <1>7, <2>3, <2>4, <2>5, Zenon DEF q
<1>9. CASE Outcome(st, b).kind = "Duplicate"
  <2>1. /\ b.scope \in DOMAIN st.applied /\ st.applied[b.scope].command_id = b.command_id
        /\ Outcome(st, b) = Duplicate(st.applied[b.scope].answer)
    BY <1>9, Zenon DEF Outcome, Rejected, PreconditionFailed, Applied
  <2>2. Outcome(st, b).answer = st.applied[b.scope].answer
    BY <2>1 DEF Duplicate
  <2>3. new.db = st.db
    BY <1>1, <1>9, Zenon DEF ApplyBatch
  <2>4. /\ IdemKey(b.scope) \in DOMAIN st.db
        /\ st.db[IdemKey(b.scope)] = st.applied[b.scope].answer
        /\ st.applied[b.scope].answer.command_id = st.applied[b.scope].command_id
    BY <1>2, <2>1, Zenon DEF Table
  <2> QED  BY <1>1, <1>4, <1>7, <2>1, <2>2, <2>3, <2>4, Zenon DEF q
<1> QED  BY <1>1, <1>8, <1>9, Zenon

(* The events after a snapshot are counted by their numbers. *)
Tails ==
    \A i : \A n, v \in Nat :
        Cardinality({EventKey(i, s) : s \in n + 1 .. v}) = IF n < v THEN v - n ELSE 0

(* What a load accepts is the stream up to the version it saw: had a batch    *)
(* been applied between the reads, the count would be another.                *)
LEMMA ReplayIsPrefix ==
    ASSUME Tails, Replicated, States, Calls, NEW c \in Call, Live(call[c]),
           call[c].snapshot + Cardinality(TailEvents(c)) = call[c].version
    PROVE  Grounded(c, Replayed(c), Latest)
<1> DEFINE i == Q(c).instance
           db == Db(c)
           V == Version(db, i)
           n == call[c].snapshot
           w == call[c].version
           l == disk[call[c].node].last
           r == Replayed(c)
<1>1. /\ Rows(db) /\ V \in Nat /\ n \in Nat /\ w \in Nat
      /\ l \in 0..Len(log) /\ db = chain[l].db
  BY Reading, Zenon DEF Calls, Typed
<1>2. EventRows(db) /\ i \in Instance
  BY <1>1, Names, Zenon DEF Rows
<1>3. /\ r.pc = "decide" /\ r.version = w /\ r.snapshot = n
      /\ r.seen = {<<x[3], db[x]>> : x \in TailEvents(c)}
  BY LoadedIs DEF Replayed
<1>4. TailEvents(c) = {x \in DOMAIN db : x[1] = "events" /\ x[2] = i /\ x[3] > n}
  BY Zenon DEF TailEvents
<1>5. n + Cardinality(TailEvents(c)) = w
  BY Zenon
<1> HIDE DEF db, V, n, w, l, r, i
<1>6. TailEvents(c) = {EventKey(i, s) : s \in n + 1 .. V}
  <2>1. ASSUME NEW x \in TailEvents(c) PROVE \E s \in n + 1 .. V : x = EventKey(i, s)
    <3>1. x[2] = i /\ x[3] \in 1..V /\ x = EventKey(x[2], x[3]) /\ x[3] > n
      BY <1>2, <1>4, Zenon DEF EventRows, V
    <3> QED  BY <3>1, <1>1
  <2>2. ASSUME NEW s \in n + 1 .. V PROVE EventKey(i, s) \in TailEvents(c)
    <3>1. s \in 1..V /\ s > n
      BY <1>1
    <3>2. EventKey(i, s) \in DOMAIN db
      BY <3>1, <1>2, Zenon DEF EventRows, V
    <3> QED  BY <3>1, <3>2, <1>4, Keys
  <2> QED  BY <2>1, <2>2, Zenon
<1>7. n + 1 .. V = n + 1 .. w
  <2>1. Cardinality(TailEvents(c)) = IF n < V THEN V - n ELSE 0
    <3>1. Cardinality({EventKey(i, s) : s \in n + 1 .. V}) = IF n < V THEN V - n ELSE 0
      BY <1>1, Zenon DEF Tails
    <3> QED  BY <3>1, <1>6, Zenon
  <2> QED  BY <2>1, <1>1, <1>5
<1>8. r.seen = {<<s, db[EventKey(i, s)]>> : s \in n + 1 .. V}
  <2>1. {<<x[3], db[x]>> : x \in {EventKey(i, s) : s \in n + 1 .. V}}
          = {<<s, db[EventKey(i, s)]>> : s \in n + 1 .. V}
    BY Keys
  <2> QED  BY <1>3, <1>6, <2>1, Zenon
<1>9. \A s \in n + 1 .. V : EventKey(i, s) \in DOMAIN db
  BY <1>1, <1>2 DEF EventRows, V
<1>10. Grounded(c, r, db)
  BY <1>3, <1>7, <1>8, <1>9, Zenon DEF Grounded, i
<1>11. Later(db, Latest)
  BY <1>1, LatestHasIt, Zenon
<1> QED  BY <1>10, <1>11, LaterKeeps, Zenon DEF r

(* A call that moves on has been told, and works on, what is in the log. *)
LEMMA MovesTruthfully ==
    ASSUME Tails, Replicated, States, Calls, NEW c \in Call, Moves(c),
           Grounded(c, call[c], Latest)
    PROVE  Receipted(c, call'[c], Latest) /\ Grounded(c, call'[c], Latest)
<1>1. Live(call[c]) /\ Went(call[c], call'[c]) /\ Told(c) /\ Replays(c)
  BY Zenon DEF Moves, Went
<1>2. Later(Db(c), Latest)
  BY <1>1, Reading, LatestHasIt, Zenon
<1>3. Receipted(c, call'[c], Latest)
  <2>1. AppendOnly(IdemKey(Q(c).scope))
    BY Keys, CommitConstants DEF AppendOnly
  <2> QED  BY <1>1, <1>2, <2>1, Zenon DEF Receipted, Told, RowPresent, Later
<1>4. CASE call'[c].pc = "decide"
  BY <1>1, <1>3, <1>4, ReplayIsPrefix, Zenon DEF Replays
<1>5. CASE call'[c].pc \in {"prepare", "build", "waiting"}
  <2>1. /\ call'[c].version = call[c].version /\ call'[c].snapshot = call[c].snapshot
        /\ call'[c].seen = call[c].seen /\ call[c].pc \in {"decide", "prepare"}
    BY <1>1, <1>5, Zenon DEF Went, Same
  <2> QED  BY <1>3, <2>1, Zenon DEF Grounded
<1>6. CASE call'[c].pc \notin {"decide", "prepare", "build", "waiting"}
  BY <1>3, <1>6, Zenon DEF Grounded
<1> QED  BY <1>3, <1>4, <1>5, <1>6, Zenon
-----------------------------------------------------------------------------
(* What holds of the calls between two steps. *)
CallsInv == Calls /\ Accounted /\ Truthful

(* A step of call c alone keeps it if call c is left right. *)
LEMMA OnlyKeeps ==
    ASSUME CallsInv, NEW c \in Call, Only(c, call'[c]), UNCHANGED storeVars,
           \A p \in flight' : p \in flight \/ p.call = c, Distinct',
           Typed(call'[c]), Accountable(c, call[c])',
           Receipted(c, call'[c], Latest), Grounded(c, call'[c], Latest)
    PROVE  CallsInv'
<1>1. UNCHANGED <<log, verdict, chain, up>> /\ Latest' = Latest
  BY Zenon DEF storeVars, Latest
<1>2. \A d \in Call : d = c \/ call'[d] = call[d]
  BY Zenon DEF Only
<1>3. Calls'
  <2>1. \A d \in Call : Typed(call'[d])
    BY <1>2, Zenon DEF CallsInv, Calls
  <2>2. DOMAIN call' = Call
    BY Zenon DEF Only
  <2> QED  BY <1>1, <2>1, <2>2, Zenon DEF Calls, Typed, Live
<1>4. \A d \in Call : Accountable(d, call[d])'
  <2> SUFFICES ASSUME NEW d \in Call, d # c PROVE Accountable(d, call[d])'
    BY Zenon
  <2>1. Accountable(d, call[d]) /\ call'[d] = call[d]
    BY <1>2, Zenon DEF CallsInv, Accounted
  <2> QED  BY <1>1, <2>1, AccountStands, Zenon
<1>5. \A d \in Call : Receipted(d, call'[d], Latest) /\ Grounded(d, call'[d], Latest)
  BY <1>2, Zenon DEF CallsInv, Truthful
<1>6. Truthful'
  BY <1>1, <1>5, Zenon DEF Truthful, Receipted, Grounded
<1> QED  BY <1>3, <1>4, <1>6, Zenon DEF CallsInv, Accounted

(* The distinct stay distinct while nothing is proposed or committed. *)
LEMMA DistinctStands ==
    ASSUME Distinct, flight' \subseteq flight, log' = log
    PROVE  Distinct'
  BY Zenon DEF Distinct

LEMMA MovesKeep ==
    ASSUME Tails, Replicated, States, CallsInv, NEW c \in Call, Moves(c),
           UNCHANGED <<storeVars, flight>>
    PROVE  CallsInv'
<1>1. Calls /\ Accountable(c, call[c]) /\ Distinct /\ Grounded(c, call[c], Latest)
  BY Zenon DEF CallsInv, Accounted, Truthful
<1>2. Only(c, call'[c]) /\ Went(call[c], call'[c]) /\ flight' = flight /\ UNCHANGED <<log, verdict>>
  BY Zenon DEF Moves, storeVars
<1>3. Receipted(c, call'[c], Latest) /\ Grounded(c, call'[c], Latest)
  BY <1>1, MovesTruthfully, Zenon
<1>4. Accountable(c, call[c])'
  BY <1>1, <1>2, AccountMoves, Zenon
<1>5. Distinct'
  BY <1>1, <1>2, DistinctStands, Zenon
<1>6. Typed(call'[c])
  <2> DEFINE o == call[c]
             r == call'[c]
  <2>1. Typed(o) /\ Went(o, r)
    BY <1>1, <1>2, Zenon DEF Calls
  <2> HIDE DEF o, r
  <2>2. Typed(r)
    BY <2>1, Zenon DEF Typed, Went, Same, Live
  <2> QED  BY <2>2, Zenon DEF r
<1> QED  BY <1>2, <1>3, <1>4, <1>5, <1>6, OnlyKeeps, Zenon

LEMMA BeginKeeps ==
    ASSUME CallsInv, NEW c \in Call, NEW n, Begin(c, n)
    PROVE  CallsInv'
<1>1. Calls /\ Accountable(c, call[c]) /\ Distinct
  BY Zenon DEF CallsInv, Accounted
<1>2. /\ Only(c, call'[c]) /\ call[c].pc = "idle" /\ call'[c].pc = "lookup"
      /\ call'[c].node \in up /\ call'[c].hop = 0 /\ call'[c].attempt = 0
      /\ call'[c].version = 0 /\ call'[c].snapshot = 0
  BY <1>1, BeginIs, Zenon
<1>3. UNCHANGED storeVars /\ flight' = flight /\ UNCHANGED <<log, verdict>>
  BY Zenon DEF Begin, storeVars
<1>4. Accountable(c, call[c])' /\ Distinct'
  BY <1>1, <1>2, <1>3, AccountBegins, DistinctStands, Zenon
<1>5. Typed(call'[c])
  BY <1>2, CommitConstants DEF Typed
<1>6. Receipted(c, call'[c], Latest) /\ Grounded(c, call'[c], Latest)
  BY <1>2, Zenon DEF Receipted, Grounded
<1> QED  BY <1>2, <1>3, <1>4, <1>5, <1>6, OnlyKeeps, Zenon

LEMMA BuildKeeps ==
    ASSUME Replicated, States, Proposals, CallsInv, NEW c \in Call, Build(c)
    PROVE  CallsInv' /\ Proposals'
<1>1. Calls /\ Accounted /\ Grounded(c, call[c], Latest)
  BY Zenon DEF CallsInv, Truthful
<1>2. /\ Only(c, call'[c]) /\ call[c].pc = "build" /\ call'[c].pc = "waiting"
      /\ Same(call[c], call'[c]) /\ flight' = flight \cup {Proposal(c)}
      /\ Proposal(c).call = c /\ Proposal(c).batch.digest = Current(c, call[c])
      /\ Made(c, Proposal(c).batch)
  BY <1>1, BuildIs, Zenon
<1>3. UNCHANGED storeVars /\ UNCHANGED <<log, verdict>>
  BY Zenon DEF Build, storeVars
<1>4. Accountable(c, call[c])' /\ Distinct'
  BY <1>1, <1>2, <1>3, AccountBuilds, Zenon
<1>5. Typed(call'[c])
  <2> DEFINE o == call[c]
             r == call'[c]
  <2>1. Typed(o) /\ o.pc = "build" /\ r.pc = "waiting" /\ Same(o, r)
    BY <1>1, <1>2, Zenon DEF Calls
  <2> HIDE DEF o, r
  <2>2. Typed(r)
    BY <2>1, Zenon DEF Typed, Same, Live
  <2> QED  BY <2>2, Zenon DEF r
<1>6. Receipted(c, call'[c], Latest) /\ Grounded(c, call'[c], Latest)
  BY <1>1, <1>2, Zenon DEF Receipted, Grounded, Same
<1>7. CallsInv'
  BY <1>2, <1>3, <1>4, <1>5, <1>6, OnlyKeeps, Zenon
<1>8. Proposals'
  <2>1. /\ \A p \in flight' : p.call \in Call /\ Made(p.call, p.batch)
        /\ \A i \in DOMAIN log' :
              /\ log'[i].kind = "batch"
              /\ log'[i].batch.digest[1] \in Call
              /\ Made(log'[i].batch.digest[1], log'[i].batch)
    BY <1>2, <1>3, Zenon DEF Proposals
  <2> QED  BY <2>1, Zenon DEF Proposals, Made
<1> QED  BY <1>7, <1>8, Zenon

LEMMA ExpireKeeps ==
    ASSUME CallsInv, NEW c \in Call, Expire(c)
    PROVE  CallsInv'
<1>1. Calls /\ Accountable(c, call[c]) /\ Distinct
  BY Zenon DEF CallsInv, Accounted
<1>2. Only(c, call'[c]) /\ call'[c].pc = "done" /\ call'[c].kind = "Unavailable"
  BY <1>1, Giving, Zenon DEF Expire, Calls
<1>3. UNCHANGED storeVars /\ flight' = flight /\ UNCHANGED <<log, verdict>>
  BY Zenon DEF Expire, storeVars
<1>4. Accountable(c, call[c])' /\ Distinct'
  BY <1>1, <1>2, <1>3, AccountEnds, DistinctStands, Zenon
<1>5. Typed(call'[c])
  BY <1>2, Zenon DEF Typed, Live
<1>6. Receipted(c, call'[c], Latest) /\ Grounded(c, call'[c], Latest)
  BY <1>2, Zenon DEF Receipted, Grounded
<1> QED  BY <1>2, <1>3, <1>4, <1>5, <1>6, OnlyKeeps, Zenon

LEMMA AnswerKeeps ==
    ASSUME Boundaries, Replicated, States, Proposals, CallsInv, NEW c \in Call, Answer(c)
    PROVE  CallsInv'
<1>1. Calls /\ Accounted /\ Accountable(c, call[c]) /\ Distinct /\ Grounded(c, call[c], Latest)
  BY Zenon DEF CallsInv, Accounted, Truthful
<1>2. /\ Only(c, call'[c]) /\ call[c].pc = "waiting"
      /\ \E i \in DOMAIN log : Answered(c, i)
  BY <1>1, AnswerIs, Zenon
<1>3. PICK i \in DOMAIN log : Answered(c, i)
  BY <1>2, Zenon
<1>4. UNCHANGED storeVars /\ flight' = flight /\ UNCHANGED <<log, verdict>>
  BY Zenon DEF Answer, storeVars
<1>5. Distinct'
  BY <1>1, <1>4, DistinctStands, Zenon
<1>6. CASE verdict[i].kind \in {"Applied", "Duplicate"}
  <2>1. call'[c].pc = "done" /\ call'[c].kind \in {"Committed", "Duplicate"} /\ call'[c].result = verdict[i].answer
    BY <1>3, <1>6, Zenon DEF Answered
  <2>2. Accountable(c, call[c])'
    BY <1>1, <1>4, <2>1, AccountEnds, Zenon
  <2>3. Typed(call'[c])
    BY <2>1, Zenon DEF Typed, Live
  <2>4. log[i].batch.digest[1] = c
    BY <1>3 DEF Answered, Current
  <2>5. Receipted(c, call'[c], Latest) /\ Grounded(c, call'[c], Latest)
    BY <1>6, <2>1, <2>4, AnswerIsReceipt, Zenon DEF Receipted, Grounded
  <2> QED  BY <1>2, <1>4, <1>5, <2>2, <2>3, <2>5, OnlyKeeps, Zenon
<1>7. CASE verdict[i].kind \notin {"Applied", "Duplicate"}
  <2> DEFINE o == call[c]
             r == call'[c]
  <2>1. /\ r.node = o.node /\ r.hop = o.hop /\ r.version = o.version /\ r.snapshot = o.snapshot
        /\ r.seen = o.seen /\ r.events = o.events
        /\ \/ r.pc = "prepare" /\ r.attempt = o.attempt + 1 /\ o.attempt + 1 < MaxAttempts
           \/ r.pc = "result" /\ r.attempt = o.attempt
    BY <1>3, <1>7, Zenon DEF Answered, Same
  <2>2. log[i].batch.digest = Current(c, o) /\ verdict[i].kind # "Applied"
    BY <1>3, <1>7, Zenon DEF Answered
  <2>3. Accountable(c, call[c])'
    BY <1>1, <1>2, <1>4, <2>1, <2>2, AccountResolves, Zenon
  <2>4. Typed(o)
    BY <1>1, Zenon DEF Calls
  <2>5. o.pc = "waiting"
    BY <1>2, Zenon
  <2>6. Grounded(c, o, Latest)
    BY <1>1, Zenon
  <2> HIDE DEF o, r
  <2>7. Typed(r)
    BY <2>1, <2>4, <2>5, CommitConstants DEF Typed, Live
  <2>8. Receipted(c, r, Latest) /\ Grounded(c, r, Latest)
    BY <2>1, <2>5, <2>6, Zenon DEF Receipted, Grounded
  <2> QED  BY <1>2, <1>4, <1>5, <2>3, <2>7, <2>8, OnlyKeeps, Zenon DEF r
<1> QED  BY <1>6, <1>7, Zenon

(* Proposals are lost, or none is made. *)
LEMMA ProposalsStay ==
    ASSUME Proposals, flight' \subseteq flight, log' = log
    PROVE  Proposals'
<1>1. /\ \A p \in flight' : p.call \in Call /\ Made(p.call, p.batch)
      /\ \A i \in DOMAIN log' :
            /\ log'[i].kind = "batch"
            /\ log'[i].batch.digest[1] \in Call
            /\ Made(log'[i].batch.digest[1], log'[i].batch)
  BY Zenon DEF Proposals
<1> QED  BY <1>1, Zenon DEF Proposals, Made

(* The steps of the calls keep what holds of them. *)
LEMMA CallStepKeeps ==
    ASSUME Boundaries, Tails, Replicated, States, Proposals, CallsInv, NEW c \in Call, CallStep(c)
    PROVE  CallsInv' /\ Proposals'
<1>1. Calls
  BY Zenon DEF CallsInv
<1>2. UNCHANGED storeVars => log' = log
  BY Zenon DEF storeVars
<1>3. ASSUME UNCHANGED storeVars, flight' = flight PROVE Proposals'
  BY <1>2, <1>3, ProposalsStay, Zenon
<1>4. ASSUME Moves(c), UNCHANGED storeVars, flight' = flight PROVE CallsInv' /\ Proposals'
  BY <1>3, <1>4, MovesKeep, Zenon
<1>5. CASE Lookup(c) \/ Prepare(c) \/ ResolveResult(c)
  BY <1>1, <1>4, <1>5, LookupMoves, Zenon DEF Lookup, Prepare, ResolveResult
<1>6. CASE Refuse(c) \/ ResolveVersion(c)
  BY <1>1, <1>4, <1>6, RefuseMoves, Zenon DEF Refuse, ResolveVersion
<1>7. CASE LoadVersion(c) \/ LoadSnapshot(c) \/ LoadEvents(c)
  BY <1>1, <1>4, <1>7, LoadMoves, Zenon DEF LoadVersion, LoadSnapshot, LoadEvents
<1>8. CASE \E k \in 1..MaxEvents : Decide(c, k)
  BY <1>1, <1>4, <1>8, DecideMoves, Zenon DEF Decide
<1>9. CASE \E n \in Node : Begin(c, n)
  BY <1>3, <1>9, BeginKeeps, Zenon DEF Begin
<1>10. CASE Build(c)
  BY <1>10, BuildKeeps, Zenon
<1>11. CASE Expire(c)
  BY <1>3, <1>11, ExpireKeeps, Zenon DEF Expire
<1>12. CASE Answer(c)
  BY <1>3, <1>12, AnswerKeeps, Zenon DEF Answer
<1> QED  BY <1>5, <1>6, <1>7, <1>8, <1>9, <1>10, <1>11, <1>12, Zenon DEF CallStep

(* A committed proposal. *)
LEMMA CommitProposes ==
    ASSUME Replicated, Proposals, NEW p \in flight, Grows(p.batch),
           flight' = flight \ {p}
    PROVE  Proposals'
<1>2. p.call \in Call /\ Made(p.call, p.batch) /\ p.batch.digest[1] = p.call
  BY MadeIs, Zenon DEF Proposals
<1>3. \A i \in DOMAIN log' : \/ i \in DOMAIN log /\ log'[i] = log[i]
                             \/ log'[i].kind = "batch" /\ log'[i].batch = p.batch
  BY ShapeOf DEF Grows, Shaped
<1>4. /\ \A x \in flight' : x.call \in Call /\ Made(x.call, x.batch)
      /\ \A i \in DOMAIN log' :
            /\ log'[i].kind = "batch"
            /\ log'[i].batch.digest[1] \in Call
            /\ Made(log'[i].batch.digest[1], log'[i].batch)
  BY <1>2, <1>3, Zenon DEF Proposals
<1> QED  BY <1>4, Zenon DEF Proposals, Made

LEMMA CommitKeeps ==
    ASSUME Replicated, Replicated', Proposals, CallsInv, NEW p \in flight,
           Grows(p.batch), flight' = flight \ {p}, UNCHANGED call
    PROVE  CallsInv'
<1>1. Calls /\ Accounted /\ Truthful
  BY Zenon DEF CallsInv
<1>2. Accounted'
  BY <1>1, AccountCommits, Zenon
<1>3. Calls'
  BY <1>1, Zenon DEF Calls, Typed, Live, Grows
<1>4. Truthful'
  <2>1. Later(Latest, Latest')
    BY <1>1, LatestGrows, Zenon
  <2>2. \A c \in Call : Receipted(c, call[c], Latest') /\ Grounded(c, call[c], Latest')
    BY <1>1, <2>1, LaterKeeps, Zenon DEF Truthful
  <2> QED  BY <1>1, <2>2, Zenon DEF Truthful, Receipted, Grounded
<1> QED  BY <1>2, <1>3, <1>4, Zenon DEF CallsInv

(* A lost proposal. *)
LEMMA LoseKeeps ==
    ASSUME Proposals, CallsInv, NEW p \in flight, Lose(p)
    PROVE  CallsInv' /\ Proposals'
<1> DEFINE c == p.call
<1>1. Calls /\ Accounted /\ Distinct /\ Truthful /\ c \in Call
  BY Zenon DEF CallsInv, Accounted, Proposals
<1>2. UNCHANGED storeVars /\ UNCHANGED <<log, verdict, chain, up>> /\ flight' = flight \ {p}
  BY Zenon DEF Lose, storeVars
<1>3. Proposals' /\ Distinct'
  BY <1>1, <1>2, ProposalsStay, DistinctStands, Zenon
<1>4. CASE ~Awaited(p)
  <2>1. UNCHANGED call
    BY <1>4, Zenon DEF Lose
  <2>2. \A d \in Call : Accountable(d, call[d])'
    BY <1>1, <1>2, <2>1, AccountStands, Zenon DEF Accounted
  <2>3. Calls' /\ Truthful'
    BY <1>1, <1>2, <2>1 DEF Calls, Typed, Live, Truthful, Receipted, Grounded, Latest
  <2> QED  BY <1>3, <2>2, <2>3, Zenon DEF CallsInv, Accounted
<1>5. CASE Awaited(p) /\ Become(c, Failed("NotLeader"))
  <2>1. Only(c, call'[c]) /\ call'[c].pc = "done" /\ call'[c].kind = "NotLeader"
    BY <1>1, <1>5, Giving, Zenon DEF Calls
  <2>2. Accountable(c, call[c])'
    BY <1>1, <1>2, <1>5, <2>1, AccountLoses, Zenon
  <2>3. Typed(call'[c]) /\ Receipted(c, call'[c], Latest) /\ Grounded(c, call'[c], Latest)
    BY <2>1, Zenon DEF Typed, Live, Receipted, Grounded
  <2> QED  BY <1>1, <1>2, <1>3, <2>1, <2>2, <2>3, OnlyKeeps, Zenon
<1>6. ASSUME Awaited(p), call[c].hop = 0, NEW m \in up, Become(c, Running(m, 1))
      PROVE  CallsInv'
  <2> DEFINE r == Running(m, 1)
  <2>1. Only(c, r) /\ call'[c] = r
    BY <1>1, <1>6, Becoming, Zenon DEF Calls, Only
  <2> HIDE DEF r
  <2>2. /\ r.pc = "lookup" /\ r.node = m /\ r.hop = 1 /\ r.attempt = 0
        /\ r.version = 0 /\ r.snapshot = 0
    BY HandlerIs DEF Running, r
  <2>3. Accountable(c, call[c])'
    BY <1>1, <1>2, <1>6, <2>1, <2>2, AccountLoses, Zenon
  <2>4. Typed(call'[c]) /\ Receipted(c, call'[c], Latest) /\ Grounded(c, call'[c], Latest)
    BY <2>1, <2>2, CommitConstants DEF Typed, Receipted, Grounded
  <2> QED  BY <1>1, <1>2, <1>3, <2>1, <2>3, <2>4, OnlyKeeps, Zenon
<1> QED  BY <1>3, <1>4, <1>5, <1>6, Zenon DEF Lose

(* What the nodes do: most leave the calls alone ... *)
LEMMA NodeKeeps ==
    ASSUME Proposals, CallsInv, UNCHANGED <<log, verdict, chain, flight, call>>, up \subseteq up'
    PROVE  CallsInv' /\ Proposals'
<1>1. Calls /\ Accounted /\ Distinct /\ Truthful
  BY Zenon DEF CallsInv, Accounted
<1>2. Proposals' /\ Distinct'
  BY <1>1, ProposalsStay, DistinctStands, Zenon
<1>3. \A d \in Call : Accountable(d, call[d])'
  BY <1>1, AccountStands, Zenon DEF Accounted
<1>4. Calls' /\ Truthful'
  BY <1>1 DEF Calls, Typed, Live, Truthful, Receipted, Grounded, Latest
<1> QED  BY <1>2, <1>3, <1>4, Zenon DEF CallsInv, Accounted

(* ... and a crash takes the calls of its node along. *)
CrashEnds(n) ==
    call' = [c \in Call |-> IF Active(c) /\ call[c].node = n
                            THEN Failed("ConnectionLost") ELSE call[c]]

LEMMA CrashKeeps ==
    ASSUME Proposals, CallsInv, NEW n \in Node, UNCHANGED <<log, verdict, chain, flight>>,
           up' = up \ {n}, CrashEnds(n)
    PROVE  CallsInv' /\ Proposals'
<1>1. Calls /\ Accounted /\ Distinct /\ Truthful
  BY Zenon DEF CallsInv, Accounted
<1>2. UNCHANGED <<log, verdict, chain, flight>>
  BY Zenon
<1>3. Proposals' /\ Distinct'
  BY <1>1, <1>2, ProposalsStay, DistinctStands, Zenon
<1>4. /\ DOMAIN call' = Call /\ up' = up \ {n}
      /\ \A c \in Call : \/ Live(call[c]) /\ call'[c] = Failed("ConnectionLost")
                         \/ call'[c] = call[c] /\ (Live(call[c]) => call[c].node # n)
  BY Zenon DEF CrashEnds, Active, Live
<1>5. ASSUME NEW c \in Call
      PROVE  /\ Typed(call[c])' /\ Accountable(c, call[c])'
             /\ Receipted(c, call'[c], Latest) /\ Grounded(c, call'[c], Latest)
  <2>1. /\ Typed(call[c]) /\ Accountable(c, call[c])
        /\ Receipted(c, call[c], Latest) /\ Grounded(c, call[c], Latest)
    BY <1>1, Zenon DEF Calls, Accounted, Truthful
  <2>2. CASE call'[c] = Failed("ConnectionLost")
    <3>1. call'[c].pc = "done" /\ call'[c].kind = "ConnectionLost"
      BY <2>2, ReturnedIs DEF Failed
    <3>2. Accountable(c, call[c])'
      BY <1>2, <2>1, <3>1, AccountEnds, Zenon
    <3> QED  BY <3>1, <3>2, Zenon DEF Typed, Live, Receipted, Grounded
  <2>3. CASE call'[c] = call[c] /\ (Live(call[c]) => call[c].node # n)
    <3>1. Accountable(c, call[c])'
      BY <1>2, <2>1, <2>3, AccountStands, Zenon
    <3>2. Typed(call[c])'
      BY <1>4, <2>1, <2>3, Zenon DEF Typed, Live
    <3> QED  BY <2>1, <2>3, <3>1, <3>2, Zenon
  <2> QED  BY <1>4, <2>2, <2>3, Zenon
<1>6. Calls'
  BY <1>4, <1>5, Zenon DEF Calls
<1>7. Truthful'
  BY <1>2, <1>5, Zenon DEF Truthful, Receipted, Grounded, Latest
<1> QED  BY <1>3, <1>5, <1>6, <1>7, Zenon DEF CallsInv, Accounted
-----------------------------------------------------------------------------
(* Admission: finitely many permits, never more than the limit. *)
HeldAt(n)   == {p \in held : p.node = n}
Building(n) == {c \in Call : call[c].pc = "build" /\ call[c].node = n}
Begun       == {c \in Call : call[c].pc # "idle"}

Admitted ==
    /\ IsFiniteSet(held) /\ IsFiniteSet(Begun)
    /\ \A p \in held : p.node \in up
    /\ \A n \in Node : Permits(n) <= MaxInflight

(* What is used about finite sets. *)
Counting ==
    /\ \A S : IsFiniteSet(S) => Cardinality(S) \in Nat
    /\ \A S, x : IsFiniteSet(S) =>
          IsFiniteSet(S \cup {x}) /\ Cardinality(S \cup {x}) <= Cardinality(S) + 1
    /\ \A S, x : IsFiniteSet(S) /\ x \in S => Cardinality(S \ {x}) = Cardinality(S) - 1
    /\ \A S, T : IsFiniteSet(S) /\ T \subseteq S =>
          IsFiniteSet(T) /\ Cardinality(T) <= Cardinality(S)

LEMMA PermitsCount ==
    ASSUME Counting, Admitted, NEW n \in Node
    PROVE  /\ IsFiniteSet(HeldAt(n)) /\ IsFiniteSet(Building(n))
           /\ Cardinality(HeldAt(n)) \in Nat /\ Cardinality(Building(n)) \in Nat
           /\ Permits(n) = Cardinality(HeldAt(n)) + Cardinality(Building(n))
           /\ Cardinality(HeldAt(n)) + Cardinality(Building(n)) <= MaxInflight
<1>1. HeldAt(n) \subseteq held /\ Building(n) \subseteq Begun
  BY Zenon DEF HeldAt, Building, Begun
<1>2. IsFiniteSet(HeldAt(n)) /\ IsFiniteSet(Building(n))
  BY <1>1, Zenon DEF Counting, Admitted
<1>3. Cardinality(HeldAt(n)) \in Nat /\ Cardinality(Building(n)) \in Nat
  BY <1>2, Zenon DEF Counting
<1>4. Permits(n) = Cardinality(HeldAt(n)) + Cardinality(Building(n))
  BY Zenon DEF Permits, HeldAt, Building
<1> QED  BY <1>2, <1>3, <1>4, Zenon DEF Admitted

(* The limit holds again if at every node it does for the new counts. *)
LEMMA AdmittedBy ==
    ASSUME IsFiniteSet(held'), IsFiniteSet(Begun'), \A p \in held' : p.node \in up',
           \A n \in Node : Cardinality(HeldAt(n)') + Cardinality(Building(n)') <= MaxInflight
    PROVE  Admitted'
  BY Zenon DEF Admitted, Permits, HeldAt, Building, Begun

(* Permits are given back. *)
LEMMA Releasing ==
    ASSUME Counting, Admitted, held' \subseteq held, \A p \in held' : p.node \in up',
           NEW b, Begun' \subseteq Begun \cup {b},
           \A n \in Node : Building(n)' \subseteq Building(n)
    PROVE  Admitted'
<1>1. IsFiniteSet(held') /\ IsFiniteSet(Begun')
  <2>1. IsFiniteSet(held) /\ IsFiniteSet(Begun \cup {b})
    BY Zenon DEF Admitted, Counting
  <2> QED  BY <2>1, Zenon DEF Counting
<1>2. ASSUME NEW n \in Node
      PROVE  Cardinality(HeldAt(n)') + Cardinality(Building(n)') <= MaxInflight
  <2>1. HeldAt(n)' \subseteq HeldAt(n) /\ Building(n)' \subseteq Building(n)
    BY Zenon DEF HeldAt
  <2> DEFINE H == HeldAt(n)
             B == Building(n)
             I == HeldAt(n)'
             C == Building(n)'
  <2>2. /\ IsFiniteSet(H) /\ IsFiniteSet(B) /\ Cardinality(H) \in Nat /\ Cardinality(B) \in Nat
        /\ Cardinality(H) + Cardinality(B) <= MaxInflight
    BY PermitsCount, Zenon
  <2>3. I \subseteq H /\ C \subseteq B
    BY <2>1, Zenon
  <2> HIDE DEF H, B, I, C
  <2>4. /\ IsFiniteSet(I) /\ IsFiniteSet(C)
        /\ Cardinality(I) <= Cardinality(H) /\ Cardinality(C) <= Cardinality(B)
    BY <2>2, <2>3, Zenon DEF Counting
  <2>5. Cardinality(I) \in Nat /\ Cardinality(C) \in Nat
    BY <2>4, Zenon DEF Counting
  <2>6. Cardinality(I) + Cardinality(C) <= MaxInflight
    BY <2>2, <2>4, <2>5, CommitConstants
  <2> QED  BY <2>6, Zenon DEF I, C
<1> QED  BY <1>1, <1>2, AdmittedBy, Zenon

(* A permit is taken where one is free. *)
LEMMA Granting ==
    ASSUME Counting, Admitted, NEW c \in Call, Only(c, call'[c]), held' = held, up' = up,
           call[c].pc # "idle", NEW m, Permits(m) < MaxInflight,
           call'[c].pc = "build" => call'[c].node = m
    PROVE  Admitted'
<1>1. Begun' \subseteq Begun
  BY Zenon DEF Begun, Only
<1>2. IsFiniteSet(held') /\ IsFiniteSet(Begun')
  BY <1>1, Zenon DEF Admitted, Counting
<1>3. ASSUME NEW n \in Node
      PROVE  Cardinality(HeldAt(n)') + Cardinality(Building(n)') <= MaxInflight
  <2> DEFINE H == HeldAt(n)
             B == Building(n)
             C == Building(n)'
  <2>1. HeldAt(n)' = H
    BY Zenon DEF HeldAt
  <2>2. C \subseteq B \/ (n = m /\ C \subseteq B \cup {c})
    BY Zenon DEF Building, Only
  <2>3. /\ IsFiniteSet(H) /\ IsFiniteSet(B) /\ Cardinality(H) \in Nat /\ Cardinality(B) \in Nat
        /\ Permits(n) = Cardinality(H) + Cardinality(B)
        /\ Cardinality(H) + Cardinality(B) <= MaxInflight
    BY PermitsCount, Zenon
  <2> HIDE DEF H, B, C
  <2>4. CASE C \subseteq B
    <3>1. Cardinality(C) <= Cardinality(B) /\ IsFiniteSet(C)
      BY <2>3, <2>4, Zenon DEF Counting
    <3>2. Cardinality(C) \in Nat
      BY <3>1, Zenon DEF Counting
    <3>3. Cardinality(H) + Cardinality(C) <= MaxInflight
      BY <2>3, <3>1, <3>2, CommitConstants
    <3> QED  BY <2>1, <3>3, Zenon DEF C
  <2>5. CASE n = m /\ C \subseteq B \cup {c}
    <3>1. IsFiniteSet(B \cup {c}) /\ Cardinality(B \cup {c}) <= Cardinality(B) + 1
      BY <2>3, Zenon DEF Counting
    <3>2. Cardinality(C) <= Cardinality(B \cup {c}) /\ IsFiniteSet(C)
      BY <2>5, <3>1, Zenon DEF Counting
    <3>3. Cardinality(C) \in Nat /\ Cardinality(B \cup {c}) \in Nat
      BY <3>1, <3>2, Zenon DEF Counting
    <3>4. Cardinality(H) + Cardinality(B) < MaxInflight
      BY <2>3, <2>5, Zenon
    <3>5. Cardinality(H) + Cardinality(C) <= MaxInflight
      BY <2>3, <3>1, <3>2, <3>3, <3>4, CommitConstants
    <3> QED  BY <2>1, <3>5 DEF C
  <2> QED  BY <2>2, <2>4, <2>5, Zenon
<1>4. \A p \in held' : p.node \in up'
  BY Zenon DEF Admitted
<1> QED  BY <1>2, <1>3, <1>4, AdmittedBy, Zenon

(* The permit of a batch that was built goes over to its proposal. *)
LEMMA Handing ==
    ASSUME Counting, Admitted, NEW c \in Call, Only(c, call'[c]), up' = up,
           NEW p, held' = held \cup {p}, call[c].pc = "build", call'[c].pc = "waiting",
           p.node = call[c].node, call[c].node \in up
    PROVE  Admitted'
<1>1. Begun' \subseteq Begun
  BY Zenon DEF Begun, Only
<1>2. IsFiniteSet(held') /\ IsFiniteSet(Begun')
  <2>1. IsFiniteSet(held \cup {p}) /\ IsFiniteSet(Begun)
    BY Zenon DEF Admitted, Counting
  <2> QED  BY <1>1, <2>1, Zenon DEF Counting
<1>3. ASSUME NEW n \in Node
      PROVE  Cardinality(HeldAt(n)') + Cardinality(Building(n)') <= MaxInflight
  <2> DEFINE H == HeldAt(n)
             B == Building(n)
             I == HeldAt(n)'
             C == Building(n)'
  <2>1. \/ I = H /\ C = B
        \/ I = H \cup {p} /\ C = B \ {c} /\ c \in B
    <3>1. CASE p.node = n
      <4>1. I = H \cup {p}
        BY <3>1, Zenon DEF HeldAt
      <4>2. C = B \ {c} /\ c \in B
        BY <3>1, Zenon DEF Building, Only
      <4> QED  BY <4>1, <4>2, Zenon
    <3>2. CASE p.node # n
      <4>1. I = H
        BY <3>2, Zenon DEF HeldAt
      <4>2. C = B
        BY <3>2, Zenon DEF Building, Only
      <4> QED  BY <4>1, <4>2, Zenon
    <3> QED  BY <3>1, <3>2, Zenon
  <2>2. /\ IsFiniteSet(H) /\ IsFiniteSet(B) /\ Cardinality(H) \in Nat /\ Cardinality(B) \in Nat
        /\ Cardinality(H) + Cardinality(B) <= MaxInflight
    BY PermitsCount, Zenon
  <2> HIDE DEF H, B, I, C
  <2>3. Cardinality(I) + Cardinality(C) <= MaxInflight
    <3>1. CASE I = H /\ C = B
      BY <2>2, <3>1, Zenon
    <3>2. CASE I = H \cup {p} /\ C = B \ {c} /\ c \in B
      <4>1. Cardinality(I) <= Cardinality(H) + 1 /\ IsFiniteSet(I) /\ Cardinality(C) = Cardinality(B) - 1
        BY <2>2, <3>2, Zenon DEF Counting
      <4>2. Cardinality(I) \in Nat
        BY <4>1, Zenon DEF Counting
      <4> QED  BY <2>2, <4>1, <4>2, CommitConstants
    <3> QED  BY <2>1, <3>1, <3>2, Zenon
  <2> QED  BY <2>3, Zenon DEF I, C
<1>4. \A x \in held' : x.node \in up'
  BY Zenon DEF Admitted
<1> QED  BY <1>2, <1>3, <1>4, AdmittedBy, Zenon

LEMMA CallAdmits ==
    ASSUME Counting, Admitted, Replicated, States, Calls, NEW c \in Call, CallStep(c)
    PROVE  Admitted'
<1>1. UNCHANGED storeVars /\ up' = up
  BY CallLeavesStore, Zenon DEF storeVars
<1>2. ASSUME Only(c, call'[c]), held' = held, call'[c].pc # "build"
      PROVE  Admitted'
  <2>1. \A p \in held' : p.node \in up'
    BY <1>1, <1>2, Zenon DEF Admitted
  <2>2. Begun' \subseteq Begun \cup {c} /\ \A n \in Node : Building(n)' \subseteq Building(n)
    BY <1>2, Zenon DEF Begun, Building, Only
  <2> QED  BY <1>2, <2>1, <2>2, Releasing, Zenon
<1>3. ASSUME Moves(c), held' = held, call[c].pc # "prepare"
      PROVE  Admitted'
  BY <1>2, <1>3, Zenon DEF Moves, Went
<1>4. CASE Prepare(c)
  <2>1. Moves(c) /\ held' = held /\ call[c].pc = "prepare"
    BY <1>4, LookupMoves, Zenon DEF Prepare
  <2>2. CASE Become(c, Failed("Unavailable"))
    BY <1>2, <2>1, <2>2, Giving, Zenon DEF Calls
  <2>3. CASE Permits(call[c].node) < MaxInflight
    <3>1. call'[c].pc = "build" => call'[c].node = call[c].node
      BY <2>1, Zenon DEF Moves, Went
    <3> QED  BY <1>1, <2>1, <2>3, <3>1, Granting, Zenon DEF Moves
  <2> QED  BY <1>4, <2>2, <2>3, Zenon DEF Prepare
<1>5. CASE Lookup(c) \/ ResolveResult(c)
  BY <1>3, <1>5, LookupMoves, Zenon DEF Lookup, ResolveResult
<1>6. CASE Refuse(c) \/ ResolveVersion(c)
  BY <1>3, <1>6, RefuseMoves, Zenon DEF Refuse, ResolveVersion
<1>7. CASE LoadVersion(c) \/ LoadSnapshot(c) \/ LoadEvents(c)
  BY <1>3, <1>7, LoadMoves, Zenon DEF LoadVersion, LoadSnapshot, LoadEvents
<1>8. CASE \E k \in 1..MaxEvents : Decide(c, k)
  BY <1>3, <1>8, DecideMoves, Zenon DEF Decide
<1>9. CASE \E n \in Node : Begin(c, n)
  BY <1>2, <1>9, BeginIs, Zenon DEF Begin
<1>10. CASE Build(c)
  <2>1. /\ Only(c, call'[c]) /\ call[c].pc = "build" /\ call'[c].pc = "waiting"
        /\ Proposal(c).node = call[c].node
    BY <1>10, BuildIs, Zenon
  <2>2. held' = held \cup {Proposal(c)}
    BY <1>10, Zenon DEF Build
  <2>3. call[c].node \in up
    BY <2>1, Zenon DEF Calls, Typed, Live
  <2> QED  BY <1>1, <2>1, <2>2, <2>3, Handing, Zenon
<1>11. CASE Expire(c)
  BY <1>2, <1>11, Giving, Zenon DEF Expire, Calls
<1>12. CASE Answer(c)
  <2>1. Only(c, call'[c]) /\ call'[c].pc # "build"
    BY <1>12, AnswerIs, Zenon DEF Answered
  <2> QED  BY <1>2, <1>12, <2>1, Zenon DEF Answer
<1> QED  BY <1>4, <1>5, <1>6, <1>7, <1>8, <1>9, <1>10, <1>11, <1>12, Zenon DEF CallStep

LEMMA LoseAdmits ==
    ASSUME Counting, Admitted, Calls, Proposals, NEW p \in flight, Lose(p)
    PROVE  Admitted'
<1>1. p.call \in Call /\ held' \subseteq held /\ up' = up
  BY Zenon DEF Proposals, Lose, storeVars
<1>2. \A x \in held' : x.node \in up'
  BY <1>1, Zenon DEF Admitted
<1>3. UNCHANGED call \/ (Only(p.call, call'[p.call]) /\ call'[p.call].pc # "build")
  <2>1. ASSUME NEW m, Become(p.call, Running(m, 1))
        PROVE  Only(p.call, call'[p.call]) /\ call'[p.call].pc # "build"
    <3> DEFINE r == Running(m, 1)
    <3>1. Only(p.call, r) /\ call'[p.call] = r
      BY <1>1, <2>1, Becoming, Zenon DEF Calls, Only
    <3> HIDE DEF r
    <3>2. r.pc = "lookup"
      BY HandlerIs DEF Running, r
    <3> QED  BY <3>1, <3>2, Zenon
  <2>2. ASSUME Become(p.call, Failed("NotLeader"))
        PROVE  Only(p.call, call'[p.call]) /\ call'[p.call].pc # "build"
    BY <1>1, <2>2, Giving, Zenon DEF Calls
  <2> QED  BY <2>1, <2>2, Zenon DEF Lose
<1>4. Begun' \subseteq Begun \cup {p.call} /\ \A n \in Node : Building(n)' \subseteq Building(n)
  BY <1>3, Zenon DEF Begun, Building, Only
<1> QED  BY <1>1, <1>2, <1>4, Releasing, Zenon

LEMMA NodeAdmits ==
    ASSUME Counting, Admitted, held' \subseteq held, UNCHANGED call, \A p \in held' : p.node \in up'
    PROVE  Admitted'
<1>1. PICK x : TRUE
  BY Zenon
<1>2. Begun' \subseteq Begun \cup {x} /\ \A m \in Node : Building(m)' \subseteq Building(m)
  BY Zenon DEF Begun, Building
<1> QED  BY <1>2, Releasing, Zenon

LEMMA CrashAdmits ==
    ASSUME Counting, Admitted, NEW n \in Node, held' = {p \in held : p.node # n},
           up' = up \ {n}, CrashEnds(n)
    PROVE  Admitted'
<1>1. \A p \in held' : p.node \in up'
  BY Zenon DEF Admitted
<1>2. \A c \in Call : call'[c] = call[c] \/ (Active(c) /\ call'[c] = Failed("ConnectionLost"))
  BY Zenon DEF CrashEnds
<1>3. Failed("ConnectionLost").pc = "done"
  BY ReturnedIs DEF Failed
<1>4. Begun' \subseteq Begun \cup {n} /\ \A m \in Node : Building(m)' \subseteq Building(m)
  BY <1>2, <1>3, Zenon DEF Begun, Building, Active
<1> QED  BY <1>1, <1>4, Releasing, Zenon
-----------------------------------------------------------------------------
(* What the invariant says of what clients are told. *)
Singletons == \A x : Cardinality({x}) = 1

(* No event is announced twice. *)
LEMMA AnnouncedOnce ==
    ASSUME NEW db, Rows(db), NEW o \in 1..OutboxTail(db), NEW p \in 1..OutboxTail(db),
           db[OutboxKey(o)].event_id = db[OutboxKey(p)].event_id
    PROVE  o = p
<1>1. PICK q \in Request : \E s \in 1..Version(db, q.instance) :
         db[OutboxKey(o)] = OutboxRow(q.instance, s, EventId(q.command_id, s))
  BY Zenon DEF Rows, Announced
<1>2. PICK s \in 1..Version(db, q.instance) :
         db[OutboxKey(o)] = OutboxRow(q.instance, s, EventId(q.command_id, s))
  BY <1>1, Zenon
<1>3. PICK r \in Request : \E z \in 1..Version(db, r.instance) :
         db[OutboxKey(p)] = OutboxRow(r.instance, z, EventId(r.command_id, z))
  BY Zenon DEF Rows, Announced
<1>4. PICK z \in 1..Version(db, r.instance) :
         db[OutboxKey(p)] = OutboxRow(r.instance, z, EventId(r.command_id, z))
  BY <1>3, Zenon
<1> DEFINE a == db[OutboxKey(o)]
           b == db[OutboxKey(p)]
<1>5. /\ a.instance = q.instance /\ a.sequence = s /\ a.event_id = <<q.command_id, s>>
      /\ b.instance = r.instance /\ b.sequence = z /\ b.event_id = <<r.command_id, z>>
  BY <1>2, <1>4 DEF OutboxRow, EventId
<1>6. q.command_id = r.command_id /\ s = z
  <2>1. <<q.command_id, s>> = <<r.command_id, z>>
    BY <1>5, Zenon
  <2> HIDE DEF a, b
  <2>2. <<q.command_id, s>>[1] = <<r.command_id, z>>[1] /\ <<q.command_id, s>>[2] = <<r.command_id, z>>[2]
    BY <2>1, Zenon
  <2> QED  BY <2>2, Zenon
<1>7. a.instance = b.instance /\ a.sequence = b.sequence /\ a.sequence \in Nat
  <2>1. Version(db, q.instance) \in Nat
    BY Names, Zenon DEF Rows, Numbers
  <2> QED  BY <1>2, <1>5, <1>6, <2>1, Names
<1> HIDE DEF a, b
<1>8. ~(o < p) /\ ~(p < o)
  <2>1. /\ o < p /\ a.instance = b.instance => a.sequence < b.sequence
        /\ p < o /\ b.instance = a.instance => b.sequence < a.sequence
    BY Zenon DEF Rows, Ordered, a, b
  <2> QED  BY <1>7, <2>1
<1>9. OutboxTail(db) \in Nat
  BY Zenon DEF Rows, Numbers
<1> QED  BY <1>8, <1>9

(* A well-formed database has dense streams and a dense outbox ... *)
LEMMA RowsAreDense ==
    ASSUME NEW db, Rows(db), NEW i \in Instance
    PROVE  /\ {x[3] : x \in {y \in DOMAIN db : y[1] = "events" /\ y[2] = i}} = 1..Version(db, i)
           /\ Snapshot(db, i) <= Version(db, i)
<1>1. EventRows(db) /\ Numbers(db)
  BY Zenon DEF Rows
<1>2. Snapshot(db, i) <= Version(db, i)
  BY <1>1 DEF Numbers
<1> DEFINE E == {y \in DOMAIN db : y[1] = "events" /\ y[2] = i}
<1>3. \A x \in E : x[3] \in 1..Version(db, i)
  BY <1>1, Zenon DEF EventRows
<1>4. \A s \in 1..Version(db, i) : EventKey(i, s) \in E /\ EventKey(i, s)[3] = s
  BY <1>1, Keys DEF EventRows
<1> HIDE DEF E
<1>5. {x[3] : x \in E} = 1..Version(db, i)
  BY <1>3, <1>4, Zenon
<1> QED  BY <1>2, <1>5, Zenon DEF E

LEMMA OutboxIsDense ==
    ASSUME NEW db, Rows(db)
    PROVE  {x[2] : x \in {y \in DOMAIN db : y[1] = "outbox"}} = 1..OutboxTail(db)
<1>1. OutboxRows(db)
  BY Zenon DEF Rows
<1> DEFINE O == {y \in DOMAIN db : y[1] = "outbox"}
<1>2. \A x \in O : x[2] \in 1..OutboxTail(db)
  BY <1>1, Zenon DEF OutboxRows
<1>3. \A o \in 1..OutboxTail(db) : OutboxKey(o) \in O /\ OutboxKey(o)[2] = o
  BY <1>1, Keys, Zenon DEF OutboxRows
<1> HIDE DEF O
<1>4. {x[2] : x \in O} = 1..OutboxTail(db)
  BY <1>2, <1>3, Zenon
<1> QED  BY <1>4, Zenon DEF O

(* ... and each event once in the outbox. *)
LEMMA EventsOnce ==
    ASSUME Singletons, NEW db, Rows(db), NEW x \in DOMAIN db, x[1] = "events"
    PROVE  Cardinality({o \in 1..OutboxTail(db) : db[OutboxKey(o)].event_id = db[x]}) = 1
<1>1. x[2] \in Instance /\ x[3] \in 1..Version(db, x[2]) /\ x = EventKey(x[2], x[3])
  BY Zenon DEF Rows, EventRows
<1>2. PICK o \in 1..OutboxTail(db) : db[OutboxKey(o)].event_id = db[x]
  BY <1>1, Zenon DEF Rows, Complete
<1>3. \A p \in 1..OutboxTail(db) : db[OutboxKey(p)].event_id = db[x] => p = o
  BY <1>2, AnnouncedOnce, Zenon
<1>4. {p \in 1..OutboxTail(db) : db[OutboxKey(p)].event_id = db[x]} = {o}
  BY <1>2, <1>3, Zenon
<1> QED  BY <1>4, Zenon DEF Singletons

LEMMA OutboxTrue ==
    ASSUME NEW db, Rows(db), NEW o \in 1..OutboxTail(db), NEW p \in 1..OutboxTail(db)
    PROVE  LET a == db[OutboxKey(o)] b == db[OutboxKey(p)] IN
           /\ db[EventKey(a.instance, a.sequence)] = a.event_id
           /\ o < p /\ a.instance = b.instance => a.sequence < b.sequence
<1>1. PICK q \in Request : \E s \in 1..Version(db, q.instance) :
         /\ db[OutboxKey(o)] = OutboxRow(q.instance, s, EventId(q.command_id, s))
         /\ db[EventKey(q.instance, s)] = EventId(q.command_id, s)
  BY Zenon DEF Rows, Announced
<1>2. PICK s : /\ db[OutboxKey(o)] = OutboxRow(q.instance, s, EventId(q.command_id, s))
               /\ db[EventKey(q.instance, s)] = EventId(q.command_id, s)
  BY <1>1, Zenon
<1> DEFINE a == db[OutboxKey(o)]
<1>3. a.instance = q.instance /\ a.sequence = s /\ a.event_id = EventId(q.command_id, s)
  BY <1>2 DEF OutboxRow
<1>4. db[EventKey(a.instance, a.sequence)] = a.event_id
  BY <1>2, <1>3, Zenon
<1> QED  BY <1>4, Zenon DEF Rows, Ordered

LEMMA CallsAreTrue ==
    ASSUME Singletons, Replicated, States, CallsInv, Admitted
    PROVE  AnswersAreTrueOfTheLog
<1>1. Replicated /\ States /\ Calls /\ Accounted /\ Truthful /\ Admitted
  BY Zenon DEF CallsInv
<1>2. Rows(Latest)
  <2>1. Len(log) \in 0..Len(log)
    BY <1>1, ShapeOf DEF Shaped
  <2> QED  BY <1>1, <2>1, Zenon DEF States, Latest
<1>3. TypeOK
  BY <1>1, Zenon DEF TypeOK, Calls, Typed, Live, Active, Admitted
<1>4. ReceiptIsTrue
  <2> SUFFICES ASSUME NEW c \in Call, call[c].pc = "done", call[c].kind \in {"Committed", "Duplicate"}
               PROVE  /\ IdemKey(Q(c).scope) \in DOMAIN Latest
                      /\ Latest[IdemKey(Q(c).scope)] = call[c].result
                      /\ call[c].result.command_id = Q(c).command_id
                      /\ \A id \in call[c].result.event_ids :
                            Latest[EventKey(Q(c).instance, id[2])] = id
    BY Zenon DEF ReceiptIsTrue
  <2>1. /\ IdemKey(Q(c).scope) \in DOMAIN Latest
        /\ Latest[IdemKey(Q(c).scope)] = call[c].result
        /\ call[c].result.command_id = Q(c).command_id
    BY <1>1, Zenon DEF Truthful, Receipted
  <2>2. Receipts(Latest) /\ Q(c) \in Request
    BY <1>2, Names, Zenon DEF Rows
  <2> QED  BY <2>1, <2>2, Zenon DEF Receipts
<1>5. RefusalHasNoEffect
  BY <1>1, ClearIsQuiet, Zenon DEF Accounted, Clear, Quiet, RefusalHasNoEffect
<1>6. StreamsAndOutbox
  <2> DEFINE db == Latest
  <2>1. Rows(db)
    BY <1>2, Zenon
  <2> HIDE DEF db
  <2>2. \A i \in Instance :
          /\ {x[3] : x \in {y \in DOMAIN db : y[1] = "events" /\ y[2] = i}} = 1..Version(db, i)
          /\ Snapshot(db, i) <= Version(db, i)
    BY <2>1, RowsAreDense, Zenon
  <2>3. {x[2] : x \in {y \in DOMAIN db : y[1] = "outbox"}} = 1..OutboxTail(db)
    BY <2>1, OutboxIsDense, Zenon
  <2>4. \A x \in DOMAIN db : x[1] = "events" =>
          Cardinality({o \in 1..OutboxTail(db) : db[OutboxKey(o)].event_id = db[x]}) = 1
    BY <2>1, EventsOnce, Zenon
  <2>5. \A o, p \in 1..OutboxTail(db) :
          LET a == db[OutboxKey(o)] b == db[OutboxKey(p)] IN
          /\ db[EventKey(a.instance, a.sequence)] = a.event_id
          /\ o < p /\ a.instance = b.instance => a.sequence < b.sequence
    BY <2>1, OutboxTrue, Zenon
  <2> QED  BY <2>2, <2>3, <2>4, <2>5, Zenon DEF StreamsAndOutbox, db
<1>7. LoadedIsPrefix
  BY <1>1, Zenon DEF Truthful, Grounded, LoadedIsPrefix
<1> QED  BY <1>3, <1>4, <1>5, <1>6, <1>7, Zenon DEF AnswersAreTrueOfTheLog
-----------------------------------------------------------------------------
(* The rows a batch that takes effect leaves, as one atomic commit. *)
Recorded(db, new, q, v, k) ==
    /\ q \in Request /\ q.instance \in Instance /\ q.scope \notin DOMAIN ReceiptsOf(db)
    /\ Len(StreamsOf(db)[q.instance]) = v
    /\ StreamsOf(new) = [StreamsOf(db) EXCEPT ![q.instance] =
                            @ \o [j \in 1..k |-> EventId(q.command_id, v + j)]]
    /\ OutboxOf(new) = OutboxOf(db)
          \o [j \in 1..k |-> OutboxRow(q.instance, v + j, EventId(q.command_id, v + j))]
    /\ ReceiptsOf(new) = [s \in DOMAIN ReceiptsOf(db) \cup {q.scope} |->
                            IF s = q.scope THEN Result(q, v, k) ELSE ReceiptsOf(db)[s]]

LEMMA StepRecords ==
    ASSUME NEW db, NEW new, NEW q, NEW v, NEW k, NEW t, Step(db, new, q, v, k, t),
           IdemKey(q.scope) \notin DOMAIN db
    PROVE  Recorded(db, new, q, v, k)
<1>1. StreamGrown(db, new, q, v, k)
  BY StreamGrows, Zenon
<1>2. OutboxGrown(db, new, q, v, k)
  BY OutboxGrows, Zenon
<1>3. ReceiptsGrown(db, new, q, v, k)
  BY ReceiptsGrow, Zenon
<1>4. q \in Request /\ q.instance \in Instance
  BY Names, Zenon DEF Step
<1>5. q.scope \notin DOMAIN ReceiptsOf(db)
  BY Zenon DEF ReceiptsOf
<1> DEFINE more == [j \in 1..k |-> EventId(q.command_id, v + j)]
<1>6. StreamsOf(new) = [StreamsOf(db) EXCEPT ![q.instance] = @ \o more]
  <2>1. /\ StreamOf(new, q.instance) = StreamOf(db, q.instance) \o more
        /\ \A i \in Instance : i # q.instance => StreamOf(new, i) = StreamOf(db, i)
    BY <1>1, Zenon DEF StreamGrown
  <2> HIDE DEF more
  <2> QED  BY <1>4, <2>1, Zenon DEF StreamsOf
<1>7. StreamsOf(db)[q.instance] = StreamOf(db, q.instance)
  BY <1>4, Zenon DEF StreamsOf
<1>8. Len(StreamsOf(db)[q.instance]) = v
  BY <1>1, <1>7, Zenon DEF StreamGrown
<1> QED  BY <1>2, <1>3, <1>4, <1>5, <1>6, <1>8, Zenon DEF Recorded, OutboxGrown, ReceiptsGrown

LEMMA CommitRecords ==
    ASSUME Boundaries, Replicated, States, Proposals, NEW p \in flight, Grows(p.batch)
    PROVE  \/ \E q \in Request, k \in 1..MaxEvents : \E v : Recorded(Latest, Latest', q, v, k)
           \/ Latest' = Latest
<1> DEFINE b == p.batch
           c == p.call
           st == chain[Len(log)]
<1>1. c \in Call /\ Made(c, b) /\ Grows(b)
  BY Zenon DEF Proposals
<1>2. Latest = st.db /\ Latest' = ApplyBatch(st, b).db
  BY <1>1, Zenon DEF Grows, Latest
<1>3. Rows(st.db) /\ Table(st)
  BY ShapeOf DEF States, Shaped
<1> HIDE DEF b, c, st
<1>4. PICK v \in Nat, t \in Nat, n \in Nat, a \in Nat, k \in 1..MaxEvents, h \in {0, 1} :
         b = Prepared(Q(c), v, k, t, n, <<c, h, a>>)
  BY <1>1, Zenon DEF Made
<1>5. Q(c) \in Request /\ k \in Nat
  BY <1>1, Names
<1>6. CASE Outcome(st, b).kind = "Applied"
  <2> DEFINE q == Q(c)
             d == <<c, h, a>>
             new == ApplyBatch(st, b).db
  <2>1. q \in Request /\ b = Prepared(q, v, k, t, n, d)
    BY <1>4, <1>5, Zenon
  <2> HIDE DEF q, d
  <2>2. Step(st.db, new, q, v, k, t) /\ IdemKey(q.scope) \notin DOMAIN st.db
    BY <2>1, <1>3, <1>5, <1>6, BatchApplies
  <2>4. Step(Latest, Latest', q, v, k, t) /\ IdemKey(q.scope) \notin DOMAIN Latest
    BY <1>2, <2>2, Zenon
  <2>5. Recorded(Latest, Latest', q, v, k)
    BY <2>4, StepRecords, Zenon
  <2> QED  BY <2>1, <2>5, Zenon
<1>7. CASE Outcome(st, b).kind # "Applied"
  BY <1>2, <1>7, Zenon DEF ApplyBatch
<1> QED  BY <1>6, <1>7, Zenon
=============================================================================
