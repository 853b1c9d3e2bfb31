-------------------------- MODULE ReplicatedStore --------------------------
(***************************************************************************)
(* The authoritative state machine on every replica.                       *)
(*                                                                         *)
(* OpenRaft (a library) is represented by what it gives the code: one log  *)
(* of committed entries, handed to each node in order, starting after the  *)
(* node's applied_state(); log purging up to a snapshot; snapshots sent to *)
(* nodes that are behind.  AuthoritativeStateMachine keeps last_applied in *)
(* memory; storage writes the effect of an entry and its metadata together.*)
(***************************************************************************)
EXTENDS AtomicBatch

CONSTANTS
    Node,
    Batch,            \* the batches leaders propose
    Membership,       \* the membership configurations
    InitialMembership,
    MaxLog,           \* bound on the committed log
    MaxCrashes        \* bound on crashes

ASSUME BoundsAreNat == MaxLog \in Nat /\ MaxCrashes \in Nat

VARIABLES
    log,              \* the committed entries
    chain,            \* history: chain[i] is the state after replaying log[1..i]
    verdict,          \* history: verdict[i] is the outcome of log[i] on that replay
    disk,             \* disk[n]: the RocksDB state of n with its stored metadata
    last,             \* last[n]: last_applied in memory
    up,               \* the running nodes
    answers,          \* history: every <<index, outcome>> an apply() returned
    snaps,            \* the snapshots built so far
    purged,           \* log entries up to here are no longer available
    crashes

storeVars == <<log, chain, verdict, disk, last, up, answers, snaps, purged, crashes>>

BatchEntry(b)      == [kind |-> "batch", batch |-> b]
MembershipEntry(m) == [kind |-> "membership", members |-> m]
BlankEntry         == [kind |-> "blank"]

Entry == {BatchEntry(b) : b \in Batch} \cup {MembershipEntry(m) : m \in Membership}
            \cup {BlankEntry}

Done == [kind |-> "Applied", answer |-> Missing]

(* The answer of AuthoritativeStateMachine::apply to one entry. *)
EntryOutcome(st, e) == IF e.kind = "batch" THEN Outcome(st, e.batch) ELSE Done

(* The state it leaves in storage. *)
ApplyEntry(st, e) ==
    CASE e.kind = "batch"      -> ApplyBatch(st, e.batch)
      [] e.kind = "membership" ->
            [db |-> st.db, applied |-> st.applied, members |-> e.members]
      [] OTHER                 -> st

Fresh == [db |-> <<>>, applied |-> <<>>, members |-> InitialMembership]

Stored(st, i) == [state |-> st, last |-> i]

Init ==
    /\ log = <<>>
    /\ chain = [i \in {0} |-> Fresh]
    /\ verdict = <<>>
    /\ disk = [n \in Node |-> Stored(Fresh, 0)]
    /\ last = [n \in Node |-> 0]
    /\ up = Node
    /\ answers = {}
    /\ snaps = {}
    /\ purged = 0
    /\ crashes = 0

Extend(f, x, v) == [y \in DOMAIN f \cup {x} |-> IF y = x THEN v ELSE f[y]]

(* Consensus commits an entry. *)
Commit(e) ==
    /\ Len(log) < MaxLog
    /\ log' = Append(log, e)
    /\ chain' = Extend(chain, Len(log) + 1, ApplyEntry(chain[Len(log)], e))
    /\ verdict' = Extend(verdict, Len(log) + 1, EntryOutcome(chain[Len(log)], e))
    /\ UNCHANGED <<disk, last, up, answers, snaps, purged, crashes>>

(* Bugs: the metadata in a later write that a crash can lose; the metadata of *)
(* the following entry.                                                       *)
PersistWithoutMetadata(d, e, i) == Stored(ApplyEntry(d.state, e), d.last)
PersistNextIndex(d, e, i)       == Stored(ApplyEntry(d.state, e), i + 1)

(* What one storage write leaves on disk for the entry at index i: its effect *)
(* and the metadata naming i, in the same write batch.                        *)
Persist(d, e, i) == Stored(ApplyEntry(d.state, e), i)

(* Node n applies its next entry: storage first, then last_applied. *)
Apply(n) ==
    LET i == last[n] + 1 IN
    /\ n \in up
    /\ last[n] >= purged
    /\ i \in DOMAIN log
    /\ disk' = [disk EXCEPT ![n] = Persist(disk[n], log[i], i)]
    /\ last' = [last EXCEPT ![n] = i]
    /\ answers' = answers \cup {<<i, EntryOutcome(disk[n].state, log[i])>>}
    /\ UNCHANGED <<log, chain, verdict, up, snaps, purged, crashes>>

(* A bug: the applied-commands column family left out of the export. *)
ExportWithoutReceipts(n) ==
    Stored([disk[n].state EXCEPT !.applied = <<>>], disk[n].last)

(* What build_snapshot exports: all column families and the metadata, read at *)
(* one MVCC sequence number.                                                  *)
Export(n) == disk[n]

BuildSnapshot(n) ==
    /\ n \in up
    /\ last[n] > 0
    /\ snaps' = snaps \cup {Export(n)}
    /\ UNCHANGED <<log, chain, verdict, disk, last, up, answers, purged, crashes>>

(* Node n replaces its state by a snapshot.  OpenRaft offers only snapshots   *)
(* ahead of the node.                                                         *)
InstallSnapshot(n, s) ==
    /\ n \in up
    /\ s.last > last[n]
    /\ disk' = [disk EXCEPT ![n] = s]
    /\ last' = [last EXCEPT ![n] = s.last]
    /\ UNCHANGED <<log, chain, verdict, up, answers, snaps, purged, crashes>>

(* A bug: purging to the end of the log. *)
PurgeAll(s) ==
    /\ s.last > purged
    /\ purged' = Len(log)
    /\ UNCHANGED <<log, chain, verdict, disk, last, up, answers, snaps, crashes>>

(* OpenRaft drops log entries that a snapshot covers. *)
Purge(s) ==
    /\ s.last > purged
    /\ purged' = s.last
    /\ UNCHANGED <<log, chain, verdict, disk, last, up, answers, snaps, crashes>>

Crash(n) ==
    /\ n \in up
    /\ crashes < MaxCrashes
    /\ up' = up \ {n}
    /\ crashes' = crashes + 1
    /\ UNCHANGED <<log, chain, verdict, disk, last, answers, snaps, purged>>

(* A bug: starting from default metadata. *)
RestartFromDefault(n) ==
    /\ n \notin up
    /\ up' = up \cup {n}
    /\ last' = [last EXCEPT ![n] = 0]
    /\ UNCHANGED <<log, chain, verdict, disk, answers, snaps, purged, crashes>>

(* AuthoritativeStateMachine::new reloads last_applied from stored metadata. *)
Restart(n) ==
    /\ n \notin up
    /\ up' = up \cup {n}
    /\ last' = [last EXCEPT ![n] = disk[n].last]
    /\ UNCHANGED <<log, chain, verdict, disk, answers, snaps, purged, crashes>>

NodeStep(n) ==
    \/ Apply(n)
    \/ BuildSnapshot(n)
    \/ \E s \in snaps : InstallSnapshot(n, s)
    \/ Crash(n)
    \/ Restart(n)

Next ==
    \/ \E e \in Entry : Commit(e)
    \/ \E n \in Node : NodeStep(n)
    \/ \E s \in snaps : Purge(s)

Spec == Init /\ [][Next]_storeVars

CatchUp(n) == Apply(n) \/ Restart(n) \/ \E s \in snaps : InstallSnapshot(n, s)

(* OpenRaft keeps feeding committed entries or a snapshot to every node that  *)
(* is behind, and a crashed node is restarted.                                *)
FairSpec == Spec /\ \A n \in Node : WF_storeVars(CatchUp(n))
-----------------------------------------------------------------------------
TypeOK ==
    /\ log \in Seq(Entry)
    /\ DOMAIN chain = 0..Len(log)
    /\ DOMAIN verdict = DOMAIN log
    /\ DOMAIN disk = Node
    /\ \A n \in Node : disk[n].last \in 0..Len(log)
    /\ last \in [Node -> 0..Len(log)]
    /\ up \subseteq Node
    /\ \A s \in snaps : s.last \in 1..Len(log)
    /\ purged \in 0..Len(log)
    /\ crashes \in 0..MaxCrashes

(* Whatever a node has on disk, and whatever a snapshot carries, is exactly   *)
(* what replaying the log up to the recorded index gives: batch, receipt and  *)
(* metadata never come apart, through crashes, restarts and installs.         *)
DiskIsReplay ==
    /\ \A n \in Node : disk[n].state = chain[disk[n].last]
    /\ \A s \in snaps : s.state = chain[s.last]

(* Two replicas that have applied the same prefix hold the same state. *)
ReplicaAgreement ==
    \A m, n \in Node : disk[m].last = disk[n].last => disk[m].state = disk[n].state

(* The answer to a log entry does not depend on which node computes it or how *)
(* often it restarted: a client told Applied is told so by every replica.     *)
SameAnswerEverywhere ==
    \A p, q \in answers : p[1] = q[1] => p[2] = q[2]

(* At most one committed batch per idempotency scope takes effect, however    *)
(* many times the command is proposed again.                                  *)
AppliedOncePerScope ==
    \A i, j \in DOMAIN log :
        /\ log[i].kind = "batch" /\ log[j].kind = "batch"
        /\ verdict[i].kind = "Applied" /\ verdict[j].kind = "Applied"
        /\ log[i].batch.scope = log[j].batch.scope
        => i = j

(* A row of an append-only column family, once on a node's disk, keeps its    *)
(* value: no batch rewrites or deletes it and no snapshot takes it back.      *)
AppendOnlyRowsStay ==
    [][\A n \in Node : \A k \in DOMAIN disk[n].state.db :
          AppendOnly(k) =>
            /\ k \in DOMAIN disk'[n].state.db
            /\ disk'[n].state.db[k] = disk[n].state.db[k]]_storeVars

(* Every node ends up with the whole committed log applied. *)
EveryNodeCatchesUp ==
    \A n \in Node : \A i \in 1..MaxLog : i \in DOMAIN log ~> disk[n].last >= i
=============================================================================
