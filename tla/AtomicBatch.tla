---------------------------- MODULE AtomicBatch ----------------------------
(***************************************************************************)
(* The prepared atomic batch and what one replica does with it.            *)
(*                                                                         *)
(* crates/bpmp-raft-state-machine/src/lib.rs defines the batch             *)
(* (PreparedAtomicBatch), its validation and the outcomes;                 *)
(* crates/bpmp-adapter-rocksdb/src/rocks.rs applies it to RocksDB.         *)
(*                                                                         *)
(* A database is a function whose domain is the set of present keys; a key *)
(* is a tuple whose first component is its column family.  Values stand    *)
(* for bytes and are compared directly: the code compares SHA-256 digests, *)
(* which are taken to be injective.  "digest" identifies the bytes of a    *)
(* whole batch.                                                            *)
(***************************************************************************)
EXTENDS Naturals, Sequences, FiniteSets, FiniteSetsExt

CONSTANTS
    Missing,          \* ExpectedValue::Missing
    AppendOnlyCF,     \* append_only_column_families
    MaxBatchSize      \* max_conditions, max_mutations and max_batch_bytes as one bound

(* A precondition: the key must hold the expected value, or be absent. *)
Expect(k, v) == [key |-> k, expected |-> v]

AppendOnly(k) == k[1] \in AppendOnlyCF

(* PreparedAtomicBatch::validate: bounded, no key conditioned twice or mutated *)
(* twice, append-only keys never deleted and written only if required absent.  *)
Valid(b) ==
    /\ b.size <= MaxBatchSize
    /\ \A i, j \in DOMAIN b.pre : b.pre[i].key = b.pre[j].key => i = j
    /\ DOMAIN b.put \cap b.del = {}
    /\ \A k \in b.del : ~AppendOnly(k)
    /\ \A k \in DOMAIN b.put :
          AppendOnly(k) => \E i \in DOMAIN b.pre : b.pre[i] = Expect(k, Missing)

Satisfied(db, c) ==
    IF c.expected = Missing THEN c.key \notin DOMAIN db
    ELSE c.key \in DOMAIN db /\ db[c.key] = c.expected

(* The conditions of b that db does not satisfy. *)
Failing(db, b) == {i \in DOMAIN b.pre : ~Satisfied(db, b.pre[i])}

Rejected           == [kind |-> "Rejected"]
Duplicate(answer)  == [kind |-> "Duplicate", answer |-> answer]
Applied(answer)    == [kind |-> "Applied", answer |-> answer]
PreconditionFailed(i) == [kind |-> "PreconditionFailed", index |-> i]

(* A bug: answering without looking the scope up. *)
OutcomeIgnoringScope(st, b) ==
    IF ~Valid(b) THEN Rejected
    ELSE IF Failing(st.db, b) # {} THEN PreconditionFailed(Min(Failing(st.db, b)))
    ELSE Applied(b.answer)

(* What apply() answers, in the order of its early returns: validation, the    *)
(* idempotency scope, then the first precondition that fails.                  *)
Outcome(st, b) ==
    IF ~Valid(b) THEN Rejected
    ELSE IF b.scope \in DOMAIN st.applied THEN
        IF /\ st.applied[b.scope].command_id = b.command_id
           /\ st.applied[b.scope].digest = b.digest
        THEN Duplicate(st.applied[b.scope].answer)
        ELSE Rejected
    ELSE IF Failing(st.db, b) # {} THEN PreconditionFailed(Min(Failing(st.db, b)))
    ELSE Applied(b.answer)

(* The mutations of a batch as one write. *)
Write(db, b) ==
    [k \in (DOMAIN db \cup DOMAIN b.put) \ b.del |->
        IF k \in DOMAIN b.put THEN b.put[k] ELSE db[k]]

(* The row apply() stores under the idempotency scope of an applied batch. *)
Receipt(b) == [command_id |-> b.command_id, digest |-> b.digest, answer |-> b.answer]

(* The state after apply(): mutations and receipt in one write, or nothing. *)
ApplyBatch(st, b) ==
    IF Outcome(st, b).kind = "Applied"
    THEN [db      |-> Write(st.db, b),
          applied |-> [s \in DOMAIN st.applied \cup {b.scope} |->
                         IF s = b.scope THEN Receipt(b) ELSE st.applied[s]],
          members |-> st.members]
    ELSE st
=============================================================================
