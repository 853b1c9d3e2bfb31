----------------------- MODULE ReplicatedStoreProofs -----------------------
(***************************************************************************)
(* Replica agreement and exactly-once application, for every set of nodes, *)
(* batches and bounds.  The inductive invariant ties what is on disk, in   *)
(* snapshots and in answers to the replay of the committed log.            *)
(***************************************************************************)
EXTENDS ReplicatedStore, TLAPS

(* chain and verdict are the replay of the log. *)
Replay ==
    \A i \in 1..Len(log) :
        /\ chain[i] = ApplyEntry(chain[i - 1], log[i])
        /\ verdict[i] = EntryOutcome(chain[i - 1], log[i])

(* A scope that took effect stays in the applied-commands table. *)
ScopesStay ==
    \A i \in 1..Len(log) : \A j \in i..Len(log) :
        log[i].kind = "batch" /\ verdict[i].kind = "Applied"
            => log[i].batch.scope \in DOMAIN chain[j].applied

(* Along the replay, append-only rows only accumulate. *)
RowsStay ==
    \A i \in 0..Len(log) : \A j \in i..Len(log) :
        \A k \in DOMAIN chain[i].db :
            AppendOnly(k) => /\ k \in DOMAIN chain[j].db
                             /\ chain[j].db[k] = chain[i].db[k]

(* Memory agrees with storage, and answers with the replay. *)
Bookkeeping ==
    /\ \A n \in Node : last[n] = disk[n].last
    /\ \A p \in answers : p[1] \in 1..Len(log) /\ p[2] = verdict[p[1]]

IInv == TypeOK /\ Replay /\ DiskIsReplay /\ Bookkeeping /\ ScopesStay /\ RowsStay
-----------------------------------------------------------------------------
(* A batch that takes effect was not in the applied-commands table. *)
LEMMA AppliedIsNew ==
    ASSUME NEW st, NEW b, Outcome(st, b).kind = "Applied"
    PROVE  /\ Valid(b)
           /\ b.scope \notin DOMAIN st.applied
           /\ Failing(st.db, b) = {}
  BY DEF Outcome, Rejected, Duplicate, PreconditionFailed

(* Applying an entry never drops a scope from the applied-commands table. *)
LEMMA ScopesGrow ==
    ASSUME NEW st, NEW e
    PROVE  DOMAIN st.applied \subseteq DOMAIN ApplyEntry(st, e).applied
  BY DEF ApplyEntry, ApplyBatch

(* A batch that takes effect leaves its scope in the table. *)
LEMMA ScopeRecorded ==
    ASSUME NEW st, NEW e, e.kind = "batch", EntryOutcome(st, e).kind = "Applied"
    PROVE  e.batch.scope \in DOMAIN ApplyEntry(st, e).applied
  BY DEF ApplyEntry, ApplyBatch, EntryOutcome

(* Applying an entry keeps every append-only row: a valid batch writes one   *)
(* only if it requires the key absent, and deletes none.                     *)
LEMMA RowsKept ==
    ASSUME NEW st, NEW e, NEW k \in DOMAIN st.db, AppendOnly(k)
    PROVE  /\ k \in DOMAIN ApplyEntry(st, e).db
           /\ ApplyEntry(st, e).db[k] = st.db[k]
<1>1. CASE ~(e.kind = "batch" /\ Outcome(st, e.batch).kind = "Applied")
  BY <1>1 DEF ApplyEntry, ApplyBatch
<1>2. CASE e.kind = "batch" /\ Outcome(st, e.batch).kind = "Applied"
  <2> DEFINE b == e.batch
  <2>1. Valid(b) /\ Failing(st.db, b) = {}
    BY <1>2, AppliedIsNew
  <2>2. k \notin b.del
    BY <2>1 DEF Valid
  <2>3. k \notin DOMAIN b.put
    <3>1. SUFFICES ASSUME k \in DOMAIN b.put PROVE FALSE
      OBVIOUS
    <3>2. PICK i \in DOMAIN b.pre : b.pre[i] = Expect(k, Missing)
      BY <3>1, <2>1 DEF Valid
    <3> QED  BY <3>2, <2>1 DEF Failing, Satisfied, Expect
  <2>4. ApplyEntry(st, e).db = Write(st.db, b)
    BY <1>2 DEF ApplyEntry, ApplyBatch
  <2> QED  BY <2>2, <2>3, <2>4 DEF Write
<1> QED  BY <1>1, <1>2
-----------------------------------------------------------------------------
(* The invariant holds at first. *)
LEMMA InitIInv == Init => IInv
<1> SUFFICES ASSUME Init PROVE IInv
  OBVIOUS
<1> USE DEF Init, Stored
<1>1. TypeOK
  BY BoundsAreNat DEF TypeOK
<1>2. Replay /\ ScopesStay
  BY DEF Replay, ScopesStay
<1>3. DiskIsReplay /\ Bookkeeping
  BY DEF DiskIsReplay, Bookkeeping
<1>4. RowsStay
  BY DEF RowsStay
<1> QED  BY <1>1, <1>2, <1>3, <1>4 DEF IInv

(* Committing an entry extends the replay and leaves the nodes alone. *)
LEMMA CommitStep ==
    ASSUME IInv, NEW e \in Entry, Commit(e)
    PROVE  IInv'
<1> DEFINE L == Len(log)
<1> USE DEF IInv
<1>1. /\ log \in Seq(Entry) /\ L \in Nat
      /\ log' = Append(log, e) /\ Len(log') = L + 1 /\ log'[L + 1] = e
      /\ \A i \in 1..L : log'[i] = log[i]
      /\ log' \in Seq(Entry) /\ DOMAIN log' = 1..(L + 1) /\ DOMAIN log = 1..L
  BY DEF TypeOK, Commit
<1>2. /\ DOMAIN chain' = 0..(L + 1)
      /\ \A i \in 0..L : chain'[i] = chain[i]
      /\ chain'[L + 1] = ApplyEntry(chain[L], e)
  BY <1>1 DEF Commit, Extend, TypeOK
<1>3. /\ DOMAIN verdict' = 1..(L + 1)
      /\ \A i \in 1..L : verdict'[i] = verdict[i]
      /\ verdict'[L + 1] = EntryOutcome(chain[L], e)
  BY <1>1 DEF Commit, Extend, TypeOK
<1>4. UNCHANGED <<disk, last, up, answers, snaps, purged, crashes>>
  BY DEF Commit
<1>5. TypeOK'
  BY <1>1, <1>2, <1>3, <1>4 DEF TypeOK
<1>6. Replay'
  BY <1>1, <1>2, <1>3 DEF Replay
<1>7. DiskIsReplay'
  BY <1>1, <1>2, <1>4 DEF DiskIsReplay, TypeOK
<1>8. Bookkeeping'
  BY <1>1, <1>3, <1>4 DEF Bookkeeping, Stored
<1>9. ScopesStay'
  <2> SUFFICES ASSUME NEW i \in 1..(L + 1), NEW j \in i..(L + 1),
                      log'[i].kind = "batch", verdict'[i].kind = "Applied"
               PROVE  log'[i].batch.scope \in DOMAIN chain'[j].applied
    BY <1>1 DEF ScopesStay
  <2>1. CASE j \in 1..L
    BY <2>1, <1>1, <1>2, <1>3 DEF ScopesStay
  <2>2. CASE j = L + 1 /\ i \in 1..L
    <3>1. log[i].batch.scope \in DOMAIN chain[L].applied
      BY <2>2, <1>1, <1>3 DEF ScopesStay
    <3> QED  BY <3>1, <2>2, <1>1, <1>2, ScopesGrow
  <2>3. CASE i = L + 1
    BY <2>3, <1>1, <1>2, <1>3, ScopeRecorded
  <2> QED  BY <2>1, <2>2, <2>3, <1>1
<1>10. RowsStay'
  <2> SUFFICES ASSUME NEW i \in 0..(L + 1), NEW j \in i..(L + 1),
                      NEW k \in DOMAIN chain'[i].db, AppendOnly(k)
               PROVE  k \in DOMAIN chain'[j].db /\ chain'[j].db[k] = chain'[i].db[k]
    BY <1>1 DEF RowsStay
  <2>1. CASE j \in 0..L
    BY <2>1, <1>1, <1>2 DEF RowsStay
  <2>2. CASE j = L + 1 /\ i \in 0..L
    <3>1. k \in DOMAIN chain[L].db /\ chain[L].db[k] = chain[i].db[k]
      BY <2>2, <1>1, <1>2 DEF RowsStay
    <3> QED  BY <3>1, <2>2, <1>1, <1>2, RowsKept
  <2>3. CASE i = L + 1
    BY <2>3, <1>1
  <2> QED  BY <2>1, <2>2, <2>3, <1>1
<1> QED  BY <1>5, <1>6, <1>7, <1>8, <1>9, <1>10

(* The steps of a node change neither the log nor its replay. *)
LEMMA NodeStepKeeps ==
    ASSUME IInv, NEW n \in Node, NodeStep(n)
    PROVE  IInv'
<1> USE DEF IInv
<1>1. UNCHANGED <<log, chain, verdict>>
  BY DEF NodeStep, Apply, BuildSnapshot, InstallSnapshot, Crash, Restart
<1>2. Replay' /\ ScopesStay' /\ RowsStay'
  BY <1>1 DEF Replay, ScopesStay, RowsStay
<1>3. CASE Apply(n)
  <2> DEFINE i == last[n] + 1
  <2>1. i \in 1..Len(log) /\ disk[n].last = i - 1 /\ disk[n].state = chain[i - 1]
    BY <1>3 DEF Apply, TypeOK, Bookkeeping, DiskIsReplay
  <2>2. /\ disk' = [disk EXCEPT ![n] = Stored(chain[i], i)]
        /\ EntryOutcome(disk[n].state, log[i]) = verdict[i]
    BY <1>3, <2>1 DEF Apply, Persist, Replay
  <2>3. TypeOK'
    BY <1>1, <1>3, <2>1, <2>2 DEF Apply, TypeOK, Stored
  <2>4. DiskIsReplay'
    BY <1>1, <1>3, <2>1, <2>2 DEF Apply, DiskIsReplay, Stored, TypeOK
  <2>5. Bookkeeping'
    BY <1>1, <1>3, <2>1, <2>2 DEF Apply, Bookkeeping, Stored, TypeOK
  <2> QED  BY <1>2, <2>3, <2>4, <2>5
<1>4. CASE BuildSnapshot(n)
  <2>1. TypeOK'
    BY <1>1, <1>4 DEF BuildSnapshot, Export, TypeOK, Bookkeeping
  <2>2. DiskIsReplay' /\ Bookkeeping'
    BY <1>1, <1>4 DEF BuildSnapshot, Export, DiskIsReplay, Bookkeeping
  <2> QED  BY <1>2, <2>1, <2>2
<1>5. CASE \E s \in snaps : InstallSnapshot(n, s)
  <2>1. PICK s \in snaps : InstallSnapshot(n, s)
    BY <1>5
  <2>2. TypeOK'
    BY <1>1, <2>1 DEF InstallSnapshot, TypeOK
  <2>3. DiskIsReplay' /\ Bookkeeping'
    BY <1>1, <2>1 DEF InstallSnapshot, DiskIsReplay, Bookkeeping, TypeOK
  <2> QED  BY <1>2, <2>2, <2>3
<1>6. CASE Crash(n)
  <2>1. TypeOK' /\ DiskIsReplay' /\ Bookkeeping'
    BY <1>1, <1>6, BoundsAreNat DEF Crash, TypeOK, DiskIsReplay, Bookkeeping
  <2> QED  BY <1>2, <2>1
<1>7. CASE Restart(n)
  <2>1. TypeOK' /\ DiskIsReplay' /\ Bookkeeping'
    BY <1>1, <1>7 DEF Restart, TypeOK, DiskIsReplay, Bookkeeping
  <2> QED  BY <1>2, <2>1
<1> QED  BY <1>3, <1>4, <1>5, <1>6, <1>7 DEF NodeStep

(* Every step keeps the invariant. *)
LEMMA NextKeeps == IInv /\ [Next]_storeVars => IInv'
<1> SUFFICES ASSUME IInv, [Next]_storeVars PROVE IInv'
  OBVIOUS
<1>1. CASE \E e \in Entry : Commit(e)
  BY <1>1, CommitStep
<1>2. CASE \E n \in Node : NodeStep(n)
  BY <1>2, NodeStepKeeps
<1>3. CASE \E s \in snaps : Purge(s)
  BY <1>3 DEF Purge, IInv, TypeOK, Replay, DiskIsReplay, Bookkeeping, ScopesStay, RowsStay
<1>4. CASE UNCHANGED storeVars
  BY <1>4 DEF storeVars, IInv, TypeOK, Replay, DiskIsReplay, Bookkeeping, ScopesStay, RowsStay
<1> QED  BY <1>1, <1>2, <1>3, <1>4 DEF Next

(* The invariant holds in every reachable state. *)
THEOREM Invariance == Spec => []IInv
  BY InitIInv, NextKeeps, PTL DEF Spec

(* The state machine is well typed: indices stay inside the committed log. *)
THEOREM TypeCorrect == Spec => []TypeOK
<1>1. IInv => TypeOK
  BY DEF IInv
<1> QED  BY <1>1, Invariance, PTL

(* What any node has on disk, and any snapshot carries, is the replay of the *)
(* log up to the index its metadata names, whatever crashed when.            *)
THEOREM DiskReplaysLog == Spec => []DiskIsReplay
<1>1. IInv => DiskIsReplay
  BY DEF IInv
<1> QED  BY <1>1, Invariance, PTL

(* Replicas that applied the same prefix of the log are in the same state. *)
THEOREM Agreement == Spec => []ReplicaAgreement
<1>1. IInv => ReplicaAgreement
  BY DEF IInv, DiskIsReplay, ReplicaAgreement
<1> QED  BY <1>1, Invariance, PTL

(* Every apply() of one log entry, on any node, returns the same outcome. *)
THEOREM AnswersAgree == Spec => []SameAnswerEverywhere
<1>1. IInv => SameAnswerEverywhere
  BY DEF IInv, Bookkeeping, SameAnswerEverywhere
<1> QED  BY <1>1, Invariance, PTL

(* A command proposed any number of times under one idempotency scope takes  *)
(* effect at most once.                                                      *)
THEOREM ExactlyOnce == Spec => []AppliedOncePerScope
<1>1. IInv => AppliedOncePerScope
  <2> SUFFICES ASSUME IInv, NEW i \in DOMAIN log, NEW j \in DOMAIN log,
                      log[i].kind = "batch", log[j].kind = "batch",
                      verdict[i].kind = "Applied", verdict[j].kind = "Applied",
                      log[i].batch.scope = log[j].batch.scope, i # j
               PROVE  FALSE
    BY DEF AppliedOncePerScope
  <2>1. DOMAIN log = 1..Len(log) /\ Len(log) \in Nat
    BY DEF IInv, TypeOK
  <2>2. ASSUME NEW x \in DOMAIN log, NEW y \in DOMAIN log, x < y,
               log[x].kind = "batch", log[y].kind = "batch",
               verdict[x].kind = "Applied", verdict[y].kind = "Applied",
               log[x].batch.scope = log[y].batch.scope
        PROVE  FALSE
    <3>1. y - 1 \in x..Len(log)
      BY <2>1, <2>2
    <3>2. log[x].batch.scope \in DOMAIN chain[y - 1].applied
      BY <3>1, <2>1, <2>2 DEF IInv, ScopesStay
    <3>3. Outcome(chain[y - 1], log[y].batch).kind = "Applied"
      BY <2>1, <2>2 DEF IInv, Replay, EntryOutcome
    <3> QED  BY <3>2, <3>3, <2>2, AppliedIsNew
  <2> QED  BY <2>1, <2>2
<1> QED  BY <1>1, Invariance, PTL

(* A node never loses or rewrites an append-only row, neither by applying a  *)
(* batch nor by installing a snapshot, which is always ahead of it.          *)
THEOREM AppendOnlyRows == Spec => AppendOnlyRowsStay
<1> DEFINE Kept == \A n \in Node : \A k \in DOMAIN disk[n].state.db :
          AppendOnly(k) =>
            /\ k \in DOMAIN disk'[n].state.db
            /\ disk'[n].state.db[k] = disk[n].state.db[k]
<1>1. IInv /\ IInv' /\ [Next]_storeVars => [Kept]_storeVars
  <2> SUFFICES ASSUME IInv, IInv', Next PROVE Kept
    OBVIOUS
  <2>1. ASSUME NEW n \in Node PROVE disk[n].last <= disk'[n].last
    <3>1. CASE \E e \in Entry : Commit(e)
      BY <3>1 DEF Commit, IInv, TypeOK
    <3>2. CASE \E m \in Node : NodeStep(m)
      BY <3>2, <2>1 DEF NodeStep, Apply, BuildSnapshot, InstallSnapshot, Crash, Restart,
             Persist, Stored, IInv, TypeOK, Bookkeeping
    <3>3. CASE \E s \in snaps : Purge(s)
      BY <3>3 DEF Purge, IInv, TypeOK
    <3> QED  BY <3>1, <3>2, <3>3 DEF Next
  <2>2. chain' = chain \/ \E v : chain' = Extend(chain, Len(log) + 1, v)
    BY DEF Next, Commit, NodeStep, Apply, BuildSnapshot, InstallSnapshot, Crash, Restart, Purge
  <2>3. \A i \in 0..Len(log) : chain'[i] = chain[i]
    BY <2>2 DEF Extend, IInv, TypeOK
  <2>4. SUFFICES ASSUME NEW n \in Node, NEW k \in DOMAIN disk[n].state.db, AppendOnly(k)
                 PROVE  /\ k \in DOMAIN disk'[n].state.db
                        /\ disk'[n].state.db[k] = disk[n].state.db[k]
    OBVIOUS
  <2>5. /\ disk[n].last \in 0..Len(log) /\ disk[n].last \in 0..Len(log')
        /\ disk'[n].last \in disk[n].last..Len(log')
    BY <2>1, <2>4 DEF IInv, TypeOK, Next, Commit, NodeStep, Apply, BuildSnapshot,
          InstallSnapshot, Crash, Restart, Purge
  <2>6. disk[n].state = chain'[disk[n].last] /\ disk'[n].state = chain'[disk'[n].last]
    BY <2>3, <2>4, <2>5 DEF IInv, DiskIsReplay
  <2> QED  BY <2>4, <2>5, <2>6 DEF IInv, RowsStay
<1> QED  BY <1>1, Invariance, PTL DEF Spec, AppendOnlyRowsStay
=============================================================================
