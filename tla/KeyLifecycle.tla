---------------------------- MODULE KeyLifecycle ----------------------------
(***************************************************************************)
(* The end of an abort-and-reconcile request: workers of the governance    *)
(* service install a revocation barrier in the data-key cache of every     *)
(* engine, then have the key management service destroy the wrapped keys   *)
(* of the scope.  A worker holds a job under a lease in the service's      *)
(* database.  The engines' caches, and the barriers in them, live in       *)
(* memory.                                                                 *)
(*                                                                         *)
(* A key is a scope and an epoch; a scope's job carries the epoch that was *)
(* approved.  Other threads of an engine resolve keys meanwhile: reading   *)
(* and unwrapping a key, and inserting it in the cache, are two steps.     *)
(***************************************************************************)
EXTENDS Naturals, Sequences, FiniteSets, Functions

CONSTANTS
    Scope,
    Engine,
    KeyWorker,
    NoWorker,
    ApprovedEpoch,   \* the key epoch every request names
    MaxEpoch,        \* bound on rotations
    Capacity,        \* keys an engine's cache holds
    BatchSize,       \* shred_batch_size
    MaxRestarts,     \* bound on restarts of an engine
    MaxFaults        \* bound on failed calls, crashed workers and leases that are too short

VARIABLES
    wrapped,         \* wrapped[s]: epochs of the keys that the KMS stores
    job,             \* job[s]: the row in KEY_SHRED_PENDING, its lease and its holder
    keyWorker,       \* keyWorker[w]: what worker w is doing
    cache,           \* cache[n]: entries, insertion_order, current, revoked_through
    loading,         \* loading[n]: keys unwrapped and not yet inserted
    restarts,        \* restarts[n]: how often engine n has restarted
    faults

keyVars == <<wrapped, job, keyWorker, cache, loading, restarts, faults>>

Key == Scope \X (1..MaxEpoch)
NoKey == <<"none", 0>>
IdleWorker == [pc |-> "idle", todo |-> {}]

EmptyCache == [entries |-> {}, order |-> <<>>, current |-> [s \in Scope |-> NoKey],
               revoked |-> [s \in Scope |-> 0]]

KeyInit ==
    /\ wrapped = [s \in Scope |-> {1}]
    /\ job = [s \in Scope |-> [status |-> "pending", leased |-> FALSE, ready |-> TRUE, holder |-> NoWorker]]
    /\ keyWorker = [w \in KeyWorker |-> IdleWorker]
    /\ cache = [n \in Engine |-> EmptyCache]
    /\ loading = [n \in Engine |-> {}]
    /\ restarts = [n \in Engine |-> 0]
    /\ faults = 0
-----------------------------------------------------------------------------
(* The data-key cache of an engine. *)
Revoked(c, k) == k[2] <= c.revoked[k[1]]

Without(c, keys) ==
    [c EXCEPT !.entries = @ \ keys,
              !.order = SelectSeq(@, LAMBDA k : k \notin keys),
              !.current = [s \in Scope |-> IF @[s] \in keys THEN NoKey ELSE @[s]]]

(* revoke_through: the barrier never moves back. *)
RevokeThrough(c, s, epoch) ==
    Without([c EXCEPT !.revoked[s] = IF @ < epoch THEN epoch ELSE @],
           {k \in c.entries : k[1] = s /\ k[2] <= epoch})

(* insert: the key becomes the scope's current one; the oldest one leaves a   *)
(* cache that is full.                                                        *)
Insert(c, k) ==
    LET order   == IF k \in c.entries THEN c.order ELSE Append(c.order, k)
        entries == c.entries \cup {k}
        d == [c EXCEPT !.order = order, !.entries = entries, !.current[k[1]] = k]
    IN IF Cardinality(entries) > Capacity THEN Without(d, {Head(order)}) ELSE d

(* resolve: the key is not revoked and not cached; it is read and unwrapped. *)
ResolveMiss(n, k) ==
    /\ k \notin loading[n]
    /\ ~Revoked(cache[n], k)
    /\ k \notin cache[n].entries
    /\ k[2] \in wrapped[k[1]]
    /\ loading' = [loading EXCEPT ![n] = @ \cup {k}]
    /\ UNCHANGED <<wrapped, job, keyWorker, cache, restarts, faults>>

ResolveInsert(n, k) ==
    /\ k \in loading[n]
    /\ loading' = [loading EXCEPT ![n] = @ \ {k}]
    /\ cache' = IF Revoked(cache[n], k) THEN cache ELSE [cache EXCEPT ![n] = Insert(@, k)]
    /\ UNCHANGED <<wrapped, job, keyWorker, restarts, faults>>

(* cached: a lookup finds that the entry's time is over. *)
ExpireEntry(n, k) ==
    /\ k \in cache[n].entries
    /\ cache' = [cache EXCEPT ![n] = Without(@, {k})]
    /\ UNCHANGED <<wrapped, job, keyWorker, loading, restarts, faults>>

RestartEngine(n) ==
    /\ restarts[n] < MaxRestarts
    /\ restarts' = [restarts EXCEPT ![n] = @ + 1]
    /\ cache' = [cache EXCEPT ![n] = EmptyCache]
    /\ loading' = [loading EXCEPT ![n] = {}]
    /\ UNCHANGED <<wrapped, job, keyWorker, faults>>

(* create_or_rotate: a new version with the next epoch. *)
Rotate(s) ==
    /\ wrapped[s] # {}
    /\ Cardinality(wrapped[s]) < MaxEpoch
    /\ wrapped' = [wrapped EXCEPT ![s] = @ \cup {Cardinality(@) + 1}]
    /\ UNCHANGED <<job, keyWorker, cache, loading, restarts, faults>>
-----------------------------------------------------------------------------
(* The worker.  Claiming takes the rows that are due and not under lease. *)
Become(w, r) == keyWorker' = [keyWorker EXCEPT ![w] = r]
Going(w, pc) == [keyWorker[w] EXCEPT !.pc = pc]
Fault == faults < MaxFaults /\ faults' = faults + 1

Claimable == {s \in Scope : job[s].status = "pending" /\ job[s].ready /\ ~job[s].leased}

Claim(w) ==
    /\ keyWorker[w].pc = "idle"
    /\ \E T \in SUBSET Claimable :
          /\ T # {} /\ Cardinality(T) <= BatchSize
          /\ job' = [s \in Scope |-> IF s \in T THEN [job[s] EXCEPT !.leased = TRUE, !.holder = w] ELSE job[s]]
          /\ Become(w, [pc |-> "next", todo |-> T])
    /\ UNCHANGED <<wrapped, cache, loading, restarts, faults>>

(* The next job of the batch, unless its policy cannot be resolved, which     *)
(* ends the batch and leaves the leases.                                      *)
BeginJob(w) ==
    /\ keyWorker[w].pc = "next"
    /\ \/ keyWorker[w].todo = {} /\ Become(w, IdleWorker)
       \/ \E s \in keyWorker[w].todo :
             Become(w, [pc |-> "barrier", todo |-> keyWorker[w].todo \ {s}, scope |-> s, acked |-> {}])
    /\ UNCHANGED <<wrapped, job, cache, loading, restarts, faults>>

PolicyUnavailable(w) ==
    /\ keyWorker[w].pc = "next"
    /\ keyWorker[w].todo # {}
    /\ Become(w, IdleWorker)
    /\ Fault
    /\ UNCHANGED <<wrapped, job, cache, loading, restarts>>

(* A bug: one acknowledgement is enough. *)
BarrierOnce(w, n) ==
    LET r == keyWorker[w] IN
    /\ r.pc = "barrier"
    /\ n \notin r.acked
    /\ cache' = [cache EXCEPT ![n] = RevokeThrough(@, r.scope, ApprovedEpoch)]
    /\ Become(w, [r EXCEPT !.acked = @ \cup {n}, !.pc = "shred"])
    /\ UNCHANGED <<wrapped, job, loading, restarts, faults>>

(* revoke_data_key_cache: one engine after the other. *)
Barrier(w, n) ==
    LET r == keyWorker[w]  acked == r.acked \cup {n} IN
    /\ r.pc = "barrier"
    /\ n \notin r.acked
    /\ cache' = [cache EXCEPT ![n] = RevokeThrough(@, r.scope, ApprovedEpoch)]
    /\ Become(w, [r EXCEPT !.acked = acked, !.pc = IF acked = Engine THEN "shred" ELSE @])
    /\ UNCHANGED <<wrapped, job, loading, restarts, faults>>

(* An engine does not answer: all of them again, or the job later. *)
BarrierFails(w) ==
    /\ keyWorker[w].pc = "barrier"
    /\ \/ Become(w, [keyWorker[w] EXCEPT !.acked = {}])
       \/ Become(w, Going(w, "later"))
    /\ Fault
    /\ UNCHANGED <<wrapped, job, cache, loading, restarts>>

(* shred deletes every version of the scope's key. *)
Shred(w) ==
    LET s == keyWorker[w].scope IN
    /\ keyWorker[w].pc = "shred"
    /\ wrapped' = [wrapped EXCEPT ![s] = {}]
    /\ Become(w, Going(w, "complete"))
    /\ UNCHANGED <<job, cache, loading, restarts, faults>>

(* The KMS fails, having deleted the key or not: again, or the job later. *)
ShredFails(w) ==
    LET s == keyWorker[w].scope IN
    /\ keyWorker[w].pc = "shred"
    /\ wrapped' \in {wrapped, [wrapped EXCEPT ![s] = {}]}
    /\ UNCHANGED keyWorker \/ Become(w, Going(w, "later"))
    /\ Fault
    /\ UNCHANGED <<job, cache, loading, restarts>>

Owns(w, s) == job[s].status = "pending" /\ job[s].holder = w

(* complete_key_shred: refused, and the batch ended, when another worker has  *)
(* claimed the job meanwhile.                                                 *)
CompleteJob(w) ==
    LET r == keyWorker[w]  s == r.scope IN
    /\ r.pc = "complete"
    /\ IF Owns(w, s)
       THEN /\ job' = [job EXCEPT ![s] = [@ EXCEPT !.status = "completed", !.leased = FALSE, !.holder = NoWorker]]
            /\ Become(w, [pc |-> "next", todo |-> r.todo])
       ELSE Become(w, IdleWorker) /\ UNCHANGED job
    /\ UNCHANGED <<wrapped, cache, loading, restarts, faults>>

(* retry_key_shred: nothing happens to a job that another worker holds. *)
RetryJob(w) ==
    LET r == keyWorker[w]  s == r.scope IN
    /\ r.pc = "later"
    /\ job' = IF Owns(w, s) THEN [job EXCEPT ![s] = [@ EXCEPT !.leased = FALSE, !.ready = FALSE, !.holder = NoWorker]]
              ELSE job
    /\ Become(w, [pc |-> "next", todo |-> r.todo])
    /\ UNCHANGED <<wrapped, cache, loading, restarts, faults>>

CrashWorker(w) ==
    /\ keyWorker[w].pc # "idle"
    /\ Become(w, IdleWorker)
    /\ Fault
    /\ UNCHANGED <<wrapped, job, cache, loading, restarts>>

(* Time: a lease runs out, also while its holder is still at work, and a      *)
(* delay ends.                                                                *)
AtWork(s) ==
    \E w \in KeyWorker : /\ job[s].holder = w
                         /\ keyWorker[w].pc # "idle"
                         /\ s \in keyWorker[w].todo \/ (keyWorker[w].pc # "next" /\ keyWorker[w].scope = s)

LeaseRunsOut(s) ==
    /\ job[s].leased
    /\ job' = [job EXCEPT ![s] = [@ EXCEPT !.leased = FALSE]]
    /\ IF AtWork(s) THEN Fault ELSE UNCHANGED faults
    /\ UNCHANGED <<wrapped, keyWorker, cache, loading, restarts>>

DelayEnds(s) ==
    /\ ~job[s].ready
    /\ job' = [job EXCEPT ![s] = [@ EXCEPT !.ready = TRUE]]
    /\ UNCHANGED <<wrapped, keyWorker, cache, loading, restarts, faults>>
-----------------------------------------------------------------------------
WorkerStep(w) ==
    \/ Claim(w) \/ BeginJob(w) \/ Shred(w) \/ CompleteJob(w) \/ RetryJob(w)
    \/ \E n \in Engine : Barrier(w, n)

KeyNext ==
    \/ \E w \in KeyWorker :
          WorkerStep(w) \/ PolicyUnavailable(w) \/ BarrierFails(w) \/ ShredFails(w) \/ CrashWorker(w)
    \/ \E n \in Engine : RestartEngine(n)
    \/ \E n \in Engine, k \in Key : ResolveMiss(n, k) \/ ResolveInsert(n, k) \/ ExpireEntry(n, k)
    \/ \E s \in Scope : Rotate(s) \/ LeaseRunsOut(s) \/ DelayEnds(s)

(* The loop of each worker runs on and time passes; faults are bounded: calls *)
(* do not fail for ever, and some lease is long enough.                       *)
KeyFairness ==
    /\ \A w \in KeyWorker : WF_keyVars(WorkerStep(w))
    /\ \A s \in Scope : WF_keyVars(LeaseRunsOut(s)) /\ WF_keyVars(DelayEnds(s))

KeySpec == KeyInit /\ [][KeyNext]_keyVars /\ KeyFairness
-----------------------------------------------------------------------------
(* The caches are exact and bounded whatever the threads of an engine do:     *)
(* insertion_order lists each entry once (the eviction loop pops from it      *)
(* until the cache fits), current names cached keys only, and no key at or    *)
(* below the barrier is served, in whatever order a barrier and the insertion *)
(* of a key being unwrapped arrive.                                           *)
CacheIsExact ==
    \A n \in Engine :
        LET c == cache[n] IN
        /\ Range(c.order) = c.entries
        /\ Len(c.order) = Cardinality(c.entries)
        /\ Cardinality(c.entries) <= Capacity
        /\ \A s \in Scope : c.current[s] \in c.entries \cup {NoKey}
        /\ \A k \in c.entries : ~Revoked(c, k)

(* The KMS has destroyed a key only after every engine, unless restarted      *)
(* since, holds the barrier for it; and a completed job's key is destroyed.   *)
BarrierBeforeShred ==
    \A s \in Scope :
        /\ wrapped[s] = {} => \A n \in Engine : restarts[n] = 0 => cache[n].revoked[s] >= ApprovedEpoch
        /\ job[s].status = "completed" => wrapped[s] = {}

(* design.md says that a shredded scope stays revoked: once the job is        *)
(* completed, no engine serves a key of the epochs it revoked.                *)
ShreddedStaysRevoked ==
    \A s \in Scope, n \in Engine : job[s].status = "completed" =>
        \A k \in cache[n].entries : ~(k[1] = s /\ k[2] <= ApprovedEpoch)
=============================================================================
