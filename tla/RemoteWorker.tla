---------------------------- MODULE RemoteWorker ----------------------------
(***************************************************************************)
(* Remote service tasks: the durable task records with their leases, the   *)
(* coordinator that hands tasks to connected workers within their credit,  *)
(* and the engine command that completes a task.                           *)
(*                                                                         *)
(* Several threads run in one coordinator: the leader loop (thread 0:      *)
(* reap, then dispatch) and the handler of each worker stream (thread s    *)
(* for session s), which dispatches after every frame.  The coordinator's  *)
(* state is volatile and guarded by a mutex that no thread holds while it  *)
(* talks to the store, so a step of a thread is what it does under one     *)
(* lock, or one request to the store.                                      *)
(*                                                                         *)
(* Time is left out: a lease may expire, a retry become available and a    *)
(* heartbeat be missed at any moment.                                      *)
(***************************************************************************)
EXTENDS Naturals, FiniteSets, FiniteSetsExt

CONSTANTS
    Task,           \* remote tasks, numbered; each is one activation of a node
    NodeOf,         \* NodeOf[t]: the service task node activated
    Worker,         \* worker identities, numbered in their order in the registry
    Capable,        \* Capable[t]: the workers with the tenant and capability of t
    Credit,         \* the credits a worker may advertise
    MaxAttempts,    \* max_attempts of the policy
    MaxSessions,
    MaxFaults       \* lost proposals, failed calls and crashes

ASSUME RemoteConstants ==
    /\ Task \subseteq Nat \ {0} /\ Worker \subseteq Nat \ {0} /\ Credit \subseteq Nat
    /\ \A t \in Task : Capable[t] \subseteq Worker
    /\ MaxAttempts \in Nat \ {0} /\ MaxSessions \in Nat /\ MaxFaults \in Nat

VARIABLES
    rec,        \* rec[t]: the replicated record of task t
    late,       \* proposals whose caller stopped waiting
    active,     \* activations whose token still waits at its node
    landed,     \* landed[a]: the tasks whose completion command completed activation a
    keys,       \* idempotency keys of accepted completion commands
    owner,      \* owner[s]: the worker that registered session s, 0 if unused
    live,       \* the registered sessions
    granted, inflight,  \* CreditController, per worker
    assign,     \* assign[<<t, s>>]: lease version of the active assignment, 0 if none
    sent,       \* assignments delivered to workers
    th,         \* th[x]: where thread x is
    faults

store  == <<rec, late>>
engine == <<active, landed, keys>>
credits == <<granted, inflight>>
coord  == <<owner, live, credits, assign, sent>>
vars   == <<store, engine, coord, th, faults>>

Session == 1..MaxSessions
Thread  == 0..MaxSessions
Claims  == [t : Task \cup {0}, s : Thread, v : Nat]
NoClaim == [t |-> 0, s |-> 0, v |-> 0]

(* Where a thread is: its next step, the tasks or leases left to do, the claim *)
(* in hand and the sessions left to disconnect.                                *)
Turn(pc, todo, c, out) == [pc |-> pc, todo |-> todo, c |-> c, out |-> out]
Idle    == Turn("idle", {}, NoClaim, {})
Poll    == Turn("poll", {}, NoClaim, {})
Gone    == Turn("gone", {}, NoClaim, {})
Leave(s, out) == Turn("drop", {}, [t |-> 0, s |-> s, v |-> 0], out)

Absent  == [st |-> "Absent", attempts |-> 0, version |-> 0, session |-> 0]
ClaimOf(t) == [t |-> t, s |-> rec[t].session, v |-> rec[t].version]
Leased  == {t \in Task : rec[t].st = "Leased"}
Ready   == {t \in Task : rec[t].st = "Ready"}

Init ==
    /\ rec = [t \in Task |-> Absent] /\ late = {}
    /\ active = {} /\ landed = [t \in Task |-> {}] /\ keys = {}
    /\ owner = [s \in Session |-> 0] /\ live = {}
    /\ granted = [w \in Worker |-> 0] /\ inflight = [w \in Worker |-> {}]
    /\ assign = [a \in Task \X Session |-> 0] /\ sent = {}
    /\ th = [x \in Thread |-> Idle]
    /\ faults = 0

At(x, pc) == th[x].pc = pc
Go(x, to) == th' = [th EXCEPT ![x] = to]
On(x, pc) == Turn(pc, th[x].todo, th[x].c, th[x].out)
(* An error ends the turn of the loop and the stream of a handler. *)
Fail(x) == IF x = 0 THEN Idle ELSE Leave(x, {})
Fault   == faults < MaxFaults /\ faults' = faults + 1
-----------------------------------------------------------------------------
(* The workflow activates a service task node and the local task worker       *)
(* enqueues the activation (enqueue_remote_task, a duplicate is ignored).      *)
Activate(t) ==
    /\ rec[t].st = "Absent" /\ t \notin active /\ landed[t] = {}
    /\ \A u \in active : NodeOf[u] # NodeOf[t]
    /\ \A u \in Task : u < t /\ NodeOf[u] = NodeOf[t] => landed[u] # {}
    /\ active' = active \cup {t}
    /\ UNCHANGED <<store, landed, keys, coord, th, faults>>

Enqueue(t) ==
    /\ rec[t].st = "Absent" /\ t \in active
    /\ rec' = [rec EXCEPT ![t].st = "Ready"]
    /\ UNCHANGED <<late, engine, coord, th, faults>>
-----------------------------------------------------------------------------
(* A bug: a lease recognised by its task alone. *)
HoldsAnyLease(c) == rec[c.t].st = "Leased"

(* validate_remote_lease. *)
Holds(c) == rec[c.t].st = "Leased" /\ ClaimOf(c.t) = c

(* The record after a settled lease.  The lease time is cleared, the holder stays. *)
Settled(t, st) == [rec[t] EXCEPT !.st = st]

(* One fenced mutation of the record of claim c to status st: thread x goes on *)
(* to ok, or to err when the lease is stale, the store is unavailable, or the   *)
(* caller's deadline passes while the proposal may still commit.                *)
Settle(x, c, st, ok, err) ==
    \/ /\ Holds(c)
       /\ rec' = [rec EXCEPT ![c.t] = Settled(c.t, st)]
       /\ Go(x, ok) /\ UNCHANGED <<late, faults>>
    \/ /\ ~Holds(c)
       /\ Go(x, err) /\ UNCHANGED <<rec, late, faults>>
    \/ /\ Fault /\ Holds(c) /\ Go(x, err) /\ UNCHANGED rec
       /\ late' \in {late, late \cup {[t |-> c.t, old |-> rec[c.t], new |-> Settled(c.t, st)]}}

(* A proposal whose caller gave up is applied, or fails its precondition. *)
ApplyLate ==
    \E p \in late :
        /\ late' = late \ {p}
        /\ rec' = IF rec[p.t] = p.old THEN [rec EXCEPT ![p.t] = p.new] ELSE rec
        /\ UNCHANGED <<engine, coord, th, faults>>

(* retry_or_dead_letter: the attempt number of a claim equals its lease version. *)
RetryStatus(c) == IF c.v >= MaxAttempts THEN "DeadLettered" ELSE "Ready"
-----------------------------------------------------------------------------
(* Registration, frames and the end of a stream. *)
Register(w, n) ==
    /\ \A s \in live : owner[s] # w
    /\ \E s \in Session :
        /\ owner[s] = 0 /\ \A r \in Session : r < s => owner[r] # 0
        /\ owner' = [owner EXCEPT ![s] = w] /\ live' = live \cup {s}
    /\ granted' = [granted EXCEPT ![w] = n]
    /\ UNCHANGED <<store, engine, inflight, assign, sent, th, faults>>

(* The stream of session s waits for a frame. *)
Listening(s) == owner[s] # 0 /\ At(s, "idle")

Heartbeat(s) ==
    /\ Listening(s)
    /\ Go(s, IF s \in live THEN Poll ELSE Fail(s))
    /\ UNCHANGED <<store, engine, coord, faults>>

(* A bug: the new credit not compared with what is in flight. *)
GrantBlindly(s, n) ==
    /\ Listening(s)
    /\ granted' = IF s \in live THEN [granted EXCEPT ![owner[s]] = n] ELSE granted
    /\ Go(s, IF s \in live THEN Poll ELSE Fail(s))
    /\ UNCHANGED <<store, engine, owner, live, inflight, assign, sent, faults>>

Grant(s, n) ==
    LET ok == s \in live /\ Cardinality(inflight[owner[s]]) <= n IN
    /\ Listening(s)
    /\ granted' = IF ok THEN [granted EXCEPT ![owner[s]] = n] ELSE granted
    /\ Go(s, IF ok THEN Poll ELSE Fail(s))
    /\ UNCHANGED <<store, engine, owner, live, inflight, assign, sent, faults>>

(* handle_acknowledgement up to its call of the engine or the store.  The token *)
(* names the claim; an assignment is looked up by task and session.             *)
Acknowledge(s, c, status) ==
    /\ Listening(s) /\ c \in sent /\ c.s = s
    /\ LET known == s \in live /\ assign[<<c.t, s>>] = c.v IN
       Go(s, IF ~known THEN Fail(s)
             ELSE IF status = "Accepted" THEN Poll
             ELSE IF status = "Completed" THEN Turn("complete", {}, c, {})
             ELSE IF status = "Fatal" \/ c.v >= MaxAttempts THEN Turn("dead", {}, c, {})
             ELSE Turn("failed", {}, c, {}))
    /\ UNCHANGED <<store, engine, coord, faults>>

Close(s) ==
    /\ Listening(s)
    /\ Go(s, Fail(s))
    /\ UNCHANGED <<store, engine, coord, faults>>
-----------------------------------------------------------------------------
(* RemoteTaskCompletionPort::complete: CompleteServiceTask for the node of the  *)
(* task, whose idempotency key is the assignment, that is the task and session. *)
(* The engine accepts it when a token waits at the node.                        *)
Complete(x) ==
    LET c     == th[x].c
        key   == <<c.t, c.s>>
        there == {a \in active : NodeOf[a] = NodeOf[c.t]}
        next  == On(x, "record")
    IN
    /\ At(x, "complete")
    /\ \/ /\ key \in keys
          /\ Go(x, next) /\ UNCHANGED <<engine, faults>>
       \/ /\ key \notin keys /\ there = {}
          /\ Go(x, Fail(x)) /\ UNCHANGED <<engine, faults>>
       \/ /\ key \notin keys
          /\ \E a \in there :
                /\ active' = active \ {a}
                /\ landed' = [landed EXCEPT ![a] = @ \cup {c.t}]
          /\ keys' = keys \cup {key}
          /\ \/ Go(x, next) /\ UNCHANGED faults
             \/ Go(x, Fail(x)) /\ Fault
       \/ Fault /\ Go(x, Fail(x)) /\ UNCHANGED engine
    /\ UNCHANGED <<store, coord>>

Record(x) ==
    /\ At(x, "record")
    /\ Settle(x, th[x].c, "Completed", On(x, "finish"), Fail(x))
    /\ UNCHANGED <<engine, coord>>

Failed(x) ==
    /\ At(x, "failed") \/ At(x, "dead")
    /\ Settle(x, th[x].c, IF At(x, "dead") THEN "DeadLettered" ELSE "Ready",
              On(x, "finish"), Fail(x))
    /\ UNCHANGED <<engine, coord>>

(* finish_assignment. *)
Finish(x) ==
    LET c  == th[x].c
        ok == c.t \in inflight[owner[c.s]]
    IN
    /\ At(x, "finish")
    /\ inflight' = [inflight EXCEPT ![owner[c.s]] = @ \ {c.t}]
    /\ assign' = IF ok THEN [assign EXCEPT ![<<c.t, c.s>>] = 0] ELSE assign
    /\ Go(x, IF ok THEN Poll ELSE Fail(x))
    /\ UNCHANGED <<store, engine, owner, live, granted, sent, faults>>
-----------------------------------------------------------------------------
(* dispatch_once: read the available tasks, then for each of them reserve, *)
(* claim and send.                                                         *)
Scan(S) == IF S = {} THEN Idle ELSE Turn("scan", S, NoClaim, {})

ReadReady(x) ==
    /\ At(x, "poll")
    /\ \E S \in SUBSET Ready : Go(x, Scan(S))
    /\ UNCHANGED <<store, engine, coord, faults>>

Candidate(t) == {w \in Capable[t] : \E s \in live : owner[s] = w}

(* CreditController::reserve refuses a worker without credit. *)
Available(w) == Cardinality(inflight[w]) < granted[w]

(* reserve_assignment: workers in order; one that already holds the task is an *)
(* error, one without credit is passed over.                                   *)
Reserve(x) ==
    /\ At(x, "scan")
    /\ \E t \in th[x].todo :
        LET stop == {w \in Candidate(t) : t \in inflight[w] \/ Available(w)}
            w    == Min(stop)
        IN
        IF stop = {} THEN
            /\ Go(x, Scan(th[x].todo \ {t}))
            /\ UNCHANGED inflight
        ELSE IF t \in inflight[w] THEN
            /\ Go(x, Fail(x))
            /\ UNCHANGED inflight
        ELSE
            /\ inflight' = [inflight EXCEPT ![w] = @ \cup {t}]
            /\ \E s \in live :
                /\ owner[s] = w
                /\ Go(x, Turn("claim", th[x].todo \ {t}, [t |-> t, s |-> s, v |-> 0], {}))
    /\ UNCHANGED <<store, engine, owner, live, granted, assign, sent, faults>>

(* cancel_reservation, keyed by worker and task. *)
Cancel(c) == [inflight EXCEPT ![owner[c.s]] = @ \ {c.t}]

(* prepare_remote_task_claim: nothing to claim unless the record is Ready and, *)
(* after a retry, available; the reservation is then cancelled.  The token may *)
(* not be issued.                                                              *)
PrepareClaim(x) ==
    LET c == th[x].c IN
    /\ At(x, "claim")
    /\ \/ /\ c.t \in Ready
          /\ Go(x, Turn("propose", th[x].todo,
                        [t |-> c.t, s |-> c.s, v |-> rec[c.t].version + 1], {}))
          /\ UNCHANGED <<inflight, faults>>
       \/ /\ c.t \notin Ready \/ rec[c.t].version > 0
          /\ inflight' = Cancel(c)
          /\ Go(x, IF c.t \in inflight[owner[c.s]] THEN Scan(th[x].todo) ELSE Fail(x))
          /\ UNCHANGED faults
       \/ Fault /\ Go(x, Fail(x)) /\ UNCHANGED inflight
    /\ UNCHANGED <<store, engine, owner, live, granted, assign, sent>>

Granted(c) == [st |-> "Leased", attempts |-> rec[c.t].attempts + 1, version |-> c.v, session |-> c.s]

(* claim_remote_task after the proposal.  A rival claim of the same lease *)
(* version has used the idempotency scope: the answer is then Rejected.    *)
ProposeClaim(x) ==
    LET c == th[x].c IN
    /\ At(x, "propose")
    /\ \/ /\ rec[c.t].version + 1 = c.v
          /\ rec' = [rec EXCEPT ![c.t] = Granted(c)]
          /\ Go(x, On(x, "send")) /\ UNCHANGED <<late, faults>>
       \/ /\ rec[c.t].version + 1 # c.v
          /\ Go(x, Fail(x)) /\ UNCHANGED <<rec, late, faults>>
       \/ /\ Fault /\ Go(x, Fail(x)) /\ UNCHANGED rec
          /\ rec[c.t].version + 1 = c.v
          /\ late' \in {late, late \cup {[t |-> c.t, old |-> rec[c.t], new |-> Granted(c)]}}
    /\ UNCHANGED <<engine, coord>>

(* The session may be gone, and its channel may be full or closed. *)
Send(x) ==
    LET c == th[x].c IN
    /\ At(x, "send")
    /\ \/ /\ c.s \notin live
          /\ Go(x, Fail(x)) /\ UNCHANGED <<assign, sent>>
       \/ /\ c.s \in live
          /\ assign' = [assign EXCEPT ![<<c.t, c.s>>] = c.v]
          /\ \/ /\ sent' = sent \cup {c}
                /\ Go(x, Scan(th[x].todo))
             \/ /\ Go(x, On(x, "unsent")) /\ UNCHANGED sent
    /\ UNCHANGED <<store, engine, owner, live, credits, faults>>

Unsent(x) ==
    /\ At(x, "unsent")
    /\ Settle(x, th[x].c, RetryStatus(th[x].c), On(x, "unassign"), Fail(x))
    /\ UNCHANGED <<engine, coord>>

(* remove_assignment. *)
Remove(c) ==
    LET a == <<c.t, c.s>> IN
    /\ assign' = [assign EXCEPT ![a] = 0]
    /\ inflight' = IF assign[a] # 0 THEN Cancel(c) ELSE inflight

Unassign(x) ==
    /\ At(x, "unassign")
    /\ Remove(th[x].c)
    /\ Go(x, Fail(x))
    /\ UNCHANGED <<store, engine, owner, live, granted, sent, faults>>
-----------------------------------------------------------------------------
(* A bug: only the leases this coordinator remembers are reaped. *)
ReapKnown(S) ==
    /\ At(0, "idle")
    /\ S \subseteq {t \in Leased : assign[<<t, rec[t].session>>] # 0}
    /\ Go(0, Turn("reap", {ClaimOf(t) : t \in S}, NoClaim, {}))
    /\ UNCHANGED <<store, engine, coord, faults>>

(* reap_once reads the leases that have expired: S of them. *)
Reap(S) ==
    /\ At(0, "idle")
    /\ S \subseteq Leased
    /\ Go(0, Turn("reap", {ClaimOf(t) : t \in S}, NoClaim, {}))
    /\ UNCHANGED <<store, engine, coord, faults>>

ReapOne ==
    /\ At(0, "reap")
    /\ \E c \in th[0].todo :
        Settle(0, c, RetryStatus(c), Turn("forget", th[0].todo \ {c}, c, {}), Idle)
    /\ UNCHANGED <<engine, coord>>

Forget ==
    /\ At(0, "forget")
    /\ Remove(th[0].c)
    /\ Go(0, Turn("reap", th[0].todo, NoClaim, {}))
    /\ UNCHANGED <<store, engine, owner, live, granted, sent, faults>>

(* The sessions to disconnect, one after the other, then the loop dispatches. *)
Overdue(S) ==
    IF S = {} THEN Poll
    ELSE Leave(Min(S), S \ {Min(S)})

(* After the leases: the sessions whose heartbeat is overdue are collected. *)
ReapEnds ==
    /\ At(0, "reap") /\ th[0].todo = {}
    /\ \E S \in SUBSET live : Go(0, Overdue(S))
    /\ UNCHANGED <<store, engine, coord, faults>>

(* disconnect_session under the lock, then the durable retries one by one, *)
(* whose errors are ignored.  The stream then ends, the loop goes on.      *)
Dropped(x, C) ==
    IF C # {} THEN Turn("retry", C, NoClaim, th[x].out)
    ELSE IF x = 0 THEN Overdue(th[x].out) ELSE Gone

Drop(x) ==
    LET s == th[x].c.s
        w == owner[s]
    IN
    /\ At(x, "drop")
    /\ live' = live \ {s}
    /\ granted' = IF s \in live THEN [granted EXCEPT ![w] = 0] ELSE granted
    /\ inflight' = IF s \in live THEN [inflight EXCEPT ![w] = {}] ELSE inflight
    /\ assign' = [a \in DOMAIN assign |-> IF a[2] = s THEN 0 ELSE assign[a]]
    /\ Go(x, Dropped(x, {[t |-> a[1], s |-> s, v |-> assign[a]] :
                            a \in {b \in DOMAIN assign : b[2] = s /\ assign[b] # 0}}))
    /\ UNCHANGED <<store, engine, owner, sent, faults>>

RetryDropped(x) ==
    /\ At(x, "retry")
    /\ \E c \in th[x].todo :
        LET next == Dropped(x, th[x].todo \ {c})
        IN Settle(x, c, RetryStatus(c), next, next)
    /\ UNCHANGED <<engine, coord>>

(* The coordinator's process ends, or leadership moves to another node. *)
Crash ==
    /\ Fault
    /\ live' = {} /\ assign' = [a \in DOMAIN assign |-> 0]
    /\ granted' = [w \in Worker |-> 0] /\ inflight' = [w \in Worker |-> {}]
    /\ th' = [x \in Thread |-> IF x \in Session /\ owner[x] # 0
                               THEN Gone ELSE Idle]
    /\ UNCHANGED <<store, engine, owner, sent>>

ThreadStep(x) ==
    \/ Complete(x) \/ Record(x) \/ Failed(x) \/ Finish(x)
    \/ ReadReady(x) \/ Reserve(x) \/ PrepareClaim(x) \/ ProposeClaim(x)
    \/ Send(x) \/ Unsent(x) \/ Unassign(x)
    \/ Drop(x) \/ RetryDropped(x)

LoopStep ==
    \/ \E S \in SUBSET Task : Reap(S)
    \/ ReapOne \/ Forget \/ ReapEnds
    \/ ThreadStep(0)

StreamStep(s) ==
    \/ Heartbeat(s) \/ Close(s)
    \/ \E n \in Credit : Grant(s, n)
    \/ \E c \in sent, status \in {"Accepted", "Completed", "Retryable", "Fatal"} :
          Acknowledge(s, c, status)
    \/ ThreadStep(s)

Next ==
    \/ \E t \in Task : Activate(t) \/ Enqueue(t)
    \/ \E w \in Worker, n \in Credit : Register(w, n)
    \/ LoopStep
    \/ \E s \in Session : StreamStep(s)
    \/ ApplyLate
    \/ Crash

Spec == Init /\ [][Next]_vars

(* The leader's loop keeps running, and every lease expires in the end: the *)
(* loop does not for ever miss all of them.                                 *)
FairSpec == Spec /\ WF_vars(LoopStep) /\ SF_vars(Reap(Leased))
-----------------------------------------------------------------------------
TypeOK ==
    /\ rec \in [Task -> [st : {"Absent", "Ready", "Leased", "Completed", "DeadLettered"},
                         attempts : Nat, version : Nat, session : Thread]]
    /\ \A t \in Task : rec[t].attempts = rec[t].version
    /\ \A p \in late : p.t \in Task
    /\ active \subseteq Task /\ landed \in [Task -> SUBSET Task] /\ keys \subseteq Task \X Session
    /\ owner \in [Session -> Worker \cup {0}] /\ live \subseteq {s \in Session : owner[s] # 0}
    /\ granted \in [Worker -> Credit \cup {0}] /\ inflight \in [Worker -> SUBSET Task]
    /\ assign \in [Task \X Session -> Nat] /\ sent \subseteq Claims
    /\ \A x \in Thread : th[x].c \in Claims
    /\ faults \in 0..MaxFaults

(* CreditController::invariant_holds at every moment: no worker has more      *)
(* reservations than the credit it advertised last, whichever threads         *)
(* reserve, cancel, grant and disconnect in between.                          *)
CreditHolds == \A w \in Worker : Cardinality(inflight[w]) <= granted[w]

(* A record says Completed only if the engine accepted the completion command *)
(* of the very session that holds the lease in the record: handle_            *)
(* acknowledgement runs the command first, and an acknowledgement of a lease  *)
(* that was reaped or handed to another session never completes the record.   *)
CompletedByItsHolder ==
    \A t \in Task : rec[t].st = "Completed" => <<t, rec[t].session>> \in keys

(* A task is delivered to a worker at most MaxAttempts times in all, over     *)
(* retries, expiries, disconnects and restarts of the coordinator.            *)
DeliveriesBounded == \A t \in Task : Cardinality({c \in sent : c.t = t}) <= MaxAttempts

(* No two sessions are ever handed the same lease version of a task: what a   *)
(* claim fences is unique, even when the proposal of a claim whose caller     *)
(* gave up is applied late.                                                   *)
OneHolderPerLease == \A c, d \in sent : c.t = d.t /\ c.v = d.v => c = d

(* dispatch_once hands out work only against credit: what a registered        *)
(* session is working on is reserved for its worker. The code does not        *)
(* establish it: see the deviations in the README.                            *)
AssignedIsReserved ==
    \A a \in DOMAIN assign : assign[a] # 0 => a[1] \in inflight[owner[a[2]]]

(* A reservation is backed by an assignment or by a dispatch that is still    *)
(* deciding: "Releases a reservation when the durable claim could not be      *)
(* committed" (cancel_reservation).                                           *)
ReservationsAreBacked ==
    \A w \in Worker : \A t \in inflight[w] :
        \/ \E s \in live : owner[s] = w /\ assign[<<t, s>>] # 0
        \/ \E x \in Thread : th[x].pc \in {"claim", "propose", "send"} /\ th[x].c.t = t
                             /\ owner[th[x].c.s] = w

(* The workflow accepts the completion of a task only while the session that  *)
(* acknowledges it holds the lease: "A late or substituted ACK fails because   *)
(* the stored token digest, lease version, tenant, task, and session must      *)
(* match" (docs/architecture/service-workflows.md). The code does not          *)
(* establish it: see the deviations in the README.                             *)
LateAckHasNoEffect ==
    [][\A k \in keys' \ keys : k[1] \in Leased /\ rec[k[1]].session = k[2]]_vars

(* The completion of one task completes one activation at most: a retried or  *)
(* repeated completion of a task changes the workflow no second time. The     *)
(* code does not establish it: see the deviations in the README.              *)
CompletionIsIdempotent ==
    \A t \in Task : Cardinality({a \in Task : t \in landed[a]}) <= 1

(* A remote task is completed by the holder of its lease, delivered no more   *)
(* often than it may be attempted, and no lease version is handed out twice,  *)
(* over retries, reaping, disconnects, late proposals and restarts            *)
(* (handle_acknowledgement, claim_and_send, reap_once).                       *)
LeasesFenceWorkers ==
    TypeOK /\ CompletedByItsHolder /\ DeliveriesBounded /\ OneHolderPerLease
=============================================================================
