--------------------------- MODULE BoundaryRuntime ---------------------------
(***************************************************************************)
(* Boundary events: the leader-only loop that projects the outbox to       *)
(* subscriptions, fires due timers and correlates signals, over the        *)
(* boundary column families of its node's RocksDB.                         *)
(*                                                                         *)
(* The engine is abstracted to one instance: an activity is entered (its   *)
(* boundary events are armed) and left (they are disarmed), and a trigger  *)
(* command is accepted when its boundary event is armed, whichever arming  *)
(* that is.  Boundary state is local to a node: it is not replicated, but  *)
(* an installed snapshot replaces it by the sender's.                      *)
(***************************************************************************)
EXTENDS Naturals, Sequences, FiniteSets, Functions

CONSTANTS
    Node,
    Boundary,           \* boundary_event_id
    Attached,           \* Attached[b]: the activity b is attached to
    Interrupting,       \* the boundary events with cancel_activity
    Firings,            \* Firings[b]: firings of timer b, 0 for a message
    Delay,              \* from arming to due, and the interval of a cycle
    Signal,
    Matches,            \* Matches[s]: the boundary events signal s refers to
    ProjectionBatch,    \* projection_batch_size
    LeaseTime, RetryDelay, MaxDispatchAttempts,
    MaxTime, MaxOutbox,
    MaxFailures         \* crashes and changes of leader

ASSUME BoundaryConstants ==
    /\ Interrupting \subseteq Boundary
    /\ IsFiniteSet(Boundary)
    /\ Firings \in [Boundary -> Nat] /\ DOMAIN Attached = Boundary
    /\ \A s \in Signal : Matches[s] \subseteq {b \in Boundary : Firings[b] = 0}
    /\ Signal \cap Nat = {}
    /\ {Delay, ProjectionBatch, LeaseTime, RetryDelay, MaxDispatchAttempts, MaxTime} \subseteq Nat \ {0}

VARIABLES
    now,
    outbox,     \* committed events: armed and disarmed
    fired,      \* fired[id]: the arming and time at which command id took effect
    store,      \* store[n]: the boundary column families of node n
    snap,       \* the latest snapshot of them
    loop,       \* loop[n]: where the worker of n is
    leader, failures

engine  == <<outbox, fired>>
cluster == <<leader, failures>>
vars == <<now, engine, store, snap, loop, cluster>>

(* MaxTime stands for every later time. *)
Capped(t) == IF t > MaxTime THEN MaxTime ELSE t

Activity == {Attached[b] : b \in Boundary}
Timer    == {b \in Boundary : Firings[b] > 0}

Armed(b, due) == [kind |-> "armed", boundary |-> b, due |-> due]
Disarmed(a)   == [kind |-> "disarmed", activity |-> a]
Concerns(e, b) == IF e.kind = "armed" THEN e.boundary = b ELSE e.activity = Attached[b]

(* The cursor of the event that arms b, among the first k; 0 if not armed. *)
ArmedAt(b, k) ==
    LET last == {c \in 1..k : Concerns(outbox[c], b)
                              /\ \A d \in c + 1 .. k : ~Concerns(outbox[d], b)}
    IN IF \E c \in last : outbox[c].kind = "armed" THEN CHOOSE c \in last : TRUE ELSE 0
Current(b) == ArmedAt(b, Len(outbox))
-----------------------------------------------------------------------------
(* Subscription records.  left = 0: no schedule (any more). *)
Subscription(b, cursor) ==
    [arm |-> cursor, due |-> outbox[cursor].due, left |-> Firings[b], gen |-> 0, attempts |-> 0,
     avail |-> outbox[cursor].due, lease |-> 0, version |-> 0, held |-> FALSE, dead |-> FALSE]

Without(f, S) == [x \in DOMAIN f \ S |-> f[x]]
With(f, x, v) == [y \in DOMAIN f \cup {x} |-> IF y = x THEN v ELSE f[y]]
IndexOf(f, S) == {<<f[x].avail, x>> : x \in {y \in S : f[y].left > 0}}

EmptyStore == [ckpt |-> 0, sub |-> <<>>, timers |-> {}, sig |-> <<>>, signals |-> {}]

(* The records that the event at cursor c puts and deletes.  What to delete   *)
(* is looked up in the database db, not in the write batch it is added to.    *)
Puts(c) == IF outbox[c].kind = "armed" THEN {outbox[c].boundary} ELSE {}

(* A bug: disarming forgotten. *)
DeletesReplaced(db, c) == Puts(c) \cap DOMAIN db.sub

Deletes(db, c) ==
    {b \in DOMAIN db.sub : IF outbox[c].kind = "armed" THEN b = outbox[c].boundary
                           ELSE Attached[b] = outbox[c].activity}

(* The same of the due-time index. *)
IndexPuts(c)        == {<<outbox[c].due, b>> : b \in Puts(c) \cap Timer}
IndexDeletes(db, c) == IndexOf(db.sub, Deletes(db, c))

(* apply_projection of the events at the cursors cs: of the operations of a   *)
(* write batch on one key, the last decides; a put comes after the deletion   *)
(* of what it replaces.                                                       *)
Writes(db, cs, b)      == {c \in cs : b \in Puts(c) \cup Deletes(db, c)}
IndexWrites(db, cs, x) == {c \in cs : x \in IndexPuts(c) \cup IndexDeletes(db, c)}
LastOf(S, c)           == c \in S /\ \A d \in S : d <= c

ProjectedSubs(db, cs) ==
    LET put(b) == {c \in cs : b \in Puts(c) /\ LastOf(Writes(db, cs, b), c)}
        old == {b \in DOMAIN db.sub : Writes(db, cs, b) = {}}
        new == {b \in Boundary : put(b) # {}}
    IN [b \in old \cup new |-> IF b \in old THEN db.sub[b] ELSE Subscription(b, CHOOSE c \in put(b) : TRUE)]

ProjectedTimers(db, cs) ==
    {x \in db.timers : IndexWrites(db, cs, x) = {}}
        \cup UNION {{x \in IndexPuts(c) : LastOf(IndexWrites(db, cs, x), c)} : c \in cs}

Projected(db, from, upto) ==
    [db EXCEPT !.ckpt = upto, !.sub = ProjectedSubs(db, from..upto),
               !.timers = ProjectedTimers(db, from..upto)]

(* claim_due_timers. *)
Due(db)    == {b \in DOMAIN db.sub : \E t \in 0..now : <<t, b>> \in db.timers}
BadIndex(db) ==
    \E x \in db.timers : x[1] <= now /\ ( \/ x[2] \notin DOMAIN db.sub
                                          \/ db.sub[x[2]].left = 0
                                          \/ db.sub[x[2]].avail # x[1] )


Claimable(r) == ~r.dead /\ r.lease <= now
Claim(r) == [r EXCEPT !.attempts = @ + 1, !.version = @ + 1, !.lease = Capped(now + LeaseTime), !.held = TRUE]
ClaimAll(f, S) == [x \in DOMAIN f |-> IF x \in S THEN Claim(f[x]) ELSE f[x]]

(* A bug: a command identity for each attempt. *)
TimerClaimPerAttempt(b, r) ==
    [kind |-> "timer", key |-> b, boundary |-> b, id |-> <<r.arm, r.attempts>>,
     attempts |-> r.attempts, version |-> r.version]

(* Claims of timers: their command identity is the arming and the generation. *)
TimerClaim(b, r) == [kind |-> "timer", key |-> b, boundary |-> b, id |-> <<r.arm, r.gen>>,
                     attempts |-> r.attempts, version |-> r.version]

(* Claims of signals carry the subscription that matched, if any did. *)
Matching(db, s) == Matches[s] \cap DOMAIN db.sub
SignalClaim(db, s, r) ==
    [kind |-> "signal", key |-> s, boundary |-> Matching(db, s),
     id |-> <<s, Matching(db, s)>>, attempts |-> r.attempts, version |-> r.version]
-----------------------------------------------------------------------------
Idle == [pc |-> "idle"]
At(pc, claims) == [pc |-> pc, claims |-> claims, at |-> now]
Become(n, r) == loop' = [loop EXCEPT ![n] = r]
Proceed(n, pc, claims) == Become(n, [pc |-> pc, claims |-> claims, at |-> loop[n].at])
Abort(n) == Become(n, Idle) /\ UNCHANGED store

Init ==
    /\ now = 1
    /\ outbox = <<>>
    /\ fired = <<>>
    /\ store = [n \in Node |-> EmptyStore]
    /\ snap = EmptyStore
    /\ loop = [n \in Node |-> Idle]
    /\ leader \in Node
    /\ failures = 0

Tick ==
    /\ now < MaxTime
    /\ now' = now + 1
    /\ UNCHANGED <<engine, store, snap, loop, cluster>>

(* The workflow enters an activity, or leaves it by another command.  The     *)
(* definition lists the boundary events of the activity in some order.        *)
Enter(a) ==
    LET S == {b \in Boundary : Attached[b] = a} IN
    /\ \A b \in Boundary : Attached[b] = a => Current(b) = 0
    /\ Len(outbox) + Cardinality(S) <= MaxOutbox
    /\ \E bs \in Bijection(1..Cardinality(S), S) :
          outbox' = outbox \o [i \in DOMAIN bs |-> Armed(bs[i], Capped(now + Delay))]
    /\ UNCHANGED <<now, fired, store, snap, loop, cluster>>

Leave(a) ==
    /\ \E b \in Boundary : Attached[b] = a /\ Current(b) > 0
    /\ Len(outbox) < MaxOutbox
    /\ outbox' = Append(outbox, Disarmed(a))
    /\ UNCHANGED <<now, fired, store, snap, loop, cluster>>

(* A transport persists a signal in the column families of node n. *)
EnqueueSignal(n, s) ==
    /\ s \notin DOMAIN store[n].sig
    /\ store' = [store EXCEPT
          ![n].sig = With(@, s, [attempts |-> 0, avail |-> 0, lease |-> 0, version |-> 0,
                                 held |-> FALSE, dead |-> FALSE, done |-> FALSE]),
          ![n].signals = @ \cup {<<0, s>>}]
    /\ UNCHANGED <<now, engine, snap, loop, cluster>>
-----------------------------------------------------------------------------
(* A turn of the loop: project_once for what n has applied of the outbox.     *)
Project(n) ==
    /\ loop[n].pc = "idle"
    /\ leader = n
    /\ \E upto \in store[n].ckpt .. Len(outbox) :
          /\ upto <= store[n].ckpt + ProjectionBatch
          /\ store' = IF upto = store[n].ckpt THEN store
                      ELSE [store EXCEPT ![n] = Projected(@, @.ckpt + 1, upto)]
    /\ Become(n, At("claim_timers", {}))
    /\ UNCHANGED <<now, engine, snap, cluster>>

ClaimTimers(n) ==
    LET db == store[n]
        S  == {b \in Due(db) : Claimable(db.sub[b])}
        f  == ClaimAll(db.sub, S)
    IN /\ loop[n].pc = "claim_timers"
       /\ IF BadIndex(db) THEN Abort(n)
          ELSE /\ store' = [store EXCEPT ![n].sub = f]
               /\ Become(n, At("timers", {TimerClaim(b, f[b]) : b \in S}))
       /\ UNCHANGED <<now, engine, snap, cluster>>

(* Correlation: one ambiguous signal fails the whole claim. *)
ClaimSignals(n) ==
    LET db == store[n]
        S  == {s \in DOMAIN db.sig : <<db.sig[s].avail, s>> \in db.signals
                                     /\ db.sig[s].avail <= now
                                     /\ ~db.sig[s].done /\ Claimable(db.sig[s])}
        f  == ClaimAll(db.sig, S)
    IN /\ loop[n].pc = "timers"
       /\ loop[n].claims = {}
       /\ IF \E s \in S : Cardinality(Matching(db, s)) > 1 THEN Abort(n)
          ELSE /\ store' = [store EXCEPT ![n].sig = f]
               /\ Become(n, At("signals", {SignalClaim(db, s, f[s]) : s \in S}))
       /\ UNCHANGED <<now, engine, snap, cluster>>

EndTurn(n) ==
    /\ loop[n].pc = "signals"
    /\ loop[n].claims = {}
    /\ Become(n, Idle)
    /\ UNCHANGED <<now, engine, store, snap, cluster>>

(* The trigger command with identity c.id reaches the engine.  An identity    *)
(* that has taken effect is answered; otherwise the boundary event must be    *)
(* armed.  The caller learns of success (ok) or not.                          *)
Effect(b, id) ==
    /\ fired' = With(fired, id, [boundary |-> b, arm |-> Current(b), at |-> now])
    /\ outbox' = IF b \in Interrupting THEN Append(outbox, Disarmed(Attached[b])) ELSE outbox

Trigger(n, c, ok) ==
    \/ /\ c.id \in DOMAIN fired
       /\ UNCHANGED engine
    \/ /\ c.id \notin DOMAIN fired
       /\ leader = n
       /\ \E b \in IF c.kind = "timer" THEN {c.boundary} ELSE c.boundary :
             /\ Current(b) > 0
             /\ Effect(b, c.id)
    \/ /\ ~ok
       /\ UNCHANGED engine

Dispatch(n, c) ==
    /\ loop[n].pc \in {"timers", "signals"}
    /\ c \in loop[n].claims
    /\ \E ok \in BOOLEAN :
          /\ Trigger(n, c, ok)
          /\ Proceed(n, IF ok THEN "complete" ELSE "fail", <<c, loop[n].pc, loop[n].claims \ {c}>>)
    /\ UNCHANGED <<now, store, snap, cluster>>

InHand(n)  == loop[n].claims[1]
Onwards(n) == Proceed(n, loop[n].claims[2], loop[n].claims[3])
Family(n)  == IF InHand(n).kind = "timer" THEN store[n].sub ELSE store[n].sig

(* validate_boundary_timer_claim and its counterpart for signals. *)
Holds(n) ==
    LET c == InHand(n) IN
    /\ c.key \in DOMAIN Family(n)
    /\ Family(n)[c.key].version = c.version
    /\ Family(n)[c.key].held
    /\ c.kind = "timer" => Family(n)[c.key].gen = c.id[2]

(* timer_completion and complete_timer: the record after a firing of b. *)
Rearmed(b, r) ==
    IF b \in Interrupting \/ r.left = 1
    THEN [r EXCEPT !.left = 0, !.lease = 0, !.held = FALSE]
    ELSE [r EXCEPT !.left = @ - 1, !.due = Capped(@ + Delay), !.avail = Capped(r.due + Delay), !.gen = @ + 1,
                   !.attempts = 0, !.lease = 0, !.held = FALSE]

CompleteTimer(n) ==
    LET c == InHand(n)  r == store[n].sub[c.key]  new == Rearmed(c.key, r) IN
    /\ loop[n].pc = "complete" /\ InHand(n).kind = "timer"
    /\ IF ~Holds(n) THEN Abort(n)
       ELSE /\ store' = [store EXCEPT
                   ![n].sub = With(@, c.key, new),
                   ![n].timers = (@ \ {<<r.avail, c.key>>})
                                   \cup (IF new.left > 0 THEN {<<new.avail, c.key>>} ELSE {})]
            /\ Onwards(n)
    /\ UNCHANGED <<now, engine, snap, cluster>>

(* record_timer_failure and fail_timer. *)
FailTimer(n) ==
    LET c == InHand(n)  r == store[n].sub[c.key]
        dead == c.attempts >= MaxDispatchAttempts
        retry == Capped(loop[n].at + RetryDelay)
    IN /\ loop[n].pc = "fail" /\ InHand(n).kind = "timer"
       /\ IF ~Holds(n) THEN Abort(n)
          ELSE /\ store' = [store EXCEPT
                      ![n].sub = With(@, c.key, [r EXCEPT !.avail = retry, !.lease = 0,
                                                          !.held = FALSE, !.dead = dead]),
                      ![n].timers = (@ \ {<<r.avail, c.key>>})
                                      \cup (IF dead THEN {} ELSE {<<retry, c.key>>})]
               /\ Onwards(n)
       /\ UNCHANGED <<now, engine, snap, cluster>>

(* complete_correlation, or record_correlation_failure and fail_correlation.  *)
SettleSignal(n) ==
    LET c == InHand(n)  r == store[n].sig[c.key]
        done  == loop[n].pc = "complete"
        dead  == ~done /\ c.attempts >= MaxDispatchAttempts
        retry == IF done THEN 0 ELSE Capped(loop[n].at + RetryDelay)
    IN /\ loop[n].pc \in {"complete", "fail"} /\ InHand(n).kind = "signal"
       /\ IF ~Holds(n) THEN Abort(n)
          ELSE /\ store' = [store EXCEPT
                      ![n].sig = With(@, c.key, [r EXCEPT !.avail = retry, !.lease = 0,
                                                 !.held = FALSE, !.done = done, !.dead = dead]),
                      ![n].signals = (@ \ {<<r.avail, c.key>>})
                                       \cup (IF done \/ dead THEN {} ELSE {<<retry, c.key>>})]
               /\ Onwards(n)
       /\ UNCHANGED <<now, engine, snap, cluster>>
-----------------------------------------------------------------------------
Failure == failures < MaxFailures /\ failures' = failures + 1

Elect(n) ==
    /\ n # leader
    /\ Failure
    /\ leader' = n
    /\ UNCHANGED <<now, engine, store, snap, loop>>

(* A crash and restart: the store stays, claims in hand are forgotten. *)
Crash(n) ==
    /\ loop[n].pc # "idle"
    /\ Failure
    /\ Become(n, Idle)
    /\ UNCHANGED <<now, engine, store, snap, leader>>

BuildSnapshot(n) ==
    /\ store[n] # snap
    /\ snap' = store[n]
    /\ UNCHANGED <<now, engine, store, loop, cluster>>

InstallSnapshot(n) ==
    /\ n # leader
    /\ store[n] # snap
    /\ store' = [store EXCEPT ![n] = snap]
    /\ UNCHANGED <<now, engine, snap, loop, cluster>>

LoopStep(n) ==
    \/ Project(n) \/ ClaimTimers(n) \/ ClaimSignals(n) \/ EndTurn(n)
    \/ loop[n].pc \in {"timers", "signals"} /\ \E c \in loop[n].claims : Dispatch(n, c)
    \/ loop[n].pc \in {"complete", "fail"} /\ (CompleteTimer(n) \/ FailTimer(n) \/ SettleSignal(n))

Next ==
    \/ Tick
    \/ \E a \in Activity : Enter(a) \/ Leave(a)
    \/ \E n \in Node :
          \/ \E s \in Signal : EnqueueSignal(n, s)
          \/ LoopStep(n)
          \/ Elect(n) \/ Crash(n) \/ BuildSnapshot(n) \/ InstallSnapshot(n)

Spec == Init /\ [][Next]_vars

(* Time passes, the loops turn, and a leader in time projects what it applied.*)
FairSpec ==
    /\ Spec
    /\ WF_vars(Tick)
    /\ \A n \in Node : /\ WF_vars(LoopStep(n))
                       /\ SF_vars(Project(n) /\ store'[n].ckpt > store[n].ckpt)
-----------------------------------------------------------------------------
(* project_once in cursor order: the subscriptions of a node are those that   *)
(* the outbox up to its checkpoint leaves armed, each from its last arming.   *)
ProjectionIsReplay ==
    \A n \in Node :
        LET db == store[n] IN
        /\ DOMAIN db.sub = {b \in Boundary : ArmedAt(b, db.ckpt) > 0}
        /\ \A b \in DOMAIN db.sub : db.sub[b].arm = ArmedAt(b, db.ckpt)

(* The due-time index holds exactly the records that wait for their time, so  *)
(* that no timer is forgotten and claim_due_timers meets no entry it rejects. *)
IndexesAreExact ==
    \A n \in Node :
        LET db == store[n] IN
        /\ db.timers = {<<db.sub[b].avail, b>> :
                           b \in {x \in DOMAIN db.sub : db.sub[x].left > 0 /\ ~db.sub[x].dead}}
        /\ db.signals = {<<db.sig[s].avail, s>> :
                           s \in {x \in DOMAIN db.sig : ~db.sig[x].done /\ ~db.sig[x].dead}}

TimerFirings == {id \in DOMAIN fired : fired[id].boundary \in Timer}

(* Whatever crashes, timeouts and changes of leader, an arming of a timer     *)
(* fires no more often than configured (once, if it interrupts its activity), *)
(* and a generation fires only after every earlier one of the timer.          *)
FiringsAreCounted ==
    \A id \in TimerFirings :
        LET b == fired[id].boundary IN
        /\ id[2] < Firings[b]
        /\ b \in Interrupting => id[2] = 0
        /\ \A g \in 0..id[2] - 1 : \E a \in 1..Len(outbox) :
              <<a, g>> \in TimerFirings /\ fired[<<a, g>>].boundary = b

(* The same with the generations of one arming.  A claim is validated by the  *)
(* version of its lease and the generation, not by the arming, so that the    *)
(* code does not establish it: see the deviations in the README.              *)
ArmingsFireInTurn ==
    \A id \in TimerFirings : \A g \in 0..id[2] : <<id[1], g>> \in TimerFirings

(* A generation never fires before its own due time. *)
NeverBeforeItsTime ==
    \A id \in TimerFirings : fired[id].at >= Capped(outbox[id[1]].due + id[2] * Delay)

(* A due timer triggers exactly its configured transition, never before: the  *)
(* arming that a timer command takes effect on is one that is due. The code   *)
(* does not establish it: see the deviations in the README.                   *)
FiresWhenDue ==
    \A id \in TimerFirings : fired[id].at >= outbox[fired[id].arm].due

(* A signal marked completed has taken effect. *)
CompletedSignalFired ==
    \A n \in Node : \A s \in DOMAIN store[n].sig :
        store[n].sig[s].done => \E id \in DOMAIN fired : id[1] = s

Settled(n, s) == s \in DOMAIN store[n].sig /\ (store[n].sig[s].done \/ store[n].sig[s].dead)
GivenUp(n, b) == b \in DOMAIN store[n].sub /\ store[n].sub[b].dead

(* Every persisted signal is completed or dead-lettered: what the loop owes   *)
(* to signals, whatever fails in between (complete_correlation and            *)
(* fail_correlation).                                                         *)
SignalsSettled ==
    \A n \in Node : \A s \in DOMAIN store[n].sig : Settled(n, s)

(* Every timer that is armed has fired as often as configured, or is          *)
(* dead-lettered.                                                             *)
TimersSettled ==
    \A n \in Node, b \in Timer : Current(b) # 0 =>
        <<Current(b), Firings[b] - 1>> \in DOMAIN fired \/ GivenUp(n, b)

(* Whatever claims time out and whoever leads, no arming of a timer fires     *)
(* more often than configured, no generation of the timer is skipped, and     *)
(* none fires before its own time (claim_due_timers, complete_timer).         *)
TimersFireInTurn == FiringsAreCounted /\ NeverBeforeItsTime
=============================================================================
