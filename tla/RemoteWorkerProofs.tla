-------------------------- MODULE RemoteWorkerProofs --------------------------
(***************************************************************************)
(* Proofs that the leases of remote tasks fence their workers, for every   *)
(* number of tasks, workers, sessions, faults and restarts: RemoteWorker's *)
(* LeasesFenceWorkers and CreditHolds.                                     *)
(*                                                                         *)
(* The invariants build on one another: Types; Leases, what the records    *)
(* and the proposals still under way may say; Deliveries, that a lease     *)
(* version is in one pair of hands; Credits, the reservations.             *)
(***************************************************************************)
EXTENDS RemoteWorker, FiniteSetTheorems, WellFoundedInduction, TLAPS

Status   == {"Absent", "Ready", "Leased", "Completed", "DeadLettered"}
Rec      == [st : Status, attempts : Nat, version : Nat, session : Thread]
Lease    == [t : Task, s : Thread, v : Nat]
Proposal == [t : Task, old : Rec, new : Rec]

(* The steps of a thread that works on one task, and those whose rest are     *)
(* tasks to dispatch or leases to take back.                                  *)
Serving   == {"complete", "record", "failed", "dead", "finish"}
Dispatching == {"claim", "propose", "send", "unsent", "unassign"}
Label     == {"idle", "poll", "scan", "reap", "retry", "forget", "drop", "gone"} \cup Serving \cup Dispatching

Proper(r) ==
    /\ r.pc \in Label /\ r.c \in Claims /\ r.out \subseteq Session
    /\ r.pc \in Serving \cup Dispatching \cup {"forget"} => r.c \in Lease
    /\ r.pc \in Serving \cup Dispatching => r.c.s \in Session
    /\ r.pc \in Dispatching \cup {"scan"} => r.todo \subseteq Task
    /\ r.pc \in {"reap", "forget", "retry"} => r.todo \subseteq Lease

(* Every part of the state has its type. *)
Types ==
    /\ rec \in [Task -> Rec] /\ late \subseteq Proposal
    /\ active \subseteq Task /\ landed \in [Task -> SUBSET Task] /\ keys \subseteq Task \X Session
    /\ owner \in [Session -> Worker \cup {0}] /\ live \subseteq {s \in Session : owner[s] # 0}
    /\ granted \in [Worker -> Credit \cup {0}] /\ inflight \in [Worker -> SUBSET Task]
    /\ assign \in [Task \X Session -> Nat] /\ sent \subseteq Lease
    /\ DOMAIN th = Thread /\ \A x \in Thread : Proper(th[x])
    /\ faults \in 0..MaxFaults

-----------------------------------------------------------------------------
(* A non-empty set of numbers has a least one, which Min returns: the order   *)
(* of the workers in reserve_assignment, and of the sessions to disconnect.   *)
LEMMA Least ==
    ASSUME NEW S \in SUBSET Nat, S # {}
    PROVE  Min(S) \in S /\ \A y \in S : Min(S) <= y
<1>0. \A y \in S : y \in Nat
  BY Zenon
<1>1. PICK n \in S : n \in Nat
  BY <1>0, ZenonT(30)
<1> DEFINE L == {y \in S : y \in 0..n}
           Below(y) == {z \in L : z < y}
           T == {Below(y) : y \in L}
<1>2. IsFiniteSet(L)
  <2>1. L \subseteq 0..n
    BY ZenonT(30)
  <2> HIDE DEF L
  <2>2. IsFiniteSet(0..n)
    BY <1>1, FS_Interval
  <2> QED BY <2>1, <2>2, FS_Subset, ZenonT(30)
<1>3. IsWellFoundedOn(StrictSubsetOrdering(L), SUBSET L)
  <2> HIDE DEF L
  <2> QED BY <1>2, FS_FiniteSubsetsOfFinite, FS_StrictSubsetOrderingWellFounded, ZenonT(30)
<1>4. T \subseteq SUBSET L /\ T # {}
  <2>1. n \in L
    BY <1>1
  <2> HIDE DEF L
  <2> QED BY <2>1, ZenonT(30)
<1>5. \E X \in T : \A Y \in T : <<Y, X>> \notin StrictSubsetOrdering(L)
  <2> HIDE DEF L, T
  <2> QED BY <1>3, <1>4, WFMin, Zenon
<1>6. PICK x \in L : \A y \in L : <<Below(y), Below(x)>> \notin StrictSubsetOrdering(L)
  <2> HIDE DEF L, Below
  <2> QED BY <1>5, Zenon
<1>7. \A y \in L : x <= y
  <2> SUFFICES ASSUME NEW y \in L, y < x PROVE FALSE
    BY <1>0
  <2>0. x \in Nat /\ y \in Nat /\ \A z \in L : z \in Nat
    BY <1>0, Zenon
  <2> HIDE DEF L
  <2>1. y \in Below(x) /\ y \notin Below(y)
    BY <2>0
  <2>3. Below(y) \subseteq Below(x)
    <3> SUFFICES ASSUME NEW z \in Below(y) PROVE z \in Below(x)
      BY Zenon
    <3>1. z \in L /\ z < y
      BY Zenon
    <3>2. z < x
      BY <2>0, <3>1
    <3> QED BY <3>1, <3>2, Zenon
  <2>2. Below(y) \in SUBSET L /\ Below(x) \in SUBSET L
    BY Zenon
  <2> HIDE DEF Below
  <2> QED BY <1>6, <2>1, <2>2, <2>3, ZenonT(30) DEF StrictSubsetOrdering
<1>8. x \in S /\ \A y \in S : x <= y
  BY <1>0, <1>1, <1>7
<1> QED BY <1>8, ZenonT(30) DEF Min

(* Every session has its thread, and the main loop is thread 0. *)
LEMMA SessionIsThread ==
    Session \subseteq Thread /\ 0 \in Thread /\ Session \subseteq Nat /\ Thread = Session \cup {0}
  BY RemoteConstants DEF Session, Thread

(* A lease is a claim. *)
LEMMA LeaseIsClaim == Lease \subseteq Claims /\ NoClaim \in Claims
  BY SessionIsThread, Zenon DEF Lease, Claims, NoClaim

(* The states a thread goes to are proper. *)
LEMMA ProperStates ==
    /\ Proper(Idle) /\ Proper(Poll) /\ Proper(Gone)
    /\ \A x \in Thread : Proper(Fail(x))
    /\ \A S \in SUBSET Task : Proper(Scan(S))
    /\ \A S \in SUBSET Session : Proper(Overdue(S))
<1>1. Proper(Idle) /\ Proper(Poll) /\ Proper(Gone)
  BY LeaseIsClaim, Zenon DEF Idle, Poll, Gone, Turn, Proper, Label, Serving, Dispatching
<1>2. ASSUME NEW x \in Thread, NEW S \in SUBSET Session PROVE Proper(Leave(x, S))
  BY Zenon DEF Leave, Turn, Proper, Label, Serving, Dispatching, Claims
<1>3. ASSUME NEW x \in Thread PROVE Proper(Fail(x))
  BY <1>1, <1>2, Zenon DEF Fail
<1>4. ASSUME NEW S \in SUBSET Task PROVE Proper(Scan(S))
  BY <1>1, LeaseIsClaim, Zenon DEF Scan, Turn, Proper, Label, Serving, Dispatching
<1>5. ASSUME NEW S \in SUBSET Session PROVE Proper(Overdue(S))
  <2>1. CASE S = {}
    BY <1>1, <2>1, Zenon DEF Overdue
  <2>2. CASE S # {}
    <3>1. Min(S) \in S
      BY <2>2, Least, SessionIsThread, Zenon
    <3> QED BY <1>2, <2>2, <3>1, SessionIsThread, ZenonT(30) DEF Overdue
  <2> QED BY <2>1, <2>2, Zenon
<1> QED BY <1>1, <1>3, <1>4, <1>5, Zenon

(* A thread that goes on in its routine stays proper. *)
LEMMA ProperTurn ==
    ASSUME NEW x \in Thread, Proper(th[x]), th[x].pc \in Serving \cup Dispatching
    PROVE  /\ th[x].pc \in Serving => \A pc \in Serving : Proper(On(x, pc))
           /\ th[x].pc \in Dispatching => \A pc \in Dispatching : Proper(On(x, pc))
  BY Zenon DEF On, Turn, Proper, Label, Serving, Dispatching

Threads == DOMAIN th = Thread /\ \A x \in Thread : Proper(th[x])

(* A thread that moves leaves every other where it was. *)
LEMMA GoTypes ==
    ASSUME Threads, NEW x \in Thread, NEW r, Proper(r), Go(x, r)
    PROVE  Threads'
  BY Zenon DEF Threads, Go

(* Settling a lease keeps the types. *)
LEMMA SettleTypes ==
    ASSUME Types, NEW x \in Thread, NEW c \in Lease, NEW st \in Status,
           NEW ok, NEW err, Proper(ok), Proper(err), Settle(x, c, st, ok, err)
    PROVE  /\ rec' \in [Task -> Rec] /\ late' \subseteq Proposal
           /\ Threads' /\ faults' \in 0..MaxFaults
<1>1. c.t \in Task /\ rec[c.t] \in Rec
  BY Zenon DEF Types, Lease
<1>2. Settled(c.t, st) \in Rec
  BY <1>1, Zenon DEF Settled, Rec
<1>3. [t |-> c.t, old |-> rec[c.t], new |-> Settled(c.t, st)] \in Proposal
  BY <1>1, <1>2, Zenon DEF Proposal
<1>4. Threads
  BY Zenon DEF Types, Threads
<1>5. Threads'
  BY <1>4, GoTypes, Zenon DEF Settle
<1>6. rec' \in [Task -> Rec] /\ late' \subseteq Proposal
  BY <1>1, <1>2, <1>3 DEF Settle, Types
<1>7. faults' \in 0..MaxFaults
  BY RemoteConstants DEF Settle, Types, Fault
<1> QED BY <1>5, <1>6, <1>7, Zenon
-----------------------------------------------------------------------------
(* The actions in the groups of the model: the workflow and the store, the    *)
(* frames of a stream, the steps of a thread and those of the leader's loop.  *)
Frames(s) ==
    \/ Heartbeat(s) \/ Close(s)
    \/ \E n \in Credit : Grant(s, n)
    \/ \E c \in sent, status \in {"Accepted", "Completed", "Retryable", "Fatal"} :
          Acknowledge(s, c, status)
Store ==
    \/ \E t \in Task : Activate(t) \/ Enqueue(t)
    \/ \E w \in Worker, n \in Credit : Register(w, n)
    \/ ApplyLate \/ Crash
Loop ==
    \/ \E S \in SUBSET Task : Reap(S)
    \/ ReapOne \/ Forget \/ ReapEnds
    \/ \E x \in Thread : Drop(x) \/ RetryDropped(x)
Serve(x) == Complete(x) \/ Record(x) \/ Failed(x) \/ Finish(x)
Dispatch(x) ==
    \/ ReadReady(x) \/ Reserve(x) \/ PrepareClaim(x) \/ ProposeClaim(x)
    \/ Send(x) \/ Unsent(x) \/ Unassign(x)

(* Every action keeps the types. *)
LEMMA TypesInit == Init => Types
<1> SUFFICES ASSUME Init PROVE Types
  BY Zenon
<1>1. Absent \in Rec
  BY SessionIsThread, Zenon DEF Absent, Rec, Status
<1> QED BY <1>1, RemoteConstants, ProperStates DEF Init, Types

(* The steps of the replicated store keep the types. *)
LEMMA TypesStore ==
    ASSUME Types, Store PROVE Types'
<1>1. ASSUME NEW t \in Task, Activate(t) PROVE Types'
  BY <1>1, Zenon DEF Types, Activate, store, coord, credits
<1>2. ASSUME NEW t \in Task, Enqueue(t) PROVE Types'
  <2>1. rec' \in [Task -> Rec]
    BY <1>2, Zenon DEF Types, Enqueue, Rec, Status
  <2> QED BY <1>2, <2>1, Zenon DEF Types, Enqueue, engine, coord, credits
<1>3. ASSUME NEW w \in Worker, NEW n \in Credit, Register(w, n) PROVE Types'
  <2>1. w # 0
    BY RemoteConstants, Zenon
  <2> QED BY <1>3, <2>1, Zenon DEF Types, Register, store, engine
<1>4. CASE ApplyLate
  <2>1. PICK p \in late : /\ late' = late \ {p}
                          /\ rec' = IF rec[p.t] = p.old THEN [rec EXCEPT ![p.t] = p.new] ELSE rec
                          /\ UNCHANGED <<engine, coord, th, faults>>
    BY <1>4, Zenon DEF ApplyLate
  <2>2. p.t \in Task /\ p.new \in Rec
    BY Zenon DEF Types, Proposal
  <2> QED BY <2>1, <2>2, Zenon DEF Types, engine, coord, credits
<1>5. CASE Crash
  <2>1. Threads'
    BY <1>5, ProperStates, Zenon DEF Crash, Threads
  <2>2. faults' \in 0..MaxFaults
    BY <1>5, RemoteConstants DEF Crash, Fault, Types
  <2> QED BY <1>5, <2>1, <2>2, RemoteConstants, Zenon DEF Types, Crash, Threads, store, engine
<1> QED BY <1>1, <1>2, <1>3, <1>4, <1>5, Zenon DEF Store

(* The frames of a session keep the types. *)
LEMMA TypesStream ==
    ASSUME Types, NEW s \in Session, Frames(s) PROVE Types'
<1>1. Threads /\ s \in Thread
  BY SessionIsThread, Zenon DEF Types, Threads
<1>2. CASE Heartbeat(s)
  <2>1. Threads'
    BY <1>1, <1>2, GoTypes, ProperStates, Zenon DEF Heartbeat
  <2> QED BY <1>2, <2>1, Zenon DEF Types, Threads, Heartbeat, store, engine, coord, credits
<1>3. CASE Close(s)
  <2>1. Threads'
    BY <1>1, <1>3, GoTypes, ProperStates, Zenon DEF Close
  <2> QED BY <1>3, <2>1, Zenon DEF Types, Threads, Close, store, engine, coord, credits
<1>4. ASSUME NEW n \in Credit, Grant(s, n) PROVE Types'
  <2>1. Threads'
    BY <1>1, <1>4, GoTypes, ProperStates, Zenon DEF Grant
  <2>2. granted' \in [Worker -> Credit \cup {0}]
    BY <1>4, Zenon DEF Types, Grant
  <2> QED BY <1>4, <2>1, <2>2, Zenon DEF Types, Threads, Grant, store, engine
<1>5. ASSUME NEW c \in sent, NEW status \in {"Accepted", "Completed", "Retryable", "Fatal"},
             Acknowledge(s, c, status)
      PROVE  Types'
  <2>1. c \in Lease /\ c.s \in Session
    BY <1>5, Zenon DEF Types, Acknowledge
  <2>2. \A pc \in Serving : Proper(Turn(pc, {}, c, {}))
    BY <2>1, LeaseIsClaim, Zenon DEF Turn, Proper, Label, Serving, Dispatching
  <2>3. Threads'
    BY <1>1, <1>5, <2>2, GoTypes, ProperStates, Zenon DEF Acknowledge, Serving
  <2> QED BY <1>5, <2>3, Zenon DEF Types, Threads, Acknowledge, store, engine, coord, credits
<1> QED BY <1>2, <1>3, <1>4, <1>5, Zenon DEF Frames

(* A fault is counted, a reservation cancelled: both keep their type. *)
LEMMA FaultTypes == ASSUME Types, Fault \/ UNCHANGED faults PROVE faults' \in 0..MaxFaults
  BY RemoteConstants DEF Types, Fault

(* Cancelling a reservation keeps the types. *)
LEMMA CancelTypes == ASSUME Types, NEW d PROVE Cancel(d) \in [Worker -> SUBSET Task]
  BY ZenonT(30) DEF Types, Cancel

(* Serving a completion keeps the types. *)
LEMMA TypesServe ==
    ASSUME Types, NEW x \in Thread, Serve(x) PROVE Types'
<1> DEFINE c == th[x].c
<1>1. Threads /\ Proper(th[x])
  BY Zenon DEF Types, Threads
<1>2. th[x].pc \in Serving
  BY ZenonT(30) DEF Serve, Complete, Record, Failed, Finish, At, Serving
<1>3. c \in Lease /\ c.s \in Session /\ c.t \in Task
  BY <1>1, <1>2, Zenon DEF Proper, Lease
<1>4. \A pc \in Serving : Proper(On(x, pc))
  BY <1>1, <1>2, ProperTurn, Zenon
<1>5. Proper(Fail(x)) /\ Proper(Poll)
  BY ProperStates, Zenon
<1>6. CASE Complete(x)
  <2>1. Threads'
    BY <1>1, <1>4, <1>5, <1>6, GoTypes, Zenon DEF Complete, Serving
  <2>2. faults' \in 0..MaxFaults
    BY <1>6, FaultTypes, Zenon DEF Complete
  <2>3. /\ active' \subseteq Task /\ landed' \in [Task -> SUBSET Task]
        /\ keys' \subseteq Task \X Session
    BY <1>3, <1>6, SMTT(30) DEF Complete, Types, engine
  <2> QED BY <1>6, <2>1, <2>2, <2>3, Zenon DEF Types, Threads, Complete, store, coord, credits
<1>7. CASE Record(x)
  <2>1. Settle(x, c, "Completed", On(x, "finish"), Fail(x))
    BY <1>7, Zenon DEF Record
  <2>2. /\ rec' \in [Task -> Rec] /\ late' \subseteq Proposal
        /\ Threads' /\ faults' \in 0..MaxFaults
    BY <1>3, <1>4, <1>5, <2>1, SettleTypes, Zenon DEF Status, Serving
  <2> QED BY <1>7, <2>2, Zenon DEF Types, Threads, Record, engine, coord, credits
<1>8. CASE Failed(x)
  <2>1. PICK st \in Status : Settle(x, c, st, On(x, "finish"), Fail(x))
    BY <1>8, Zenon DEF Failed, Status
  <2>2. /\ rec' \in [Task -> Rec] /\ late' \subseteq Proposal
        /\ Threads' /\ faults' \in 0..MaxFaults
    BY <1>3, <1>4, <1>5, <2>1, SettleTypes, Zenon DEF Serving
  <2> QED BY <1>8, <2>2, Zenon DEF Types, Threads, Failed, engine, coord, credits
<1>9. CASE Finish(x)
  <2>1. Threads'
    BY <1>1, <1>5, <1>9, GoTypes, ZenonT(30) DEF Finish
  <2>2. inflight' \in [Worker -> SUBSET Task] /\ assign' \in [Task \X Session -> Nat]
    BY <1>9, ZenonT(30) DEF Finish, Types
  <2> QED BY <1>9, <2>1, <2>2, ZenonT(30) DEF Types, Threads, Finish, store, engine
<1> QED BY <1>6, <1>7, <1>8, <1>9, Zenon DEF Serve

(* Dispatching a task keeps the types. *)
LEMMA TypesDispatch ==
    ASSUME Types, NEW x \in Thread, Dispatch(x) PROVE Types'
<1> DEFINE c == th[x].c
<1>1. Threads /\ Proper(th[x])
  BY DEF Types, Threads
<1>2. th[x].pc \in Dispatching =>
        /\ c \in Lease /\ c.s \in Session /\ c.t \in Task
        /\ th[x].todo \subseteq Task
        /\ \A pc \in Dispatching : Proper(On(x, pc))
  BY <1>1, ProperTurn, Zenon DEF Proper, Lease
<1>3. Proper(Fail(x)) /\ \A S \in SUBSET Task : Proper(Scan(S))
  BY ProperStates, Zenon
<1>4. CASE ReadReady(x)
  <2>1. Threads'
    BY <1>1, <1>3, <1>4, GoTypes, Zenon DEF ReadReady, Ready
  <2> QED BY <1>4, <2>1, Zenon DEF Types, Threads, ReadReady, store, engine, coord, credits
<1>5. CASE Reserve(x)
  <2>1. PICK t \in th[x].todo : Reserve(x)!2!(t)
    BY <1>5, ZenonT(30) DEF Reserve
  <2>2. th[x].todo \subseteq Task /\ t \in Task
    BY <1>1, <1>5, Zenon DEF Proper, Reserve, At
  <2>3. ASSUME NEW s \in live
        PROVE  Proper(Turn("claim", th[x].todo \ {t}, [t |-> t, s |-> s, v |-> 0], {}))
    <3>1. s \in Session /\ s \in Thread
      BY SessionIsThread, Zenon DEF Types
    <3>2. [t |-> t, s |-> s, v |-> 0] \in Lease
      BY <2>2, <3>1, Zenon DEF Lease
    <3> QED BY <2>2, <3>1, <3>2, LeaseIsClaim, Zenon DEF Turn, Proper, Label, Serving, Dispatching
  <2>4. Threads'
    BY <1>1, <1>3, <2>1, <2>2, <2>3, GoTypes, ZenonT(30)
  <2>5. inflight' \in [Worker -> SUBSET Task]
    <3>1. inflight' = inflight \/ \E w : inflight' = [inflight EXCEPT ![w] = inflight[w] \cup {t}]
      BY <2>1, Zenon
    <3>2. inflight \in [Worker -> SUBSET Task]
      BY Zenon DEF Types
    <3> QED BY <2>2, <3>1, <3>2, SMT
  <2> QED BY <1>5, <2>4, <2>5, Zenon DEF Types, Threads, Reserve, store, engine
<1>6. CASE PrepareClaim(x)
  <2>1. th[x].pc \in Dispatching
    BY <1>6, Zenon DEF PrepareClaim, At, Dispatching
  <2>2. Proper(Turn("propose", th[x].todo, [t |-> c.t, s |-> c.s, v |-> rec[c.t].version + 1], {}))
    <3>1. rec[c.t].version + 1 \in Nat
      BY <1>2, <2>1 DEF Types, Rec
    <3>2. [t |-> c.t, s |-> c.s, v |-> rec[c.t].version + 1] \in Lease
      BY <1>2, <2>1, <3>1, SessionIsThread, Zenon DEF Lease
    <3> QED BY <1>2, <2>1, <3>2, LeaseIsClaim, ZenonT(30) DEF Turn, Proper, Label, Serving, Dispatching
  <2>3. Threads'
    BY <1>1, <1>2, <1>3, <1>6, <2>1, <2>2, GoTypes, Zenon DEF PrepareClaim
  <2>4. inflight' \in [Worker -> SUBSET Task]
    BY <1>6, CancelTypes, Zenon DEF PrepareClaim, Types
  <2>5. faults' \in 0..MaxFaults
    BY <1>6, FaultTypes, ZenonT(30) DEF PrepareClaim
  <2> QED BY <1>6, <2>3, <2>4, <2>5, Zenon DEF Types, Threads, PrepareClaim, store, engine
<1>7. CASE ProposeClaim(x)
  <2>1. th[x].pc \in Dispatching
    BY <1>7, ZenonT(30) DEF ProposeClaim, At, Dispatching
  <2>2. Granted(c) \in Rec /\ rec[c.t] \in Rec
    BY <1>2, <2>1, SMTT(30) DEF Granted, Types, Rec, Lease, Status
  <2>3. [t |-> c.t, old |-> rec[c.t], new |-> Granted(c)] \in Proposal
    BY <1>2, <2>1, <2>2, Zenon DEF Proposal
  <2>4. Threads'
    BY <1>1, <1>2, <1>3, <1>7, <2>1, GoTypes, Zenon DEF ProposeClaim, Dispatching
  <2>5. rec' \in [Task -> Rec] /\ late' \subseteq Proposal
    BY <1>2, <1>7, <2>1, <2>2, <2>3, Zenon DEF ProposeClaim, Types
  <2>6. faults' \in 0..MaxFaults
    BY <1>7, FaultTypes, Zenon DEF ProposeClaim
  <2> QED BY <1>7, <2>4, <2>5, <2>6, Zenon DEF Types, Threads, ProposeClaim, engine, coord, credits
<1>8. CASE Send(x)
  <2>1. th[x].pc \in Dispatching
    BY <1>8, Zenon DEF Send, At, Dispatching
  <2>2. Threads'
    BY <1>1, <1>2, <1>3, <1>8, <2>1, GoTypes, Zenon DEF Send, Dispatching
  <2>3. assign' \in [Task \X Session -> Nat] /\ sent' \subseteq Lease
    BY <1>2, <1>8, <2>1, ZenonT(30) DEF Send, Types, Lease
  <2> QED BY <1>8, <2>2, <2>3, Zenon DEF Types, Threads, Send, store, engine, credits
<1>9. CASE Unsent(x)
  <2>1. th[x].pc \in Dispatching
    BY <1>9, Zenon DEF Unsent, At, Dispatching
  <2>2. PICK st \in Status : Settle(x, c, st, On(x, "unassign"), Fail(x))
    BY <1>9, Zenon DEF Unsent, Status, RetryStatus
  <2>3. /\ rec' \in [Task -> Rec] /\ late' \subseteq Proposal
        /\ Threads' /\ faults' \in 0..MaxFaults
    BY <1>2, <1>3, <2>1, <2>2, SettleTypes, Zenon DEF Dispatching
  <2> QED BY <1>9, <2>3, Zenon DEF Types, Threads, Unsent, engine, coord, credits
<1>10. CASE Unassign(x)
  <2>1. Threads'
    BY <1>1, <1>3, <1>10, GoTypes, Zenon DEF Unassign
  <2>2. inflight' \in [Worker -> SUBSET Task] /\ assign' \in [Task \X Session -> Nat]
    BY <1>10, CancelTypes, ZenonT(30) DEF Unassign, Remove, Types
  <2> QED BY <1>10, <2>1, <2>2, Zenon DEF Types, Threads, Unassign, store, engine
<1> QED BY <1>4, <1>5, <1>6, <1>7, <1>8, <1>9, <1>10, Zenon DEF Dispatch

(* The reaper and the disconnect routine keep the types. *)
LEMMA TypesLoop ==
    ASSUME Types, Loop PROVE Types'
<1>1. Threads /\ 0 \in Thread
  BY SessionIsThread, Zenon DEF Types, Threads
<1>2. \A C \in SUBSET Lease : Proper(Turn("reap", C, NoClaim, {}))
  BY LeaseIsClaim, Zenon DEF Turn, Proper, Label, Serving, Dispatching
<1>3. \A x \in Thread, C \in SUBSET Lease : Proper(Dropped(x, C))
  <2> SUFFICES ASSUME NEW x \in Thread, NEW C \in SUBSET Lease PROVE Proper(Dropped(x, C))
    BY Zenon
  <2>1. th[x].out \subseteq Session
    BY <1>1, Zenon DEF Threads, Proper
  <2>2. Proper(Turn("retry", C, NoClaim, th[x].out))
    BY <2>1, LeaseIsClaim, Zenon DEF Turn, Proper, Label, Serving, Dispatching
  <2> QED BY <2>1, <2>2, ProperStates, Zenon DEF Dropped
<1>4. \A c : RetryStatus(c) \in Status
  BY Zenon DEF RetryStatus, Status
<1>5. ASSUME NEW S \in SUBSET Task, Reap(S) PROVE Types'
  <2>1. \A t \in Task : ClaimOf(t) \in Lease
    BY Zenon DEF ClaimOf, Types, Rec, Lease
  <2>2. {ClaimOf(t) : t \in S} \in SUBSET Lease
    BY <2>1, Zenon
  <2>3. Threads'
    BY <1>1, <1>2, <1>5, <2>2, GoTypes, Zenon DEF Reap
  <2> QED BY <1>5, <2>3, Zenon DEF Types, Threads, Reap, store, engine, coord, credits
<1>6. CASE ReapOne
  <2>1. PICK c \in th[0].todo :
          Settle(0, c, RetryStatus(c), Turn("forget", th[0].todo \ {c}, c, {}), Idle)
    BY <1>6, Zenon DEF ReapOne
  <2>2. th[0].todo \subseteq Lease /\ c \in Lease
    BY <1>1, <1>6, Zenon DEF ReapOne, At, Threads, Proper
  <2>3. Proper(Turn("forget", th[0].todo \ {c}, c, {}))
    BY <2>2, LeaseIsClaim, Zenon DEF Turn, Proper, Label, Serving, Dispatching
  <2>4. /\ rec' \in [Task -> Rec] /\ late' \subseteq Proposal
        /\ Threads' /\ faults' \in 0..MaxFaults
    BY <1>1, <1>4, <2>1, <2>2, <2>3, SettleTypes, ProperStates, Zenon
  <2> QED BY <1>6, <2>4, Zenon DEF Types, Threads, ReapOne, engine, coord, credits
<1>7. CASE Forget
  <2>1. th[0].todo \subseteq Lease
    BY <1>1, <1>7, Zenon DEF Forget, At, Threads, Proper
  <2>2. Threads'
    BY <1>1, <1>2, <1>7, <2>1, GoTypes, Zenon DEF Forget
  <2>3. inflight' \in [Worker -> SUBSET Task] /\ assign' \in [Task \X Session -> Nat]
    BY <1>7, CancelTypes, ZenonT(30) DEF Forget, Remove, Types
  <2> QED BY <1>7, <2>2, <2>3, Zenon DEF Types, Threads, Forget, store, engine
<1>8. CASE ReapEnds
  <2>1. live \subseteq Session
    BY Zenon DEF Types
  <2>2. Threads'
    BY <1>1, <1>8, <2>1, GoTypes, ProperStates, Zenon DEF ReapEnds
  <2> QED BY <1>8, <2>2, Zenon DEF Types, Threads, ReapEnds, store, engine, coord, credits
<1>9. ASSUME NEW x \in Thread, Drop(x) PROVE Types'
  <2> DEFINE s == th[x].c.s
             C == {[t |-> a[1], s |-> s, v |-> assign[a]] :
                      a \in {b \in DOMAIN assign : b[2] = s /\ assign[b] # 0}}
  <2>1. s \in Thread /\ C \in SUBSET Lease
    BY <1>1 DEF Threads, Proper, Claims, Types, Lease
  <2>2. Go(x, Dropped(x, C))
    BY <1>9, ZenonT(30) DEF Drop
  <2> HIDE DEF C
  <2>3. Threads'
    BY <1>1, <1>3, <2>1, <2>2, GoTypes, Zenon
  <2>4. /\ live' \subseteq live /\ granted' \in [Worker -> Credit \cup {0}]
        /\ inflight' \in [Worker -> SUBSET Task] /\ assign' \in [Task \X Session -> Nat]
    BY <1>9, Zenon DEF Drop, Types
  <2> QED BY <1>9, <2>3, <2>4, ZenonT(30) DEF Types, Threads, Drop, store, engine
<1>10. ASSUME NEW x \in Thread, RetryDropped(x) PROVE Types'
  <2>1. PICK c \in th[x].todo :
          LET next == Dropped(x, th[x].todo \ {c}) IN Settle(x, c, RetryStatus(c), next, next)
    BY <1>10, Zenon DEF RetryDropped
  <2>2. th[x].todo \subseteq Lease /\ c \in Lease
    BY <1>1, <1>10, Zenon DEF RetryDropped, At, Threads, Proper
  <2>3. Proper(Dropped(x, th[x].todo \ {c}))
    BY <1>3, <2>2, Zenon
  <2>4. /\ rec' \in [Task -> Rec] /\ late' \subseteq Proposal
        /\ Threads' /\ faults' \in 0..MaxFaults
    BY <1>4, <2>1, <2>2, <2>3, SettleTypes, Zenon
  <2> QED BY <1>10, <2>4, ZenonT(30) DEF Types, Threads, RetryDropped, engine, coord, credits
<1> QED BY <1>5, <1>6, <1>7, <1>8, <1>9, <1>10, Zenon DEF Loop

(* The steps, grouped by routine. *)
LEMMA NextCases ==
    Next => \/ Store \/ Loop
            \/ \E s \in Session : Frames(s)
            \/ \E x \in Thread : Serve(x) \/ Dispatch(x)
  BY SessionIsThread, Zenon
  DEF Next, LoopStep, StreamStep, ThreadStep, Store, Loop, Frames, Serve, Dispatch

(* Types is invariant. *)
LEMMA TypesInvariant == Spec => []Types
<1>1. Types /\ [Next]_vars => Types'
  <2> SUFFICES ASSUME Types, [Next]_vars PROVE Types'
    BY Zenon
  <2>1. CASE Next
    BY <2>1, NextCases, TypesStore, TypesStream, TypesServe, TypesDispatch, TypesLoop, Zenon
  <2>2. CASE UNCHANGED vars
    BY <2>2, Zenon DEF Types, vars, store, engine, coord, credits
  <2> QED BY <2>1, <2>2, Zenon
<1> QED BY <1>1, TypesInit, PTL DEF Spec

-----------------------------------------------------------------------------

(* What a record may say: every lease version is one attempt, none beyond the *)
(* policy's, and a completed record was completed by its holder.              *)
Sound(t, r) ==
    /\ r.attempts = r.version /\ r.version <= MaxAttempts
    /\ r.st = "Ready" => r.version < MaxAttempts
    /\ r.st = "Absent" => r.version = 0
    /\ r.st = "Completed" => <<t, r.session>> \in keys

Poised(r, K) ==
    /\ r.pc = "record" => <<r.c.t, r.c.s>> \in K
    /\ r.pc = "failed" => r.c.v < MaxAttempts
    /\ r.pc = "propose" => r.c.v \in 1..MaxAttempts

(* So do the records that proposals still under way would write, and the      *)
(* threads that are about to write one have what it takes.                    *)
Leases ==
    /\ \A t \in Task : Sound(t, rec[t])
    /\ \A p \in late : Sound(p.t, p.new) /\ p.old.version <= p.new.version
    /\ \A x \in Thread : Poised(th[x], keys)

(* A lease version is in one pair of hands: delivered, or about to be sent by *)
(* one thread; and the record has counted it.                                 *)
Same(c, d) == c.t = d.t /\ c.v = d.v
Sending    == {x \in Thread : At(x, "send")}

Deliveries ==
    /\ \A c \in sent : c.v \in 1..rec[c.t].version
    /\ \A x \in Sending : th[x].c.v \in 1..rec[th[x].c.t].version
    /\ OneHolderPerLease
    /\ \A x \in Sending : \A c \in sent : ~Same(th[x].c, c)
    /\ \A x, y \in Sending : Same(th[x].c, th[y].c) => x = y

(* The reservations of a worker stay within its credit, and only a worker     *)
(* with a registered session has any.                                         *)
Credits ==
    /\ CreditHolds
    /\ \A w \in Worker : IsFiniteSet(inflight[w])
    /\ \A w \in Worker : inflight[w] # {} => \E s \in live : owner[s] = w
-----------------------------------------------------------------------------
(* Most steps leave every thread where it was or take it to a calm place, one *)
(* with nothing to write and nothing to send.                                 *)
Calm(r)  == r.pc \notin {"record", "failed", "propose", "send"}
CalmStep == \A y \in Thread : th'[y] = th[y] \/ Calm(th'[y])

(* The states in which a thread holds no claim to act on. *)
LEMMA CalmStates ==
    /\ Calm(Idle) /\ Calm(Poll) /\ Calm(Gone)
    /\ \A x : Calm(Fail(x))
    /\ \A S : Calm(Scan(S)) /\ Calm(Overdue(S))
    /\ \A x, C : Calm(Dropped(x, C))
    /\ \A pc, todo, c, out : pc \notin {"record", "failed", "propose", "send"} => Calm(Turn(pc, todo, c, out))
    /\ \A x : \A pc \in {"finish", "unsent", "unassign"} : Calm(On(x, pc))
  BY Zenon DEF Calm, Idle, Poll, Gone, Fail, Leave, Scan, Overdue, Dropped, On, Turn

(* A thread that goes to a calm state disturbs no other. *)
LEMMA GoCalm == ASSUME Threads, NEW x \in Thread, NEW r, Calm(r), Go(x, r) PROVE CalmStep
  BY Zenon DEF Threads, Go, CalmStep

(* So does one that settles a lease and goes to calm states. *)
LEMMA SettleCalm ==
    ASSUME Threads, NEW x \in Thread, NEW c, NEW st, NEW ok, NEW err, Calm(ok), Calm(err),
           Settle(x, c, st, ok, err)
    PROVE  CalmStep
  BY GoCalm, Zenon DEF Settle

(* Most steps are calm. *)
LEMMA CalmSteps ==
    ASSUME Types,
           \/ Store \/ Loop
           \/ \E s \in Session : Heartbeat(s) \/ Close(s) \/ \E n \in Credit : Grant(s, n)
           \/ \E x \in Thread : \/ Record(x) \/ Failed(x) \/ Finish(x) \/ ReadReady(x) \/ Reserve(x)
                                \/ Send(x) \/ Unsent(x) \/ Unassign(x)
    PROVE  CalmStep
<1>1. Threads /\ 0 \in Thread /\ Session \subseteq Thread
  BY SessionIsThread, Zenon DEF Types, Threads
<1>2. CASE Store
  BY <1>1, <1>2, CalmStates, Zenon
  DEF Store, CalmStep, Threads, Activate, Enqueue, Register, ApplyLate, Crash
<1>3. CASE Loop
  <2>1. ASSUME NEW S \in SUBSET Task, Reap(S) PROVE CalmStep
    BY <1>1, <2>1, GoCalm, CalmStates, Zenon DEF Reap
  <2>2. CASE ReapOne
    BY <1>1, <2>2, SettleCalm, CalmStates, Zenon DEF ReapOne
  <2>3. CASE Forget
    BY <1>1, <2>3, GoCalm, CalmStates, Zenon DEF Forget
  <2>4. CASE ReapEnds
    BY <1>1, <2>4, GoCalm, CalmStates, Zenon DEF ReapEnds
  <2>5. ASSUME NEW x \in Thread, Drop(x) PROVE CalmStep
    BY <1>1, <2>5, GoCalm, CalmStates, Zenon DEF Drop
  <2>6. ASSUME NEW x \in Thread, RetryDropped(x) PROVE CalmStep
    BY <1>1, <2>6, SettleCalm, CalmStates, Zenon DEF RetryDropped
  <2> QED BY <1>3, <2>1, <2>2, <2>3, <2>4, <2>5, <2>6, Zenon DEF Loop
<1>4. ASSUME NEW s \in Session, Heartbeat(s) \/ Close(s) \/ \E n \in Credit : Grant(s, n)
      PROVE  CalmStep
  BY <1>1, <1>4, GoCalm, CalmStates, Zenon DEF Heartbeat, Close, Grant
<1>5. ASSUME NEW x \in Thread, Record(x) \/ Failed(x) \/ Unsent(x) PROVE CalmStep
  BY <1>1, <1>5, SettleCalm, CalmStates, Zenon DEF Record, Failed, Unsent
<1>6. ASSUME NEW x \in Thread, Finish(x) \/ ReadReady(x) \/ Send(x) \/ Unassign(x) PROVE CalmStep
  BY <1>1, <1>6, GoCalm, CalmStates, ZenonT(30) DEF Finish, ReadReady, Send, Unassign
<1>7. ASSUME NEW x \in Thread, Reserve(x) PROVE CalmStep
  BY <1>1, <1>7, GoCalm, CalmStates, ZenonT(30) DEF Reserve
<1> QED BY <1>2, <1>3, <1>4, <1>5, <1>6, <1>7, Zenon
-----------------------------------------------------------------------------
(* Leases is invariant.  Its two parts are what is written, by a step or by a *)
(* proposal still under way, and the threads that are poised to write.        *)
Records == /\ \A t \in Task : Sound(t, rec[t])
           /\ \A p \in late : Sound(p.t, p.new) /\ p.old.version <= p.new.version

(* No lease exists at first. *)
LEMMA LeasesInit == Init => Leases
  BY RemoteConstants DEF Init, Leases, Sound, Poised, Absent, Idle, Turn

(* Idempotency keys are never removed. *)
LEMMA KeysGrow == ASSUME Next PROVE keys \subseteq keys'
  BY NextCases, ZenonT(30)
  DEF Store, Loop, Frames, Serve, Dispatch, engine, Activate, Enqueue, Register, ApplyLate, Crash,
      Reap, ReapOne, Forget, ReapEnds, Drop, RetryDropped, Heartbeat, Close, Grant, Acknowledge,
      Complete, Record, Failed, Finish, ReadReady, Reserve, PrepareClaim, ProposeClaim, Send, Unsent,
      Unassign

(* Settling a lease keeps its record sound and its version from shrinking. *)
LEMMA SettleRecords ==
    ASSUME Types, Records, NEW x \in Thread, NEW c \in Lease,
           NEW st \in {"Ready", "Completed", "DeadLettered"}, NEW ok, NEW err,
           st = "Ready" => c.v < MaxAttempts,
           st = "Completed" => <<c.t, c.s>> \in keys,
           Settle(x, c, st, ok, err), UNCHANGED keys
    PROVE  Records' /\ \A t \in Task : rec[t].version <= rec'[t].version
<1>1. c.t \in Task /\ rec[c.t] \in Rec /\ Sound(c.t, rec[c.t])
  BY Zenon DEF Types, Lease, Records
<1> DEFINE new == Settled(c.t, st)
<1>2. /\ new.st = st /\ new.version = rec[c.t].version
      /\ new.attempts = rec[c.t].attempts /\ new.session = rec[c.t].session
  BY <1>1, Zenon DEF Settled, Rec
<1>3. Holds(c) => rec[c.t].version = c.v /\ rec[c.t].session = c.s
  BY DEF Holds, ClaimOf, Lease
<1>4. Holds(c) => Sound(c.t, new)
  BY <1>1, <1>2, <1>3, Zenon DEF Sound
<1>5. rec[c.t].version \in Nat /\ \A t \in Task : rec[t].version \in Nat
  BY <1>1, Zenon DEF Rec, Types
<1> HIDE DEF new
<1>6. CASE Holds(c) /\ rec' = [rec EXCEPT ![c.t] = new] /\ late' = late
  BY <1>1, <1>2, <1>4, <1>5, <1>6, SMTT(30) DEF Records, Sound, Types
<1>7. CASE rec' = rec /\ late' = late
  BY <1>5, <1>7 DEF Records, Sound
<1>8. CASE Holds(c) /\ rec' = rec /\ late' = late \cup {[t |-> c.t, old |-> rec[c.t], new |-> new]}
  BY <1>1, <1>2, <1>4, <1>5, <1>8 DEF Records, Sound
<1> QED BY <1>6, <1>7, <1>8, Zenon DEF Settle, new

Grow == \A t \in Task : rec[t].version <= rec'[t].version

(* A step that leaves the records alone keeps them sound. *)
LEMMA SameRecords ==
    ASSUME Types, Records, keys \subseteq keys', UNCHANGED store PROVE Records' /\ Grow
<1>1. \A t \in Task : rec[t].version \in Nat
  BY Zenon DEF Types, Rec
<1> QED BY <1>1 DEF Records, Sound, Grow, store

(* A status retry_or_dead_letter chooses leaves another attempt if Ready. *)
LEMMA RetryFits ==
    ASSUME NEW c \in Lease
    PROVE  /\ RetryStatus(c) \in {"Ready", "Completed", "DeadLettered"} /\ RetryStatus(c) # "Completed"
           /\ RetryStatus(c) = "Ready" => c.v < MaxAttempts
  BY RemoteConstants DEF RetryStatus, Lease

(* Every step keeps the records sound and their versions from shrinking. *)
LEMMA RecordsStep ==
    ASSUME Types, Leases, Next PROVE Records' /\ Grow
<1>1. Records /\ keys \subseteq keys' /\ \A x \in Thread : Poised(th[x], keys) /\ Proper(th[x])
  BY KeysGrow, Zenon DEF Leases, Records, Types
<1>2. 0 \in Thread /\ Session \subseteq Thread
  BY SessionIsThread, Zenon
<1>3. \A t \in Task : rec[t].version \in Nat
  BY Zenon DEF Types, Rec
<1>4. ASSUME NEW t \in Task, Enqueue(t) PROVE Records' /\ Grow
  <2>1. /\ rec'[t].version = rec[t].version /\ rec'[t].attempts = rec[t].attempts /\ rec'[t].st = "Ready"
        /\ \A u \in Task : u # t => rec'[u] = rec[u]
    BY <1>4, Zenon DEF Enqueue, Types, Rec
  <2>2. Sound(t, rec[t]) /\ rec[t].version = 0
    BY <1>1, <1>4, ZenonT(30) DEF Records, Enqueue, Sound
  <2>3. Sound(t, rec[t])'
    BY <2>1, <2>2, RemoteConstants DEF Sound
  <2>4. keys' = keys /\ late' = late
    BY <1>4, Zenon DEF Enqueue, engine
  <2> QED BY <1>1, <1>3, <2>1, <2>3, <2>4 DEF Records, Sound, Grow
<1>5. CASE ApplyLate
  <2>1. PICK p \in late : /\ late' = late \ {p}
                          /\ rec' = IF rec[p.t] = p.old THEN [rec EXCEPT ![p.t] = p.new] ELSE rec
                          /\ keys' = keys
    BY <1>5, Zenon DEF ApplyLate, engine
  <2>2. p.t \in Task /\ Sound(p.t, p.new) /\ p.old.version <= p.new.version
    BY <1>1, Zenon DEF Records, Types, Proposal
  <2> QED BY <1>1, <1>3, <2>1, <2>2 DEF Records, Sound, Grow, Types
<1>6. ASSUME NEW x \in Thread, Record(x) PROVE Records' /\ Grow
  <2>1. th[x].c \in Lease /\ <<th[x].c.t, th[x].c.s>> \in keys /\ UNCHANGED keys
    BY <1>1, <1>6, Zenon DEF Record, At, Poised, Proper, Serving, engine
  <2> QED BY <1>1, <1>6, <2>1, SettleRecords, Zenon DEF Record, Grow
<1>7. ASSUME NEW x \in Thread, Failed(x) PROVE Records' /\ Grow
  <2>1. th[x].c \in Lease /\ (At(x, "failed") => th[x].c.v < MaxAttempts) /\ UNCHANGED keys
    BY <1>1, <1>7, ZenonT(30) DEF Failed, At, Poised, Proper, Serving, engine
  <2>2. PICK st \in {"Ready", "DeadLettered"} :
          /\ st = "Ready" => At(x, "failed")
          /\ Settle(x, th[x].c, st, On(x, "finish"), Fail(x))
    BY <1>7, Zenon DEF Failed
  <2> QED BY <1>1, <2>1, <2>2, SettleRecords, ZenonT(30) DEF Grow
<1>8. ASSUME NEW x \in Thread, Unsent(x) PROVE Records' /\ Grow
  <2>1. th[x].c \in Lease /\ UNCHANGED keys
    BY <1>1, <1>8, Zenon DEF Unsent, At, Proper, Dispatching, engine
  <2> QED BY <1>1, <1>8, <2>1, RetryFits, SettleRecords, ZenonT(30) DEF Unsent, Grow
<1>9. ASSUME NEW x \in Thread, RetryDropped(x) PROVE Records' /\ Grow
  <2>1. th[x].todo \subseteq Lease /\ UNCHANGED keys
    BY <1>1, <1>9, Zenon DEF RetryDropped, At, Proper, engine
  <2> QED BY <1>1, <1>9, <2>1, RetryFits, SettleRecords, ZenonT(30) DEF RetryDropped, Grow
<1>10. CASE ReapOne
  <2>1. th[0].todo \subseteq Lease /\ UNCHANGED keys
    BY <1>1, <1>2, <1>10, Zenon DEF ReapOne, At, Proper, engine
  <2> QED BY <1>1, <1>2, <1>10, <2>1, RetryFits, SettleRecords, ZenonT(30) DEF ReapOne, Grow
<1>11. ASSUME NEW x \in Thread, ProposeClaim(x) PROVE Records' /\ Grow
  <2> DEFINE c == th[x].c
             new == Granted(c)
  <2>1. c \in Lease /\ c.t \in Task /\ c.v \in 1..MaxAttempts /\ keys' = keys
    BY <1>1, <1>11, ZenonT(30) DEF ProposeClaim, At, Poised, Proper, Dispatching, Lease, engine
  <2>2. rec[c.t].version + 1 = c.v => Sound(c.t, new) /\ new.version = rec[c.t].version + 1
    <3>1. rec[c.t].attempts = rec[c.t].version /\ rec[c.t].version \in Nat
      BY <1>1, <1>3, <2>1, ZenonT(30) DEF Records, Sound
    <3> QED BY <2>1, <3>1, RemoteConstants DEF Granted, Sound
  <2> HIDE DEF new
  <2>3. CASE rec[c.t].version + 1 = c.v /\ rec' = [rec EXCEPT ![c.t] = new] /\ late' = late
    BY <1>1, <1>3, <2>1, <2>2, <2>3, SMTT(30) DEF Records, Sound, Grow, Types
  <2>4. CASE rec' = rec /\ late' = late
    BY <1>1, <2>4, SameRecords, Zenon DEF store
  <2>5. CASE /\ rec[c.t].version + 1 = c.v /\ rec' = rec
             /\ late' = late \cup {[t |-> c.t, old |-> rec[c.t], new |-> new]}
    BY <1>1, <1>3, <2>1, <2>2, <2>5, SMTT(30) DEF Records, Sound, Grow
  <2> QED BY <1>11, <2>3, <2>4, <2>5, Zenon DEF ProposeClaim, new
<1>12. CASE UNCHANGED store
  BY <1>1, <1>12, SameRecords, Zenon
<1>13. CASE Store
  BY <1>4, <1>5, <1>12, <1>13, Zenon DEF Store, Activate, Register, Crash
<1>14. CASE Loop
  BY <1>9, <1>10, <1>12, <1>14, ZenonT(30) DEF Loop, Reap, Forget, ReapEnds, Drop
<1>15. ASSUME NEW s \in Session, Frames(s) PROVE Records' /\ Grow
  BY <1>12, <1>15, ZenonT(30) DEF Frames, Heartbeat, Close, Grant, Acknowledge
<1>16. ASSUME NEW x \in Thread, Serve(x) \/ Dispatch(x) PROVE Records' /\ Grow
  BY <1>6, <1>7, <1>8, <1>11, <1>12, <1>16, ZenonT(30)
  DEF Serve, Dispatch, Complete, Finish, ReadReady, Reserve, PrepareClaim, Send, Unassign
<1> QED BY <1>13, <1>14, <1>15, <1>16, NextCases, Zenon

(* A thread that goes to a poised state disturbs no other. *)
LEMMA GoPoised ==
    ASSUME Threads, \A y \in Thread : Poised(th[y], keys), keys \subseteq keys',
           NEW x \in Thread, NEW r, Go(x, r), Calm(r) \/ Poised(r, keys')
    PROVE  \A y \in Thread : Poised(th'[y], keys')
  BY Zenon DEF Threads, Go, Calm, Poised

(* Every step leaves every thread poised. *)
LEMMA PoisedStep ==
    ASSUME Types, Leases, Next PROVE \A y \in Thread : Poised(th'[y], keys')
<1>1. Threads /\ keys \subseteq keys' /\ \A x \in Thread : Poised(th[x], keys) /\ Proper(th[x])
  BY KeysGrow, Zenon DEF Leases, Types, Threads
<1>2. CASE CalmStep
  BY <1>1, <1>2, Zenon DEF CalmStep, Calm, Poised
<1>3. ASSUME NEW s \in Session, NEW c \in sent,
             NEW status \in {"Accepted", "Completed", "Retryable", "Fatal"}, Acknowledge(s, c, status)
      PROVE  \A y \in Thread : Poised(th'[y], keys')
  <2>1. c.v \in Nat
    BY Zenon DEF Types, Lease
  <2>2. c.v < MaxAttempts => Poised(Turn("failed", {}, c, {}), keys')
    BY Zenon DEF Poised, Turn
  <2>3. Calm(Turn("complete", {}, c, {})) /\ Calm(Turn("dead", {}, c, {}))
    BY CalmStates, Zenon
  <2> QED BY <1>1, <1>3, <2>1, <2>2, <2>3, GoPoised, CalmStates, SessionIsThread, RemoteConstants, SMTT(30) DEF Acknowledge
<1>4. ASSUME NEW x \in Thread, Complete(x) PROVE \A y \in Thread : Poised(th'[y], keys')
  <2>1. <<th[x].c.t, th[x].c.s>> \in keys' => Poised(On(x, "record"), keys')
    BY Zenon DEF Poised, On, Turn
  <2> QED BY <1>1, <1>4, <2>1, GoPoised, CalmStates, ZenonT(30) DEF Complete
<1>5. ASSUME NEW x \in Thread, PrepareClaim(x) PROVE \A y \in Thread : Poised(th'[y], keys')
  <2> DEFINE c == th[x].c
             r == Turn("propose", th[x].todo, [t |-> c.t, s |-> c.s, v |-> rec[c.t].version + 1], {})
  <2>1. c.t \in Task
    BY <1>1, <1>5, Zenon DEF PrepareClaim, At, Proper, Dispatching, Lease
  <2>2. c.t \in Ready => rec[c.t].version + 1 \in 1..MaxAttempts
    <3>1. rec[c.t].version \in Nat /\ Sound(c.t, rec[c.t])
      BY <2>1, Zenon DEF Leases, Types, Rec
    <3> QED BY <3>1, RemoteConstants, SMTT(30) DEF Ready, Sound
  <2>3. c.t \in Ready => Poised(r, keys')
    BY <2>2, Zenon DEF Poised, Turn
  <2> HIDE DEF r
  <2>4. \/ c.t \in Ready /\ Go(x, r)
        \/ Go(x, Scan(th[x].todo)) \/ Go(x, Fail(x))
    BY <1>5, Zenon DEF PrepareClaim, r
  <2> QED BY <1>1, <2>3, <2>4, GoPoised, CalmStates, Zenon
<1>6. ASSUME NEW x \in Thread, ProposeClaim(x) PROVE \A y \in Thread : Poised(th'[y], keys')
  <2>1. Poised(On(x, "send"), keys')
    BY Zenon DEF Poised, On, Turn
  <2> QED BY <1>1, <1>6, <2>1, GoPoised, CalmStates, Zenon DEF ProposeClaim
<1> QED BY <1>2, <1>3, <1>4, <1>5, <1>6, NextCases, CalmSteps, Zenon DEF Frames, Serve, Dispatch

(* Leases is invariant. *)
LEMMA LeasesInvariant == Spec => [](Types /\ Leases)
<1>1. Types /\ Leases /\ [Next]_vars => Leases'
  <2> SUFFICES ASSUME Types, Leases, [Next]_vars PROVE Leases'
    BY Zenon
  <2>1. CASE Next
    BY <2>1, RecordsStep, PoisedStep, Zenon DEF Leases, Records
  <2>2. CASE UNCHANGED vars
    BY <2>2, Zenon DEF Leases, Sound, Poised, vars, store, engine
  <2> QED BY <2>1, <2>2, Zenon
<1> QED BY <1>1, LeasesInit, TypesInvariant, PTL DEF Spec
-----------------------------------------------------------------------------
(* Deliveries is invariant: a step that neither starts nor makes a delivery   *)
(* keeps it as versions only grow; a claim is granted only the version after  *)
(* the record's, which nobody has.                                            *)
Counted == \A c \in Lease : c.v \in 1..rec[c.t].version => c.v \in 1..rec'[c.t].version

(* A lease version a task has reached stays reached. *)
LEMMA GrowCounts == ASSUME Types, Types', Grow PROVE Counted
<1> SUFFICES ASSUME NEW c \in Lease, c.v \in 1..rec[c.t].version PROVE c.v \in 1..rec'[c.t].version
  BY Zenon DEF Counted
<1>1. c.t \in Task /\ c.v \in Nat
  BY Zenon DEF Lease
<1>2. rec[c.t].version \in Nat /\ rec'[c.t].version \in Nat /\ rec[c.t].version <= rec'[c.t].version
  BY <1>1, Zenon DEF Types, Rec, Grow
<1> QED BY <1>1, <1>2

(* A thread that sends holds a lease. *)
LEMMA SendingLeases == Types => \A x \in Sending : th[x].c \in Lease /\ th[x].c.s \in Session
  BY Zenon DEF Types, Sending, At, Proper, Dispatching

(* A step that neither sends nor prepares to keeps the deliveries. *)
LEMMA QuietDeliveries ==
    ASSUME Types, Deliveries, Counted, sent' = sent,
           \A y \in Thread : th'[y] = th[y] \/ th'[y].pc # "send"
    PROVE  Deliveries'
<1>1. \A y \in Sending' : y \in Sending /\ th'[y] = th[y]
  BY Zenon DEF Sending, At
<1>2. \A c \in sent : c.v \in 1..rec'[c.t].version
  BY Zenon DEF Deliveries, Types, Counted
<1>3. \A x \in Sending : th[x].c.v \in 1..rec'[th[x].c.t].version
  BY SendingLeases, Zenon DEF Deliveries, Counted
<1> QED BY <1>1, <1>2, <1>3, Zenon DEF Deliveries, OneHolderPerLease

(* Every step keeps each delivery to one lease version. *)
LEMMA DeliveriesStep == ASSUME Types, Leases, Deliveries, Next, Types' PROVE Deliveries'
<1>1. Threads /\ Counted
  BY RecordsStep, GrowCounts, Zenon DEF Types, Threads
<1>2. CASE sent' = sent /\ CalmStep
  BY <1>1, <1>2, QuietDeliveries, Zenon DEF CalmStep, Calm
<1>3. ASSUME NEW s \in Session, Frames(s) PROVE Deliveries'
  <2>1. CASE \E c \in sent, status \in {"Accepted", "Completed", "Retryable", "Fatal"} : Acknowledge(s, c, status)
    <3>1. sent' = sent /\ \E r : Go(s, r) /\ r.pc # "send"
      BY <2>1, CalmStates, ZenonT(30) DEF Acknowledge, coord, Turn, Calm
    <3> QED BY <1>1, <3>1, QuietDeliveries, SessionIsThread, Zenon DEF Go, Threads
  <2>2. CASE Heartbeat(s) \/ Close(s) \/ \E n \in Credit : Grant(s, n)
    BY <1>2, <2>2, CalmSteps, ZenonT(30) DEF Heartbeat, Close, Grant, coord
  <2> QED BY <1>3, <2>1, <2>2, Zenon DEF Frames
<1>4. CASE Store \/ Loop
  <2>1. sent' = sent
    BY <1>4, ZenonT(30) DEF Store, Loop, coord, Activate, Enqueue, Register, ApplyLate, Crash,
                Reap, ReapOne, Forget, ReapEnds, Drop, RetryDropped
  <2> QED BY <1>2, <1>4, <2>1, CalmSteps, Zenon
<1>5. ASSUME NEW x \in Thread,
             \/ Record(x) \/ Failed(x) \/ Finish(x)
             \/ ReadReady(x) \/ Reserve(x) \/ Unsent(x) \/ Unassign(x)
      PROVE  Deliveries'
  <2>1. sent' = sent
    BY <1>5, ZenonT(30) DEF coord, Record, Failed, Finish, ReadReady, Reserve, Unsent, Unassign
  <2> QED BY <1>2, <1>5, <2>1, CalmSteps, Zenon
<1>6. ASSUME NEW x \in Thread, Complete(x) \/ PrepareClaim(x) PROVE Deliveries'
  <2>1. sent' = sent /\ \E r : Go(x, r) /\ r.pc # "send"
    <3>1. Fail(x).pc # "send" /\ On(x, "record").pc # "send" /\ \A S : Scan(S).pc # "send"
      BY CalmStates, Zenon DEF Calm, On, Turn
    <3>2. \A todo, c : Turn("propose", todo, c, {}).pc # "send"
      BY Zenon DEF Turn
    <3> QED BY <1>6, <3>1, <3>2, ZenonT(30) DEF Complete, PrepareClaim, coord
  <2> QED BY <1>1, <2>1, QuietDeliveries, Zenon DEF Go, Threads
<1>7. ASSUME NEW x \in Thread, ProposeClaim(x) PROVE Deliveries'
  <2> DEFINE c == th[x].c
  <2>1. sent' = sent /\ c \in Lease /\ c.t \in Task
    BY <1>1, <1>7, Zenon DEF ProposeClaim, At, Threads, Proper, Dispatching, Lease, coord
  <2>2. CASE Go(x, Fail(x))
    <3>1. Fail(x).pc # "send"
      BY CalmStates, Zenon DEF Calm
    <3> QED BY <1>1, <2>1, <2>2, <3>1, QuietDeliveries, Zenon DEF Go, Threads
  <2>3. CASE Go(x, On(x, "send")) /\ rec[c.t].version + 1 = c.v /\ rec' = [rec EXCEPT ![c.t] = Granted(c)]
    <3>1. On(x, "send").pc = "send" /\ On(x, "send").c = c
      BY Zenon DEF On, Turn
    <3>2. th'[x].c = c /\ \A y \in Thread : y # x => th'[y] = th[y]
      BY <1>1, <2>3, <3>1, Zenon DEF Go, Threads
    <3>3. \A y \in Sending' : y = x \/ (y \in Sending /\ th'[y] = th[y])
      BY <3>2, Zenon DEF Sending, At
    <3>4. rec[c.t].version \in Nat /\ rec'[c.t].version = c.v
      BY <2>1, <2>3, Zenon DEF Types, Rec, Granted
    <3>5. \A d \in Lease : d.v \in 1..rec[d.t].version => ~Same(c, d)
      BY <2>1, <2>3, <3>4, SMTT(30) DEF Same, Lease
    <3>6. \A d \in sent : d \in Lease /\ ~Same(c, d) /\ d.v \in 1..rec'[d.t].version
      BY <1>1, <3>5, Zenon DEF Deliveries, Types, Counted
    <3>7. \A y \in Sending : ~Same(c, th[y].c) /\ th[y].c.v \in 1..rec'[th[y].c.t].version
      BY <1>1, <3>5, SendingLeases, Zenon DEF Deliveries, Counted
    <3>8. c.v \in 1..rec'[c.t].version
      BY <2>3, <3>4, SMTT(30)
    <3> QED BY <2>1, <3>2, <3>3, <3>6, <3>7, <3>8, SMTT(30) DEF Deliveries, OneHolderPerLease, Same
  <2> QED BY <1>7, <2>2, <2>3, Zenon DEF ProposeClaim
<1>8. ASSUME NEW x \in Thread, Send(x) PROVE Deliveries'
  <2> DEFINE c == th[x].c
  <2>1. CalmStep /\ x \in Sending /\ rec' = rec
    BY <1>8, CalmSteps, Zenon DEF Sending, Send, At, store
  <2>2. CASE sent' = sent
    BY <1>2, <2>1, <2>2, Zenon
  <2>3. CASE sent' = sent \cup {c} /\ Go(x, Scan(th[x].todo))
    <3>1. \A y \in Sending' : y \in Sending /\ th'[y] = th[y] /\ y # x
      BY <1>1, <2>1, <2>3, CalmStates, Zenon DEF Sending, At, CalmStep, Calm, Go, Threads
    <3>2. \A y \in Sending : y # x => ~Same(th[y].c, c)
      BY <2>1, Zenon DEF Deliveries
    <3>3. \A d \in sent : ~Same(c, d) /\ ~Same(d, c)
      BY <2>1, Zenon DEF Deliveries, Same
    <3> QED BY <2>1, <2>3, <3>1, <3>2, <3>3, SMTT(30) DEF Deliveries, OneHolderPerLease, Same
  <2> QED BY <1>8, <2>2, <2>3, Zenon DEF Send
<1> QED BY <1>3, <1>4, <1>5, <1>6, <1>7, <1>8, NextCases, Zenon DEF Serve, Dispatch

(* Deliveries is invariant. *)
LEMMA DeliveriesInvariant == Spec => [](Types /\ Leases /\ Deliveries)
<1>1. Init => Deliveries
  BY DEF Init, Deliveries, OneHolderPerLease, Sending, At, Idle, Turn
<1>2. Types /\ Leases /\ Deliveries /\ [Next]_vars /\ Types' => Deliveries'
  <2> SUFFICES ASSUME Types, Leases, Deliveries, [Next]_vars, Types' PROVE Deliveries'
    BY Zenon
  <2>1. CASE Next
    BY <2>1, DeliveriesStep, Zenon
  <2>2. CASE UNCHANGED vars
    BY <2>2, Zenon DEF Deliveries, OneHolderPerLease, Sending, At, vars, store, coord
  <2> QED BY <2>1, <2>2, Zenon
<1> QED BY <1>1, <1>2, LeasesInvariant, PTL DEF Spec

(* The lease versions tell the deliveries of a task apart, and there are at   *)
(* most MaxAttempts of them.                                                  *)
LEMMA BoundedDeliveries == ASSUME Types, Leases, Deliveries PROVE DeliveriesBounded
<1> SUFFICES ASSUME NEW t \in Task PROVE Cardinality({c \in sent : c.t = t}) <= MaxAttempts
  BY Zenon DEF DeliveriesBounded
<1> DEFINE D == {c \in sent : c.t = t}
           f == [c \in D |-> c.v]
<1>1. MaxAttempts \in Nat /\ rec[t].version \in Nat /\ rec[t].version <= MaxAttempts
  BY RemoteConstants, ZenonT(30) DEF Types, Rec, Leases, Sound
<1>2. \A c \in D : c.v \in 1..MaxAttempts
  BY <1>1 DEF Deliveries
<1>3. \A c, d \in D : c.v = d.v => c = d
  BY Zenon DEF Deliveries, OneHolderPerLease
<1> HIDE DEF D
<1>4. f \in Injection(D, 1..MaxAttempts)
  BY <1>2, <1>3, Zenon DEF Injection, IsInjective
<1> HIDE DEF f
<1>5. IsFiniteSet(1..MaxAttempts) /\ Cardinality(1..MaxAttempts) = MaxAttempts
  BY <1>1, FS_Interval, RemoteConstants
<1>6. Cardinality(D) <= MaxAttempts
  BY <1>4, <1>5, FS_Injection
<1> QED BY <1>6, Zenon DEF D

(* The leases of remote tasks fence their workers (handle_acknowledgement,    *)
(* claim_and_send, reap_once, disconnect_session): however threads, late      *)
(* proposals, faults and restarts interleave, a record is completed only by   *)
(* the holder of its lease, no lease version is in two hands, and a task is   *)
(* delivered at most MaxAttempts times.                                       *)
THEOREM LeasesFence == Spec => []LeasesFenceWorkers
<1>1. Types /\ Leases /\ Deliveries => LeasesFenceWorkers
  <2> SUFFICES ASSUME Types, Leases, Deliveries PROVE LeasesFenceWorkers
    BY Zenon
  <2>1. TypeOK
    <3>1. \A t \in Task : rec[t].attempts = rec[t].version
      BY ZenonT(30) DEF Leases, Sound
    <3>2. \A p \in late : p.t \in Task
      BY Zenon DEF Types, Proposal
    <3>3. sent \subseteq Claims /\ \A x \in Thread : th[x].c \in Claims
      BY LeaseIsClaim, Zenon DEF Types, Proper
    <3> QED BY <3>1, <3>2, <3>3, Zenon DEF Types, TypeOK, Rec, Status
  <2>2. CompletedByItsHolder
    BY Zenon DEF Leases, Sound, CompletedByItsHolder
  <2>3. OneHolderPerLease
    BY ZenonT(30) DEF Deliveries
  <2> QED BY <2>1, <2>2, <2>3, BoundedDeliveries, Zenon DEF LeasesFenceWorkers
<1> QED BY <1>1, DeliveriesInvariant, PTL
-----------------------------------------------------------------------------
(* Credits is invariant. *)
LEMMA GrantedNat == Types => \A w \in Worker : granted[w] \in Nat
<1>1. Credit \cup {0} \subseteq Nat
  BY RemoteConstants, SMTT(30)
<1> QED BY <1>1, Zenon DEF Types

(* Giving reservations back keeps the credit. *)
LEMMA FewerReservations ==
    ASSUME Types, Types', Credits, UNCHANGED <<owner, live, granted>>,
           \A w \in Worker : inflight'[w] \subseteq inflight[w]
    PROVE  Credits'
<1> SUFFICES ASSUME NEW w \in Worker
             PROVE  /\ IsFiniteSet(inflight'[w]) /\ Cardinality(inflight'[w]) <= granted'[w]
                    /\ inflight'[w] # {} => \E s \in live' : owner'[s] = w
  BY Zenon DEF Credits, CreditHolds
<1>1. IsFiniteSet(inflight[w]) /\ Cardinality(inflight[w]) <= granted[w] /\ granted[w] \in Nat
  BY GrantedNat, Zenon DEF Credits, CreditHolds
<1>2. IsFiniteSet(inflight'[w]) /\ Cardinality(inflight'[w]) <= Cardinality(inflight[w])
  BY <1>1, FS_Subset, Zenon
<1>3. Cardinality(inflight[w]) \in Nat /\ Cardinality(inflight'[w]) \in Nat
  BY <1>1, <1>2, FS_CardinalityType, Zenon
<1> QED BY <1>1, <1>2, <1>3, SMTT(30) DEF Credits

(* A reservation taken under Available keeps the credit. *)
LEMMA OneMoreReservation ==
    ASSUME Types, Credits, NEW w \in Worker, NEW t \in Task, t \notin inflight[w], Available(w),
           \E s \in live : owner[s] = w, UNCHANGED <<owner, live, granted>>,
           inflight' = [inflight EXCEPT ![w] = @ \cup {t}]
    PROVE  Credits'
<1>1. IsFiniteSet(inflight[w]) /\ granted[w] \in Nat
  BY GrantedNat, Zenon DEF Credits
<1>2. /\ IsFiniteSet(inflight[w] \cup {t})
      /\ Cardinality(inflight[w] \cup {t}) = Cardinality(inflight[w]) + 1
  BY <1>1, FS_AddElement, Zenon
<1>3. Cardinality(inflight[w]) \in Nat
  BY <1>1, FS_CardinalityType, Zenon
<1>4. Cardinality(inflight[w] \cup {t}) <= granted[w]
  BY <1>1, <1>2, <1>3 DEF Available
<1> QED BY <1>2, <1>4, ZenonT(30) DEF Credits, CreditHolds, Types

(* Every step keeps the credit. *)
LEMMA CreditsStep == ASSUME Types, Types', Credits, Next PROVE Credits'
<1>1. /\ \A w \in Worker : inflight[w] \subseteq Task /\ IsFiniteSet(inflight[w])
      /\ \A w \in Worker : granted[w] \in Nat /\ Cardinality(inflight[w]) <= granted[w]
  BY GrantedNat, Zenon DEF Types, Credits, CreditHolds
<1>2. CASE UNCHANGED <<owner, live, granted, inflight>>
  BY <1>2, Zenon DEF Credits, CreditHolds
<1>3. CASE UNCHANGED <<owner, live, granted>> /\ \A w \in Worker : inflight'[w] \subseteq inflight[w]
  BY <1>3, FewerReservations, Zenon
<1>4. \A d : \A w \in Worker : Cancel(d)[w] \subseteq inflight[w]
  BY Zenon DEF Cancel, Types
<1>5. ASSUME NEW w \in Worker, NEW n \in Credit, Register(w, n) PROVE Credits'
  <2>1. inflight[w] = {} /\ Cardinality(inflight[w]) = 0
    BY <1>5, FS_EmptySet, Zenon DEF Credits, Register
  <2>2. /\ granted' = [granted EXCEPT ![w] = n] /\ inflight' = inflight
        /\ \A s \in live : s \in live' /\ owner'[s] = owner[s]
    BY <1>5, Zenon DEF Register, Types
  <2>3. n \in Nat /\ 0 <= n
    BY RemoteConstants
  <2>4. CreditHolds'
    <3> SUFFICES ASSUME NEW v \in Worker PROVE Cardinality(inflight'[v]) <= granted'[v]
      BY Zenon DEF CreditHolds
    <3> QED BY <1>1, <2>1, <2>2, <2>3, ZenonT(30) DEF Types
  <2> QED BY <1>1, <2>2, <2>4, Zenon DEF Credits
<1>6. CASE Crash
  <2>1. \A w \in Worker : inflight'[w] = {} /\ granted'[w] = 0
    BY <1>6, Zenon DEF Crash
  <2>2. IsFiniteSet({}) /\ Cardinality({}) <= 0
    BY FS_EmptySet
  <2> QED BY <2>1, <2>2, ZenonT(30) DEF Credits, CreditHolds
<1>7. ASSUME NEW s \in Session, NEW n \in Credit, Grant(s, n) PROVE Credits'
  BY <1>1, <1>7, ZenonT(30) DEF Grant, Credits, CreditHolds, Types
<1>8. ASSUME NEW x \in Thread, Drop(x) PROVE Credits'
  <2> DEFINE s == th[x].c.s
  <2>1. /\ owner' = owner /\ live' = live \ {s}
        /\ s \in live => /\ granted' = [granted EXCEPT ![owner[s]] = 0]
                         /\ inflight' = [inflight EXCEPT ![owner[s]] = {}]
        /\ s \notin live => granted' = granted /\ inflight' = inflight
    BY <1>8, ZenonT(30) DEF Drop
  <2> SUFFICES ASSUME NEW w \in Worker
               PROVE  /\ IsFiniteSet(inflight'[w]) /\ Cardinality(inflight'[w]) <= granted'[w]
                      /\ inflight'[w] # {} => \E r \in live' : owner'[r] = w
    BY ZenonT(30) DEF Credits, CreditHolds
  <2>2. CASE s \in live /\ w = owner[s]
    <3>1. inflight'[w] = {} /\ granted'[w] = 0
      BY <2>1, <2>2, Zenon DEF Types
    <3> QED BY <3>1, FS_EmptySet, SMTT(30)
  <2>3. CASE ~(s \in live /\ w = owner[s])
    <3>1. inflight'[w] = inflight[w] /\ granted'[w] = granted[w]
      BY <2>1, <2>3, Zenon DEF Types
    <3> QED BY <1>1, <2>1, <2>3, <3>1, Zenon DEF Credits
  <2> QED BY <2>2, <2>3, ZenonT(30)
<1>9. ASSUME NEW x \in Thread, Reserve(x) PROVE Credits'
  <2>1. PICK t \in th[x].todo : Reserve(x)!2!(t)
    BY <1>9, ZenonT(30) DEF Reserve
  <2> DEFINE stop == {w \in Candidate(t) : t \in inflight[w] \/ Available(w)}
             v == Min(stop)
  <2>2. UNCHANGED <<owner, live, granted>>
    BY <1>9, ZenonT(30) DEF Reserve
  <2>3. CASE inflight' = inflight
    BY <1>2, <2>2, <2>3, Zenon
  <2>4. CASE stop # {} /\ t \notin inflight[v] /\ inflight' = [inflight EXCEPT ![v] = @ \cup {t}]
    <3>1. t \in Task
      BY <1>9, ZenonT(30) DEF Types, Proper, Reserve, At
    <3>2. stop \in SUBSET Nat /\ stop \subseteq Worker
      BY <3>1, RemoteConstants, ZenonT(30) DEF Candidate
    <3>3. v \in stop
      <4> HIDE DEF stop
      <4> QED BY <2>4, <3>2, Least, Zenon
    <3>4. v \in Worker /\ Cardinality(inflight[v]) < granted[v] /\ \E s \in live : owner[s] = v
      BY <2>4, <3>2, <3>3, Zenon DEF Candidate, Available
    <3> QED BY <2>2, <2>4, <3>1, <3>4, OneMoreReservation, Zenon DEF Available
  <2> QED BY <2>1, <2>3, <2>4, Zenon
<1>10. ASSUME NEW x \in Thread, Finish(x) \/ PrepareClaim(x) \/ Unassign(x) PROVE Credits'
  BY <1>3, <1>4, <1>10, ZenonT(30) DEF Finish, PrepareClaim, Unassign, Remove, Cancel
<1>11. CASE Forget
  BY <1>3, <1>4, <1>11, ZenonT(30) DEF Forget, Remove
<1>12. CASE Store
  BY <1>2, <1>5, <1>6, <1>12, Zenon DEF Store, Activate, Enqueue, ApplyLate, coord, credits
<1>13. CASE Loop
  BY <1>2, <1>8, <1>11, <1>13, ZenonT(30) DEF Loop, Reap, ReapOne, ReapEnds, RetryDropped, coord, credits
<1>14. ASSUME NEW s \in Session, Frames(s) PROVE Credits'
  BY <1>2, <1>7, <1>14, ZenonT(30) DEF Frames, Heartbeat, Close, Acknowledge, coord, credits
<1>15. ASSUME NEW x \in Thread, Serve(x) \/ Dispatch(x) PROVE Credits'
  BY <1>2, <1>9, <1>10, <1>15, ZenonT(30)
  DEF Serve, Dispatch, Complete, Record, Failed, ReadReady, ProposeClaim, Send, Unsent, coord, credits
<1> QED BY <1>12, <1>13, <1>14, <1>15, NextCases, Zenon

(* CreditController::invariant_holds at every moment: no worker has more      *)
(* reservations than the credit it advertised last, whichever threads         *)
(* reserve, cancel, grant and disconnect in between.                          *)
THEOREM CreditIsKept == Spec => []CreditHolds
<1>1. Init => Credits
  BY FS_EmptySet DEF Init, Credits, CreditHolds
<1>2. Types /\ Types' /\ Credits /\ [Next]_vars => Credits'
  <2> SUFFICES ASSUME Types, Types', Credits, [Next]_vars PROVE Credits'
    BY Zenon
  <2>1. CASE Next
    BY <2>1, CreditsStep, Zenon
  <2>2. CASE UNCHANGED vars
    BY <2>2, Zenon DEF Credits, CreditHolds, vars, coord, credits
  <2> QED BY <2>1, <2>2, Zenon
<1>3. Credits => CreditHolds
  BY Zenon DEF Credits
<1> QED BY <1>1, <1>2, <1>3, TypesInvariant, PTL DEF Spec
=============================================================================
