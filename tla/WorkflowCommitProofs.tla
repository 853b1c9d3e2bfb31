------------------------ MODULE WorkflowCommitProofs ------------------------
(***************************************************************************)
(* The command path tells the truth, for any number of nodes, calls,       *)
(* instances and attempts.  The inductive invariant Inv says, besides what *)
(* the replicated store guarantees (SP!IInv) and what the rows of a        *)
(* database and its receipts are (States):                                 *)
(*   Proposals  every batch in flight or in the log is one the builder     *)
(*              makes for its call;                                        *)
(*   CallsInv   what a handler in progress has read is still a prefix of   *)
(*              what is committed, its proposals are accounted for by its  *)
(*              program counter, and what it answers holds;                *)
(*   Admitted   permits are held by distinct calls, and never exceed the   *)
(*              limit of the node.                                         *)
(* Facts about finite sets are hypotheses of the lemmas (Counting, Tails,  *)
(* Singletons, Boundaries); the last section discharges them.              *)
(***************************************************************************)
EXTENDS WorkflowCommit, WorkflowCallsProofs
-----------------------------------------------------------------------------
(* The operators of the batch are the same seen through the store. *)
LEMMA StoreOutcome ==
    ASSUME NEW st, NEW b
    PROVE  Store!Outcome(st, b) = Outcome(st, b)
  BY Zenon DEF Outcome, Valid, Failing, Satisfied, AppendOnly, Expect, Rejected, Duplicate,
         Applied, PreconditionFailed, Min,
         Store!Outcome, Store!Valid, Store!Failing, Store!Satisfied, Store!AppendOnly,
         Store!Expect, Store!Rejected, Store!Duplicate, Store!Applied,
         Store!PreconditionFailed, Store!Min

LEMMA StoreApply ==
    ASSUME NEW st, NEW b
    PROVE  Store!ApplyBatch(st, b) = ApplyBatch(st, b)
  BY StoreOutcome, Zenon DEF ApplyBatch, Write, Receipt, Store!ApplyBatch, Store!Write, Store!Receipt

LEMMA CommitGrows ==
    ASSUME Replicated, log \in Seq(Store!Entry), NEW b, Store!Commit(Store!BatchEntry(b))
    PROVE  Grows(b)
<1> DEFINE e == Store!BatchEntry(b)
           st == chain[Len(log)]
<1>1. e.kind = "batch" /\ e.batch = b
  BY Zenon DEF Store!BatchEntry
<1>2. Store!ApplyEntry(st, e) = ApplyBatch(st, b) /\ Store!EntryOutcome(st, e) = Outcome(st, b)
  BY <1>1, StoreOutcome, StoreApply, Zenon DEF Store!ApplyEntry, Store!EntryOutcome
<1>3. /\ log' = Append(log, e)
      /\ chain' = Store!Extend(chain, Len(log) + 1, ApplyBatch(st, b))
      /\ verdict' = Store!Extend(verdict, Len(log) + 1, Outcome(st, b))
      /\ UNCHANGED <<disk, last, up, answers>>
  BY <1>2, Zenon DEF Store!Commit
<1> HIDE DEF e, st
<1>4. /\ Len(log') = Len(log) + 1 /\ log'[Len(log) + 1] = e
      /\ \A i \in 1..Len(log) : log'[i] = log[i]
      /\ DOMAIN log' = 1..(Len(log) + 1)
  BY <1>3 DEF Replicated
<1>5. /\ chain'[Len(log) + 1] = ApplyBatch(st, b)
      /\ \A i \in 0..Len(log) : chain'[i] = chain[i]
  BY <1>3 DEF Store!Extend, Replicated
<1>6. /\ verdict'[Len(log) + 1] = Outcome(st, b)
      /\ \A i \in 1..Len(log) : verdict'[i] = verdict[i]
  BY <1>3 DEF Store!Extend, Replicated
<1> QED  BY <1>1, <1>3, <1>4, <1>5, <1>6, Zenon DEF Grows, st

(* Any other step leaves the log and its replay alone. *)
LEMMA LogStays ==
    ASSUME [Next]_vars, ~ \E p \in flight : CommitProposal(p)
    PROVE  UNCHANGED <<log, chain, verdict>>
<1>1. CASE \E c \in Call : CallStep(c)
  BY <1>1, CallLeavesStore, Zenon DEF storeVars
<1>2. CASE \E p \in flight : Lose(p)
  BY <1>2, Zenon DEF Lose, storeVars
<1>3. CASE \E n \in Node : ApplyAt(n) \/ CrashAt(n) \/ RestartAt(n)
  BY <1>3, Zenon DEF ApplyAt, CrashAt, RestartAt, Store!Apply, Store!Crash, Store!Restart
<1>4. CASE UNCHANGED vars
  BY <1>4, Zenon DEF vars
<1> QED  BY <1>1, <1>2, <1>3, <1>4, Zenon DEF Next

(* The proofs about the replicated store. *)
SP == INSTANCE ReplicatedStoreProofs WITH
    Batch <- WorkflowBatch, Membership <- {}, InitialMembership <- {}

(* The operators of the batch are the same seen through the proofs of it. *)
LEMMA SameOutcome ==
    ASSUME NEW st, NEW b
    PROVE  SP!Outcome(st, b) = Outcome(st, b)
  BY DEF Outcome, Valid, Failing, Satisfied, AppendOnly, Expect, Rejected, Duplicate,
         Applied, PreconditionFailed, Min,
         SP!Outcome, SP!Valid, SP!Failing, SP!Satisfied, SP!AppendOnly, SP!Expect,
         SP!Rejected, SP!Duplicate, SP!Applied, SP!PreconditionFailed, SP!Min

LEMMA SameApply ==
    ASSUME NEW st, NEW b
    PROVE  SP!ApplyBatch(st, b) = ApplyBatch(st, b)
  BY SameOutcome DEF ApplyBatch, Write, Receipt, SP!ApplyBatch, SP!Write, SP!Receipt

(* A committed proposal is a step of the replicated store. *)
LEMMA CommitIsStep ==
    ASSUME NEW c \in Call, NEW b, Made(c, b), Store!Commit(Store!BatchEntry(b))
    PROVE  SP!Next
<1> DEFINE e == SP!BatchEntry(b)
<1>1. b \in WorkflowBatch
  BY MadeIs, Zenon
<1>2. e \in SP!Entry
  BY <1>1, Zenon DEF SP!Entry
<1>3. /\ Store!BatchEntry(b) = e /\ e.kind = "batch" /\ e.batch = b
  BY Zenon DEF Store!BatchEntry, SP!BatchEntry
<1> HIDE DEF e
<1>4. /\ Store!ApplyEntry(chain[Len(log)], e) = SP!ApplyEntry(chain[Len(log)], e)
      /\ Store!EntryOutcome(chain[Len(log)], e) = SP!EntryOutcome(chain[Len(log)], e)
  BY <1>3, SameOutcome, SameApply, StoreOutcome, StoreApply, Zenon DEF Store!ApplyEntry, SP!ApplyEntry,
         Store!EntryOutcome, SP!EntryOutcome
<1>5. SP!Commit(e)
  BY <1>3, <1>4, Zenon DEF Store!Commit, SP!Commit, Store!Extend, SP!Extend
<1> QED  BY <1>2, <1>5, Zenon DEF SP!Next

(* A node's step here is its step there: what an entry leaves is the same.    *)
LEMMA ApplyIsStep ==
    ASSUME NEW n \in Node, Store!Apply(n), log[last[n] + 1].kind = "batch"
    PROVE  SP!Next
<1> DEFINE e == log[last[n] + 1]
           st == disk[n].state
<1>1. /\ Store!ApplyEntry(st, e) = SP!ApplyEntry(st, e)
      /\ Store!EntryOutcome(st, e) = SP!EntryOutcome(st, e)
  BY SameOutcome, SameApply, StoreOutcome, StoreApply, Zenon DEF Store!ApplyEntry, SP!ApplyEntry,
         Store!EntryOutcome, SP!EntryOutcome
<1>2. SP!Apply(n)
  BY <1>1, Zenon DEF Store!Apply, SP!Apply, Store!Persist, SP!Persist, Store!Stored, SP!Stored
<1> QED  BY <1>2, Zenon DEF SP!Next, SP!NodeStep

LEMMA CrashIsStep ==
    ASSUME NEW n \in Node, Store!Crash(n) \/ Store!Restart(n)
    PROVE  SP!Next
<1>1. SP!Crash(n) \/ SP!Restart(n)
  BY Zenon DEF Store!Crash, SP!Crash, Store!Restart, SP!Restart
<1> QED  BY <1>1, Zenon DEF SP!Next, SP!NodeStep

(* Seen through its store, the system is the replicated store. *)
LEMMA StoreSteps ==
    ASSUME Proposals, [Next]_vars
    PROVE  [SP!Next]_(SP!storeVars)
<1>1. ASSUME UNCHANGED storeVars PROVE UNCHANGED SP!storeVars
  BY <1>1, Zenon DEF storeVars, SP!storeVars
<1>2. CASE \E c \in Call : CallStep(c)
  BY <1>1, <1>2, CallLeavesStore, Zenon
<1>3. CASE \E p \in flight : CommitProposal(p)
  <2>1. PICK p \in flight : CommitProposal(p)
    BY <1>3, Zenon
  <2>2. p.call \in Call /\ Made(p.call, p.batch) /\ Store!Commit(Store!BatchEntry(p.batch))
    BY <2>1, Zenon DEF Proposals, CommitProposal
  <2> QED  BY <2>2, CommitIsStep, Zenon
<1>4. CASE \E p \in flight : Lose(p)
  BY <1>1, <1>4, Zenon DEF Lose
<1>5. CASE \E n \in Node : ApplyAt(n)
  <2>1. PICK n \in Node : ApplyAt(n)
    BY <1>5, Zenon
  <2>2. Store!Apply(n) /\ log[last[n] + 1].kind = "batch"
    BY <2>1, Zenon DEF ApplyAt, Store!Apply, Proposals
  <2> QED  BY <2>2, ApplyIsStep, Zenon
<1>6. CASE \E n \in Node : CrashAt(n) \/ RestartAt(n)
  BY <1>6, CrashIsStep, Zenon DEF CrashAt, RestartAt
<1>7. CASE UNCHANGED vars
  BY <1>1, <1>7, Zenon DEF vars, storeVars
<1> QED  BY <1>2, <1>3, <1>4, <1>5, <1>6, <1>7, Zenon DEF Next

(* What those proofs say of the store is what the command path relies on. *)
LEMMA StoreIsReplicated == SP!IInv /\ Proposals => Replicated /\ log \in Seq(Store!Entry)
<1> SUFFICES ASSUME SP!IInv, Proposals PROVE Replicated /\ log \in Seq(Store!Entry)
  BY Zenon
<1>1. SP!Entry = Store!Entry
  BY Zenon DEF SP!Entry, Store!Entry, SP!BatchEntry, Store!BatchEntry,
         SP!MembershipEntry, Store!MembershipEntry, SP!BlankEntry, Store!BlankEntry
<1>2. /\ log \in Seq(Store!Entry) /\ DOMAIN chain = 0..Len(log) /\ DOMAIN verdict = DOMAIN log
      /\ up \subseteq Node /\ \A n \in Node : disk[n].last \in 0..Len(log)
  BY <1>1, Zenon DEF SP!IInv, SP!TypeOK
<1>3. Len(log) \in Nat /\ DOMAIN log = 1..Len(log)
  BY <1>2
<1>4. \A n \in Node : last[n] = disk[n].last /\ disk[n].state = chain[disk[n].last]
  BY Zenon DEF SP!IInv, SP!Bookkeeping, SP!DiskIsReplay
<1>5. \A a \in answers : a[1] \in 1..Len(log) /\ a[2] = verdict[a[1]]
  BY Zenon DEF SP!IInv, SP!Bookkeeping
<1>6. ASSUME NEW i \in 1..Len(log)
      PROVE  /\ chain[i] = ApplyBatch(chain[i - 1], log[i].batch)
             /\ verdict[i] = Outcome(chain[i - 1], log[i].batch)
  <2>1. log[i].kind = "batch"
    BY <1>3, Zenon DEF Proposals
  <2>2. /\ chain[i] = SP!ApplyEntry(chain[i - 1], log[i])
        /\ verdict[i] = SP!EntryOutcome(chain[i - 1], log[i])
    BY Zenon DEF SP!IInv, SP!Replay
  <2> QED  BY <2>1, <2>2, SameOutcome, SameApply, Zenon DEF SP!ApplyEntry, SP!EntryOutcome
<1>7. \A i \in 0..Len(log) : \A j \in i..Len(log) : \A k \in DOMAIN chain[i].db :
          AppendOnly(k) => k \in DOMAIN chain[j].db /\ chain[j].db[k] = chain[i].db[k]
  BY Zenon DEF SP!IInv, SP!RowsStay, SP!AppendOnly, AppendOnly
<1> QED  BY <1>2, <1>3, <1>4, <1>5, <1>6, <1>7, Zenon DEF Replicated
-----------------------------------------------------------------------------
(* The invariant: the replicated store's own, a well-formed state at every    *)
(* point of the log, proposals that are batches of their calls, calls that    *)
(* account for their proposals and hold what the log says, and admission.     *)
Inv == SP!IInv /\ States /\ Proposals /\ CallsInv /\ Admitted

LEMMA InitInv == Counting /\ IsFiniteSet({}) /\ Cardinality({}) = 0 /\ Init => Inv
<1> SUFFICES ASSUME Counting, IsFiniteSet({}), Cardinality({}) = 0, Init PROVE Inv
  BY Zenon
<1>1. SP!IInv
  <2>1. SP!Init
    BY Zenon DEF Init, Store!Init, SP!Init, Store!Fresh, SP!Fresh, Store!Stored, SP!Stored
  <2> QED  BY <2>1, SP!InitIInv, CommitConstants, Zenon
<1>2. /\ log = <<>> /\ chain = [i \in {0} |-> Store!Fresh] /\ verdict = <<>>
      /\ call = [c \in Call |-> NotStarted] /\ flight = {} /\ held = {}
  BY Zenon DEF Init, Store!Init
<1>3. Len(log) = 0 /\ DOMAIN log = {}
  BY <1>2
<1>4. Proposals /\ Distinct
  BY <1>2, <1>3, Zenon DEF Proposals, Distinct
<1>5. \A c \in Call : call[c].pc = "idle"
  BY <1>2, Zenon DEF NotStarted
<1>6. Calls /\ Truthful /\ Accounted
  BY <1>2, <1>3, <1>4, <1>5, Zenon DEF Calls, Typed, Live, Truthful, Receipted, Grounded,
         Accounted, Accountable
<1>7. Admitted
  <2>1. Begun = {} /\ held = {} /\ \A n \in Node : HeldAt(n) = {} /\ Building(n) = {}
    BY <1>2, <1>5, Zenon DEF Begun, HeldAt, Building
  <2>2. \A n \in Node : Permits(n) = 0
    BY <2>1 DEF Permits, HeldAt, Building
  <2> QED  BY <2>1, <2>2, CommitConstants DEF Admitted
<1>8. States
  <2>1. chain[0].db = <<>> /\ chain[0].applied = <<>>
    BY <1>2, Zenon DEF Store!Fresh
  <2>2. Rows(chain[0].db) /\ Table(chain[0])
    BY <2>1, EmptyRows, Zenon
  <2> QED  BY <1>3, <2>2 DEF States
<1> QED  BY <1>1, <1>4, <1>6, <1>7, <1>8, Zenon DEF Inv, CallsInv

(* The steps of the store, as the lemmas about calls take them. *)
LEMMA ProposalGrows ==
    ASSUME Replicated, log \in Seq(Store!Entry), NEW p, CommitProposal(p)
    PROVE  Grows(p.batch) /\ flight' = flight \ {p} /\ UNCHANGED <<call, held, up>>
<1>1. Store!Commit(Store!BatchEntry(p.batch)) /\ flight' = flight \ {p} /\ UNCHANGED <<call, held>>
  BY Zenon DEF CommitProposal
<1>2. Grows(p.batch)
  BY <1>1, CommitGrows, Zenon
<1> QED  BY <1>1, <1>2, Zenon DEF Grows

LEMMA NodeSteps ==
    ASSUME NEW n \in Node, ApplyAt(n) \/ RestartAt(n)
    PROVE  /\ UNCHANGED <<log, verdict, chain, flight, call>>
           /\ up \subseteq up' /\ held' \subseteq held
  BY Zenon DEF ApplyAt, RestartAt, Store!Apply, Store!Restart

LEMMA CrashSteps ==
    ASSUME NEW n \in Node, CrashAt(n)
    PROVE  /\ UNCHANGED <<log, verdict, chain, flight>> /\ up' = up \ {n}
           /\ held' = {p \in held : p.node # n} /\ CrashEnds(n)
  BY Zenon DEF CrashAt, Store!Crash, CrashEnds

LEMMA NextInv == Boundaries /\ Tails /\ Counting /\ Inv /\ [Next]_vars => Inv'
<1> SUFFICES ASSUME Boundaries, Tails, Counting, Inv, [Next]_vars PROVE Inv'
  BY Zenon
<1>1. /\ SP!IInv /\ States /\ Proposals /\ CallsInv /\ Calls /\ Admitted
      /\ Replicated /\ log \in Seq(Store!Entry)
  BY StoreIsReplicated, Zenon DEF Inv, CallsInv
<1>2. SP!IInv'
  <2>1. [SP!Next]_(SP!storeVars)
    BY <1>1, StoreSteps, Zenon
  <2> QED  BY <1>1, <2>1, SP!NextKeeps, CommitConstants, Zenon
<1>3. SP!IInv' /\ Proposals' => Replicated'
  <2>1. SP!IInv /\ Proposals => Replicated
    BY StoreIsReplicated, Zenon
  <2> QED  BY <2>1, StoreIsReplicated, PTL
<1>4. ASSUME ~ \E p \in flight : CommitProposal(p) PROVE States'
  <2>1. UNCHANGED <<log, chain, verdict>>
    BY <1>4, LogStays, Zenon
  <2> QED  BY <1>1, <2>1, Zenon DEF States
<1>5. CASE \E p \in flight : CommitProposal(p)
  <2>1. PICK p \in flight : CommitProposal(p)
    BY <1>5, Zenon
  <2>2. Grows(p.batch) /\ flight' = flight \ {p} /\ UNCHANGED <<call, held, up>>
    BY <1>1, <2>1, ProposalGrows, Zenon
  <2>3. Proposals' /\ States'
    BY <1>1, <2>2, CommitProposes, StatesGrow, Zenon
  <2>4. CallsInv'
    BY <1>1, <1>2, <1>3, <2>2, <2>3, CommitKeeps, Zenon
  <2>5. Admitted'
    BY <1>1, <2>2, Zenon DEF Admitted, Begun, Permits
  <2> QED  BY <1>2, <2>3, <2>4, <2>5, Zenon DEF Inv
<1>6. ASSUME ~ \E p \in flight : CommitProposal(p) PROVE CallsInv' /\ Proposals' /\ Admitted'
  <2>1. CASE \E c \in Call : CallStep(c)
    BY <1>1, <2>1, CallStepKeeps, CallAdmits, Zenon
  <2>2. CASE \E p \in flight : Lose(p)
    BY <1>1, <2>2, LoseKeeps, LoseAdmits, Zenon
  <2>3. ASSUME NEW n \in Node, ApplyAt(n) \/ RestartAt(n)
        PROVE  CallsInv' /\ Proposals' /\ Admitted'
    <3>1. /\ UNCHANGED <<log, verdict, chain, flight, call>>
          /\ up \subseteq up' /\ held' \subseteq held
      BY <2>3, NodeSteps, Zenon
    <3>2. \A p \in held' : p.node \in up'
      BY <1>1, <3>1, Zenon DEF Admitted
    <3> QED  BY <1>1, <3>1, <3>2, NodeKeeps, NodeAdmits, Zenon
  <2>4. ASSUME NEW n \in Node, CrashAt(n)
        PROVE  CallsInv' /\ Proposals' /\ Admitted'
    BY <1>1, <2>4, CrashSteps, CrashKeeps, CrashAdmits, Zenon
  <2>5. CASE UNCHANGED vars
    <3>1. /\ UNCHANGED <<log, verdict, chain, flight, call>>
          /\ up \subseteq up' /\ held' \subseteq held /\ UNCHANGED <<up, held>>
      BY <2>5, Zenon DEF vars
    <3>2. \A p \in held' : p.node \in up'
      BY <1>1, <3>1, Zenon DEF Admitted
    <3> QED  BY <1>1, <3>1, <3>2, NodeKeeps, NodeAdmits, Zenon
  <2> QED  BY <1>6, <2>1, <2>2, <2>3, <2>4, <2>5, Zenon DEF Next
<1> QED  BY <1>2, <1>4, <1>5, <1>6, Zenon DEF Inv

(* What the invariant says of what clients are told. *)
LEMMA InvIsTrue == Singletons /\ Inv => AnswersAreTrueOfTheLog
  BY CallsAreTrue, StoreIsReplicated, Zenon DEF Inv
-----------------------------------------------------------------------------
(* The event store the log stands for, and one step of it. *)
LEMMA StoreStarts == Init => ES!Init
<1> SUFFICES ASSUME Init PROVE ES!Init
  BY Zenon
<1>1. Len(log) = 0 /\ chain[0].db = <<>>
  BY Zenon DEF Init, Store!Init, Store!Fresh
<1>2. Latest = <<>>
  BY <1>1, Zenon DEF Latest
<1>3. DOMAIN Latest = {} /\ OutboxTail(Latest) = 0 /\ \A i : Version(Latest, i) = 0
  BY <1>2 DEF OutboxTail, Version, NumberAt
<1>4. [i \in Instance |-> [s \in 1..Version(Latest, i) |-> Latest[EventKey(i, s)]]]
        = [i \in Instance |-> <<>>]
  BY <1>3
<1>5. [o \in 1..OutboxTail(Latest) |-> Latest[OutboxKey(o)]] = <<>>
  BY <1>3
<1>6. [s \in {x \in Scope : IdemKey(x) \in DOMAIN Latest} |-> Latest[IdemKey(s)]] = <<>>
  BY <1>3
<1> QED  BY <1>4, <1>5, <1>6, Zenon DEF ES!Init

(* A batch that takes effect is one atomic commit. *)
LEMMA RecordedIsStep ==
    ASSUME NEW q, NEW v, NEW k, Recorded(Latest, Latest', q, v, k)
    PROVE  ES!Record(q, k)
<1> DEFINE S == [i \in Instance |-> [s \in 1..Version(Latest, i) |-> Latest[EventKey(i, s)]]]
           O == [o \in 1..OutboxTail(Latest) |-> Latest[OutboxKey(o)]]
           R == [s \in {x \in Scope : IdemKey(x) \in DOMAIN Latest} |-> Latest[IdemKey(s)]]
<1>1. S = StreamsOf(Latest) /\ O = OutboxOf(Latest) /\ R = ReceiptsOf(Latest)
  BY Zenon DEF StreamsOf, StreamOf, OutboxOf, ReceiptsOf
<1>2. S' = StreamsOf(Latest')
  BY Zenon DEF StreamsOf, StreamOf, Version, NumberAt, StreamKey, EventKey
<1>3. O' = OutboxOf(Latest')
  BY Zenon DEF OutboxOf, OutboxTail, NumberAt, TailKey, OutboxKey
<1>4. R' = ReceiptsOf(Latest')
  BY Zenon DEF ReceiptsOf, IdemKey
<1> HIDE DEF S, O, R
<1> DEFINE n == Len(S[q.instance])
<1>5. n = v /\ q.scope \notin DOMAIN R
  BY <1>1, Zenon DEF Recorded
<1> HIDE DEF n
<1>6. S' = [S EXCEPT ![q.instance] = @ \o [j \in 1..k |-> ES!EventId(q.command_id, n + j)]]
  BY <1>1, <1>2, <1>5, Zenon DEF Recorded, EventId, ES!EventId
<1>7. O' = O \o [j \in 1..k |-> ES!OutboxRow(q.instance, n + j, ES!EventId(q.command_id, n + j))]
  BY <1>1, <1>3, <1>5, Zenon DEF Recorded, EventId, ES!EventId, OutboxRow, ES!OutboxRow
<1>8. R' = [s \in DOMAIN R \cup {q.scope} |-> IF s = q.scope THEN ES!Result(q, n, k) ELSE R[s]]
  BY <1>1, <1>4, <1>5, Zenon DEF Recorded, EventId, ES!EventId, Result, ES!Result
<1> QED  BY <1>5, <1>6, <1>7, <1>8, Zenon DEF ES!Record, S, O, R, n

LEMMA StoreStutters ==
    ASSUME Latest' = Latest
    PROVE  UNCHANGED ES!eventStoreVars
  BY Zenon DEF ES!eventStoreVars, Version, OutboxTail, NumberAt, EventKey, OutboxKey, IdemKey, StreamKey, TailKey

LEMMA CommitsAreAtomic == Boundaries /\ Inv /\ [Next]_vars => [ES!Next]_(ES!eventStoreVars)
<1> SUFFICES ASSUME Boundaries, Inv, [Next]_vars PROVE ES!Next \/ UNCHANGED ES!eventStoreVars
  BY Zenon
<1>1. Replicated /\ States /\ Proposals /\ log \in Seq(Store!Entry)
  BY StoreIsReplicated, Zenon DEF Inv
<1>2. ASSUME NEW p \in flight, CommitProposal(p) PROVE ES!Next \/ UNCHANGED ES!eventStoreVars
  <2>1. Grows(p.batch)
    BY <1>1, <1>2, ProposalGrows, Zenon
  <2>2. \/ \E q \in Request, k \in 1..MaxEvents : \E v : Recorded(Latest, Latest', q, v, k)
        \/ Latest' = Latest
    BY <1>1, <2>1, CommitRecords, Zenon
  <2>3. ASSUME NEW q \in Request, NEW k \in 1..MaxEvents, NEW v, Recorded(Latest, Latest', q, v, k)
        PROVE  ES!Next
    BY <2>3, RecordedIsStep, Zenon DEF ES!Next
  <2> QED  BY <2>2, <2>3, StoreStutters, Zenon
<1>3. CASE ~ \E p \in flight : CommitProposal(p)
  <2>1. UNCHANGED <<log, chain, verdict>>
    BY <1>3, LogStays, Zenon
  <2>2. Latest' = Latest
    BY <2>1, Zenon DEF Latest
  <2> QED  BY <2>2, StoreStutters, Zenon
<1> QED  BY <1>2, <1>3, Zenon
-----------------------------------------------------------------------------
(* The facts about finite sets that the argument takes as hypotheses.         *)
INSTANCE FiniteSetTheorems

LEMMA Counts == Counting
<1>1. ASSUME NEW S, IsFiniteSet(S) PROVE Cardinality(S) \in Nat
  BY <1>1, FS_CardinalityType, Zenon
<1>2. ASSUME NEW S, NEW x, IsFiniteSet(S)
      PROVE  IsFiniteSet(S \cup {x}) /\ Cardinality(S \cup {x}) <= Cardinality(S) + 1
  BY <1>1, <1>2, FS_AddElement
<1>3. ASSUME NEW S, NEW x, IsFiniteSet(S), x \in S
      PROVE  Cardinality(S \ {x}) = Cardinality(S) - 1
  BY <1>3, FS_RemoveElement, Zenon
<1>4. ASSUME NEW S, NEW T, IsFiniteSet(S), T \subseteq S
      PROVE  IsFiniteSet(T) /\ Cardinality(T) <= Cardinality(S)
  BY <1>4, FS_Subset, Zenon
<1> QED  BY <1>1, <1>2, <1>3, <1>4, Zenon DEF Counting

LEMMA OneEach == Singletons /\ IsFiniteSet({}) /\ Cardinality({}) = 0
  BY FS_Singleton, FS_EmptySet, Zenon DEF Singletons

LEMMA TailsCount == Tails
<1> SUFFICES ASSUME NEW i, NEW n \in Nat, NEW v \in Nat
             PROVE  Cardinality({EventKey(i, s) : s \in n + 1 .. v}) = IF n < v THEN v - n ELSE 0
  BY Zenon DEF Tails
<1> DEFINE S == n + 1 .. v
           T == {EventKey(i, s) : s \in S}
           f == [s \in S |-> EventKey(i, s)]
<1>1. IsFiniteSet(S) /\ Cardinality(S) = IF n < v THEN v - n ELSE 0
  BY FS_Interval
<1>2. \A s, z \in S : EventKey(i, s) = EventKey(i, z) => s = z
  <2> SUFFICES ASSUME NEW s \in S, NEW z \in S, EventKey(i, s) = EventKey(i, z) PROVE s = z
    BY Zenon
  <2>1. EventKey(i, s)[3] = s /\ EventKey(i, z)[3] = z
    BY Zenon DEF EventKey
  <2> QED  BY <2>1, Zenon
<1> HIDE DEF S
<1>3. f \in Bijection(S, T)
  BY <1>2, Zenon DEF Bijection, Injection, Surjection, IsInjective
<1>4. ExistsBijection(S, T)
  BY <1>3, Zenon DEF ExistsBijection
<1>5. Cardinality(T) = Cardinality(S)
  BY <1>1, <1>4, FS_Bijection, Zenon
<1> QED  BY <1>1, <1>5, Zenon DEF S

-----------------------------------------------------------------------------
INSTANCE WellFoundedInduction

(* The largest of the boundaries is one of them. *)
LEMMA Boundary == Boundaries
<1> SUFFICES ASSUME NEW v \in Nat, NEW k \in Nat
             PROVE  SnapshotAt(v, k) \in {0} \cup v + 1 .. v + k
  BY Zenon DEF Boundaries
<1> DEFINE S == {0} \cup {s \in v + 1 .. v + k : s % SnapshotInterval = 0}
           T == {x \in 0 .. v + k : v + k - x \in S}
<1>1. T \subseteq Nat /\ v + k \in T /\ 0 \in S /\ S \subseteq 0 .. v + k
  OBVIOUS
<1>2. PICK x \in T : \A y \in T : ~(<<y, x>> \in OpToRel(<, Nat))
  BY <1>1, NatLessThanWellFounded, WFMin, Zenon
<1>3. v + k - x \in S
  BY Zenon
<1>4. \A y \in S : v + k - x >= y
  <2> TAKE y \in S
  <2>1. v + k - y \in T
    BY <1>1
  <2>2. ~(v + k - y < x)
    BY <2>1, <1>1, <1>2, ZenonT(30) DEF OpToRel
  <2> QED  BY <2>2, <1>1
<1>5. Max(S) \in S
  BY <1>3, <1>4, Zenon DEF Max
<1> QED  BY <1>5, Zenon DEF SnapshotAt

-----------------------------------------------------------------------------
LEMMA InvHolds == Spec => []Inv
<1>1. Init => Inv
  BY InitInv, Counts, OneEach, Zenon
<1>2. Inv /\ [Next]_vars => Inv'
  BY NextInv, Boundary, TailsCount, Counts, Zenon
<1> QED  BY <1>1, <1>2, PTL DEF Spec

(* What the command handler answers is true of the committed log: a receipt   *)
(* names the committed result of the client's own command, a definite refusal  *)
(* had and will have no effect, what a handler decided on is a prefix of its   *)
(* stream, streams and outbox stay dense with each event announced once, and   *)
(* no node admits more commands than its permits, whatever retries, rebases,   *)
(* forwards, lost answers and crashes happen.                                  *)
THEOREM AnswersAreTrue == Spec => []AnswersAreTrueOfTheLog
<1>1. Inv => AnswersAreTrueOfTheLog
  BY InvIsTrue, OneEach, Zenon
<1> QED  BY <1>1, InvHolds, PTL

(* The rows the batches leave behind are those of an event store that commits  *)
(* the events of a command, their outbox records and its receipt in one step,  *)
(* once per idempotency scope.                                                 *)
THEOREM CommitsAsEventStore == Spec => ImplementsEventStore
<1>1. Init => ES!Init
  BY StoreStarts, Zenon
<1>2. Inv /\ [Next]_vars => [ES!Next]_(ES!eventStoreVars)
  BY CommitsAreAtomic, Boundary, Zenon
<1> QED  BY <1>1, <1>2, InvHolds, PTL DEF Spec, ES!Spec, ImplementsEventStore
=============================================================================
