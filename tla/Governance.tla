----------------------------- MODULE Governance -----------------------------
(***************************************************************************)
(* Abort-and-reconcile: the governance service collects signed approvals   *)
(* in its own database, then asks the engine to terminate one workflow     *)
(* instance and to turn every pending compensation into a reconciliation   *)
(* work item.  The two stores share no transaction: the engine commits     *)
(* through Raft, and the service records the commit afterwards.            *)
(*                                                                         *)
(* The set of pending ledger entries stands for its digest, and the row's  *)
(* version for its audit trail (one audit record per version, written in   *)
(* the same transaction).  The expiry and the signatures of approvals are  *)
(* among the reasons for which an engine may refuse a commit; the service  *)
(* never looks at them.                                                    *)
(***************************************************************************)
EXTENDS Naturals, Sequences, FiniteSets

CONSTANTS
    Request,       \* approval requests, all for the same workflow instance
    Actor,
    Entry,         \* ledger entries of the instance
    Call,          \* calls the service handles at a time
    Required,      \* Required[p]: approvers that policy version p asks for
    MaxEntries,    \* max_pending_ledger_entries
    Engines,       \* number of engine endpoints the service tries
    MaxVersion,    \* bound on the instance's stream
    MaxCrashes     \* bound on restarts of the service

VARIABLES
    row,           \* row[r]: the service's row for request r
    call,          \* call[c]: what call c is doing
    orphans,       \* batches whose proposer stopped waiting
    engine,        \* the replicated state of the instance
    cached,        \* the policy version the service resolves
    registry,      \* the engines' policy version
    crashes

governanceVars == <<row, call, orphans, engine, cached, registry, crashes>>

NoRow == [status |-> "none", version |-> 0]
Idle  == [op |-> "idle"]
NoAudit == [request |-> "none"]

Policy == 1..Len(Required)
Pending == {e \in Entry : engine.ledger[e] = "pending"}

Init ==
    /\ row = [r \in Request |-> NoRow]
    /\ call = [c \in Call |-> Idle]
    /\ orphans = {}
    /\ engine = [version |-> 1, life |-> "active", audit |-> NoAudit,
                 ledger |-> [e \in Entry |-> "none"], items |-> {}]
    /\ cached = 1
    /\ registry = 1
    /\ crashes = 0
-----------------------------------------------------------------------------
(* The workflow instance goes on meanwhile.  Side effects enter the ledger    *)
(* and are compensated through batches that do not touch the stream.          *)
Progress ==
    /\ engine.life = "active"
    /\ engine.version < MaxVersion
    /\ \E l \in {"active", "completed"} :
          engine' = [engine EXCEPT !.version = @ + 1, !.life = l]
    /\ UNCHANGED <<row, call, orphans, cached, registry, crashes>>

LedgerRecord(e) ==
    /\ \/ engine.ledger[e] = "none" /\ engine' = [engine EXCEPT !.ledger[e] = "pending"]
       \/ engine.ledger[e] = "pending" /\ engine' = [engine EXCEPT !.ledger[e] = "compensated"]
    /\ UNCHANGED <<row, call, orphans, cached, registry, crashes>>

EngineReload ==
    /\ registry < Len(Required)
    /\ registry' = registry + 1
    /\ UNCHANGED <<row, call, orphans, engine, cached, crashes>>

(* run_configuration_reloader refreshes the cached policy; after a retirement *)
(* or a restart, the next use resolves it again.                              *)
ServiceReload ==
    /\ cached < Len(Required)
    /\ cached' = cached + 1
    /\ UNCHANGED <<row, call, orphans, engine, registry, crashes>>

(* The service restarts: its calls are lost, what they proposed is not. *)
Crash ==
    /\ crashes < MaxCrashes
    /\ crashes' = crashes + 1
    /\ call' = [c \in Call |-> Idle]
    /\ orphans' = orphans \cup {call[c].batch : c \in {x \in Call : call[x].op = "wait"}}
    /\ UNCHANGED <<row, engine, cached, registry>>
-----------------------------------------------------------------------------
(* load_pending_compensation_entries: every identity counts against the       *)
(* bound, pending or not.                                                     *)
Loadable == Cardinality({e \in Entry : engine.ledger[e] # "none"}) <= MaxEntries

(* create_approval asks an engine for the scope's version and pending ledger; *)
(* its policy must be the service's.  What it answers is stale by the time it *)
(* is inserted, or already when a follower answers.                           *)
CreatePrepare(c, r) ==
    /\ call[c] = Idle
    /\ registry = cached
    /\ Loadable
    /\ call' = [call EXCEPT ![c] = [op |-> "create", request |-> r, expected |-> engine.version,
                                    effects |-> Pending, policy |-> registry]]
    /\ UNCHANGED <<row, orphans, engine, cached, registry, crashes>>

(* store.create: a known idempotency key answers with the row it has. *)
CreateInsert(c) ==
    LET q == call[c] IN
    /\ q.op = "create"
    /\ row' = IF row[q.request] # NoRow THEN row
              ELSE [row EXCEPT ![q.request] =
                      [status |-> "PENDING", version |-> 1, requesters |-> {}, approvers |-> {},
                       expected |-> q.expected, effects |-> q.effects, policy |-> q.policy]]
    /\ call' = [call EXCEPT ![c] = Idle]
    /\ UNCHANGED <<orphans, engine, cached, registry, crashes>>

StatusAfter(requesters, approvers, policy) ==
    IF Cardinality(requesters) = 1 /\ Cardinality(approvers) >= Required[policy]
    THEN "APPROVED" ELSE "PENDING"

(* record_approval: one row per role and actor; the status is computed anew   *)
(* from the counts.                                                           *)
RecordApproval(r, role, a) ==
    LET w == row[r]
        requesters == IF role = "requester" THEN w.requesters \cup {a} ELSE w.requesters
        approvers  == IF role = "approver"  THEN w.approvers \cup {a}  ELSE w.approvers
    IN
    /\ w.status \in {"PENDING", "APPROVED"}
    /\ a \notin (IF role = "requester" THEN w.requesters ELSE w.approvers)
    /\ row' = [row EXCEPT ![r] =
                 [w EXCEPT !.requesters = requesters, !.approvers = approvers, !.version = @ + 1,
                           !.status = StatusAfter(requesters, approvers, cached)]]
    /\ UNCHANGED <<call, orphans, engine, cached, registry, crashes>>
-----------------------------------------------------------------------------
(* submit_approval reads the row and the policy, and keeps both until the     *)
(* engine has answered.                                                       *)
SubmitRead(c, r) ==
    /\ call[c] = Idle
    /\ row[r].status = "APPROVED"
    /\ Cardinality(row[r].approvers) >= Required[cached]
    /\ row[r].policy = cached
    /\ call' = [call EXCEPT ![c] = [op |-> "commit", request |-> r, read |-> row[r], left |-> Engines]]
    /\ UNCHANGED <<row, orphans, engine, cached, registry, crashes>>

(* A bug: the requester may be among the approvers. *)
ProofCounts(w) == Cardinality(w.approvers) >= Required[registry]

(* decide_abort_and_reconcile: enough approvers, distinct from the requester. *)
ProofHolds(w) ==
    /\ Cardinality(w.approvers) >= Required[registry]
    /\ w.requesters \cap w.approvers = {}

(* validate_commit_binding *)
Bound(w) == w.expected = engine.version /\ w.effects = Pending

Batch(c) ==
    [request |-> call[c].request, expected |-> call[c].read.expected, effects |-> call[c].read.effects,
     requesters |-> call[c].read.requesters, approvers |-> call[c].read.approvers,
     policy |-> registry]

(* The engine's commit handler up to the proposal. *)
EngineCommit(c) ==
    /\ call[c].op = "commit"
    /\ Loadable
    /\ Bound(call[c].read)
    /\ engine.life = "active"
    /\ ProofHolds(call[c].read)
    /\ call' = [call EXCEPT ![c] = [op |-> "wait", request |-> @.request, read |-> @.read,
                                    left |-> @.left, batch |-> Batch(c)]]
    /\ UNCHANGED <<row, orphans, engine, cached, registry, crashes>>

(* Conflict or denial: the call fails.  An engine that lags behind, an        *)
(* approval that expired or a key that is no longer trusted also end here.    *)
EngineRefuses(c) ==
    /\ call[c].op = "commit"
    /\ call' = [call EXCEPT ![c] = Idle]
    /\ UNCHANGED <<row, orphans, engine, cached, registry, crashes>>

(* The next engine, or the failure of the call when there is none. *)
NextEngine(c) ==
    IF call[c].left = 1 THEN Idle
    ELSE [op |-> "commit", request |-> call[c].request, read |-> call[c].read, left |-> call[c].left - 1]

(* EngineCluster.commit tries the next endpoint when one is unreachable, does *)
(* not lead, or does not answer in time; the proposal it may have made stays. *)
Retry(c) ==
    /\ call[c].op \in {"commit", "wait"}
    /\ orphans' = IF call[c].op = "wait" THEN orphans \cup {call[c].batch} ELSE orphans
    /\ call' = [call EXCEPT ![c] = NextEngine(c)]
    /\ UNCHANGED <<row, engine, cached, registry, crashes>>

(* A bug: nothing asks that a ledger row has no successor. *)
ApplicableToStream(b) == engine.version = b.expected

(* The batch's preconditions: the stream's version, and for every entry the   *)
(* pending row with no successor.                                             *)
Applicable(b) ==
    /\ engine.version = b.expected
    /\ \A e \in b.effects : engine.ledger[e] = "pending"

Terminated(b) ==
    [version |-> b.expected + 1, life |-> "terminated", audit |-> b,
     ledger |-> [e \in Entry |-> IF e \in b.effects THEN "reconcile" ELSE engine.ledger[e]],
     items |-> engine.items \cup {<<b.request, e>> : e \in b.effects}]

(* Raft applies a batch the service still waits for.  The answer may be lost; *)
(* a refusal also comes from a batch of another instance moving the outbox.   *)
ApplyAwaited(c) ==
    LET b == call[c].batch IN
    /\ call[c].op = "wait"
    /\ \/ /\ Applicable(b)
          /\ engine' = Terminated(b)
          /\ \/ call' = [call EXCEPT ![c] = [op |-> "mark", request |-> @.request, read |-> @.read]]
             \/ call' = [call EXCEPT ![c] = NextEngine(c)]
       \/ /\ UNCHANGED engine
          /\ call' = [call EXCEPT ![c] = Idle]
    /\ UNCHANGED <<row, orphans, cached, registry, crashes>>

ApplyOrphan(b) ==
    /\ orphans' = orphans \ {b}
    /\ engine' = IF Applicable(b) THEN Terminated(b) ELSE engine
    /\ UNCHANGED <<row, call, cached, registry, crashes>>

(* mark_committed: only if the row still has the version that was read. *)
MarkCommitted(c) ==
    LET q == call[c]  w == row[q.request] IN
    /\ q.op = "mark"
    /\ row' = IF w.version = q.read.version /\ w.status = "APPROVED"
              THEN [row EXCEPT ![q.request].status = "KEY_SHRED_PENDING", ![q.request].version = @ + 1]
              ELSE row
    /\ call' = [call EXCEPT ![c] = Idle]
    /\ UNCHANGED <<orphans, engine, cached, registry, crashes>>
-----------------------------------------------------------------------------
ServiceStep(c) ==
    \/ CreateInsert(c) \/ EngineCommit(c) \/ EngineRefuses(c) \/ Retry(c)
    \/ ApplyAwaited(c) \/ MarkCommitted(c)

Next ==
    \/ Progress \/ EngineReload \/ ServiceReload \/ Crash
    \/ \E e \in Entry : LedgerRecord(e)
    \/ \E c \in Call, r \in Request : CreatePrepare(c, r) \/ SubmitRead(c, r)
    \/ \E r \in Request, a \in Actor, role \in {"requester", "approver"} : RecordApproval(r, role, a)
    \/ \E c \in Call : ServiceStep(c)
    \/ \E b \in orphans : ApplyOrphan(b)

Spec == Init /\ [][Next]_governanceVars
-----------------------------------------------------------------------------
(* A request whose key is about to be shredded did terminate the instance:    *)
(* the key of a live workflow, or of one that another request terminated, is  *)
(* never handed to the key lifecycle.                                         *)
ShredOnlyAfterTermination ==
    \A r \in Request : row[r].status = "KEY_SHRED_PENDING" =>
        engine.life = "terminated" /\ engine.audit.request = r

(* What a termination did is what was approved: its audit record names one    *)
(* requester and enough other actors, who all signed this request, and there  *)
(* is exactly one work item for each ledger entry they saw as pending.        *)
TerminationAsApproved ==
    engine.life = "terminated" =>
        LET b == engine.audit  w == row[b.request] IN
        /\ Cardinality(b.requesters) = 1
        /\ Cardinality(b.approvers \ b.requesters) >= Required[b.policy]
        /\ b.requesters \subseteq w.requesters /\ b.approvers \subseteq w.approvers
        /\ engine.items = {<<b.request, e>> : e \in w.effects}
        /\ {e \in Entry : engine.ledger[e] = "reconcile"} = w.effects

(* A side effect has one remedy: once it is compensated, or handed to         *)
(* reconciliation, no later batch changes its ledger entry, however           *)
(* compensation and termination race.                                         *)
OneRemedyPerEffect ==
    [][\A e \in Entry : engine.ledger[e] \in {"compensated", "reconcile"} =>
          engine'.ledger[e] = engine.ledger[e]]_governanceVars
=============================================================================
