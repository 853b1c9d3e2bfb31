----------------------------- MODULE MCLiveness -----------------------------
(***************************************************************************)
(* Instances of the engine's leader-only runtimes and of the services for  *)
(* TLC, under the fairness of their loops: a behaviour belongs to one      *)
(* part, chosen in its initial state, and the variables of the other parts *)
(* keep the value None.                                                    *)
(***************************************************************************)
EXTENDS Naturals, Sequences, FiniteSets, TLC

CONSTANTS Parts,   \* the parts a run explores
          None,    \* a model value: no worker, no command, an absent part
          cycle, message, signal    \* model values: boundary events, a signal

VARIABLES
    part,
    now, events, fired, store, snap, loop, leader, failures,
    rec, late, waiting, landed, keys, owner, live, granted, inflight, assign, given, th,
    lost,
    wrapped, job, keyWorker, cache, loading, restarts, faults,
    task, taskLog, sent, item, case, inbox, fetched, offset, session,
    overdue, escalation, escalator, humanCrashes,
    account, feed, lease, publisher, revokeTopic, group, revoker, epochs,
    incident, revokeFaults,
    engineLog, relayed, eventTopic, replays, partition, projector, processed,
    instanceRow, eventRow, export, renderer, projectFaults,
    profile, active, outbox, publication, outboxWorker, configTopic, reloader,
    configFaults,
    tenant, mutation, lifecycle, lifecycleTopic, lifecycleOffset, scopes, readiness,
    applying, answers, answerTopic, answerOffset, known, sender, tenantBudget
-----------------------------------------------------------------------------
(* One node leads an activity with a repeating timer that does not interrupt  *)
(* it and a message that does.                                                *)
Events     == {cycle, message}
OnTask     == [b \in Events |-> "task"]
EventFires == [b \in Events |-> IF b = cycle THEN 2 ELSE 0]
ToMessage  == [s \in {signal} |-> {message}]
Boundary == INSTANCE BoundaryRuntime WITH
    Node <- {"n1"}, Boundary <- Events, Attached <- OnTask, Interrupting <- {message},
    Firings <- EventFires, Delay <- 1, Signal <- {signal}, Matches <- ToMessage,
    ProjectionBatch <- 1, LeaseTime <- 2, RetryDelay <- 1, MaxDispatchAttempts <- 2,
    MaxTime <- 2, MaxOutbox <- 5, MaxFailures <- 1, outbox <- events

(* Two tasks and a worker that takes one at a time. *)
Tasks      == {1, 2}
OwnNodes   == [t \in Tasks |-> t]
OneCapable == [t \in Tasks |-> {1}]
Remote == INSTANCE RemoteWorker WITH
    Task <- Tasks, NodeOf <- OwnNodes, Worker <- {1}, Capable <- OneCapable, Credit <- {1},
    MaxAttempts <- 2, MaxSessions <- 1, MaxFaults <- 1,
    active <- waiting, sent <- given, faults <- lost

(* Two workers that may fail twice between them. *)
Keys == INSTANCE KeyLifecycle WITH
    Scope <- {"s1"}, Engine <- {"n1", "n2"}, KeyWorker <- {"w1", "w2"}, NoWorker <- None,
    ApprovedEpoch <- 1, MaxEpoch <- 1, Capacity <- 1, BatchSize <- 1, MaxRestarts <- 0,
    MaxFaults <- 2

(* One item with a deadline; a case of two stages; and two activations in one *)
(* tenant, for which the property does not hold.                              *)
SameFor(I) == [i \in I |-> "t1"]
Deadlines == INSTANCE HumanRuntime WITH
    Item <- {"i1"}, TenantOf <- SameFor({"i1"}), PlaceOf <- SameFor({"i1"}), User <- {"u1"},
    Command <- {"c1"}, Decision <- {"d1"}, CaseItem <- {}, Stage <- {}, WithDeadline <- {"i1"},
    Escalator <- {"e1", "e2"}, NoCommand <- None, NoEscalator <- None,
    MaxDelegationDepth <- 1, MaxCrashes <- 2
Cases == INSTANCE HumanRuntime WITH
    Item <- {}, TenantOf <- SameFor({}), PlaceOf <- SameFor({}), User <- {"u1"},
    Command <- {"c1"}, Decision <- {"d1"}, CaseItem <- {"p1", "p2"}, Stage <- {"p1"},
    WithDeadline <- {}, Escalator <- {}, NoCommand <- None, NoEscalator <- None,
    MaxDelegationDepth <- 1, MaxCrashes <- 1
Activations == INSTANCE HumanRuntime WITH
    Item <- {"i1", "i2"}, TenantOf <- SameFor({"i1", "i2"}), PlaceOf <- SameFor({"i1", "i2"}),
    User <- {"u1"}, Command <- {"c1"}, Decision <- {"d1"}, CaseItem <- {}, Stage <- {},
    WithDeadline <- {}, Escalator <- {}, NoCommand <- None, NoEscalator <- None,
    MaxDelegationDepth <- 1, MaxCrashes <- 1

Revocations == INSTANCE QueryRevocation WITH
    Subject <- {"s1"}, Publisher <- {"p1", "p2"}, NoPublisher <- None, RevokeConsumer <- {"c1"},
    RevokeBatch <- 2, MaxChanges <- 2, MaxUntrusted <- 1, MaxRevokeFaults <- 1

ReadModel == INSTANCE Projection WITH
    Flow <- {"f1"}, Projector <- {"p1", "p2"}, ProjectBatch <- 2, MaxFlowEvents <- 2,
    MaxReplays <- 0, Export <- {"x1"}, MaxProjectFaults <- 1, NoExport <- None

(* A tenant's profile over the platform's, without retirement. *)
Profiles == INSTANCE Configuration WITH
    Profile <- {"p1", "p2"}, ScopeOf <- [p1 |-> "platform", p2 |-> "tenant"],
    OutboxWorker <- {"w1"}, NoOutboxWorker <- None, OutboxBatch <- 2, Retires <- FALSE,
    MaxVersions <- 2, MaxPublications <- 3, MaxConfigFaults <- 1

(* One transaction at a time, all of which commit. *)
Tenants == INSTANCE TenantReadiness WITH
    Tenant <- {"t1"}, Owner <- {"o1"}, LifecycleWorker <- {"l1"},
    ReadinessWorker <- {"r1"}, NoSender <- None, TenantBatch <- 2, Overlap <- FALSE,
    Deletes <- FALSE, MaxTenantVersion <- 2, MaxScopeChanges <- 1, MaxAborts <- 0,
    MaxTenantFaults <- 1
-----------------------------------------------------------------------------
boundaryVars == <<now, events, fired, store, snap, loop, leader, failures>>
remoteVars == <<rec, late, waiting, landed, keys, owner, live, granted, inflight,
                assign, given, th, lost>>
keyVars == <<wrapped, job, keyWorker, cache, loading, restarts, faults>>
humanVars == <<task, taskLog, sent, item, case, inbox, fetched, offset, session,
               overdue, escalation, escalator, humanCrashes>>
revokeVars == <<account, feed, lease, publisher, revokeTopic, group, revoker, epochs,
                incident, revokeFaults>>
projectVars == <<engineLog, relayed, eventTopic, replays, partition, projector,
                 processed, instanceRow, eventRow, export, renderer, projectFaults>>
configVars == <<profile, active, outbox, publication, outboxWorker, configTopic,
                reloader, configFaults>>
tenantVars == <<tenant, mutation, lifecycle, lifecycleTopic, lifecycleOffset, scopes,
                readiness, applying, answers, answerTopic, answerOffset, known, sender,
                tenantBudget>>
vars == <<part, boundaryVars, remoteVars, keyVars, humanVars, revokeVars, projectVars,
          configVars, tenantVars>>

Init ==
    /\ part \in Parts
    /\ IF part = "boundary" THEN Boundary!Init
       ELSE /\ now = None /\ events = None /\ fired = None
            /\ store = None /\ snap = None /\ loop = None
            /\ leader = None /\ failures = None
    /\ IF part = "remote" THEN Remote!Init
       ELSE /\ rec = None /\ late = None /\ waiting = None
            /\ landed = None /\ keys = None /\ owner = None
            /\ live = None /\ granted = None /\ inflight = None
            /\ assign = None /\ given = None /\ th = None
            /\ lost = None
    /\ IF part = "keys" THEN Keys!KeyInit
       ELSE /\ wrapped = None /\ job = None /\ keyWorker = None
            /\ cache = None /\ loading = None /\ restarts = None
            /\ faults = None
    /\ IF part = "deadlines" THEN Deadlines!HumanInit
       ELSE IF part = "cases" THEN Cases!HumanInit
       ELSE IF part = "activations" THEN Activations!HumanInit
       ELSE /\ task = None /\ taskLog = None /\ sent = None
            /\ item = None /\ case = None /\ inbox = None
            /\ fetched = None /\ offset = None /\ session = None
            /\ overdue = None /\ escalation = None /\ escalator = None
            /\ humanCrashes = None
    /\ IF part = "revocations" THEN Revocations!RevokeInit
       ELSE /\ account = None /\ feed = None /\ lease = None
            /\ publisher = None /\ revokeTopic = None /\ group = None
            /\ revoker = None /\ epochs = None /\ incident = None
            /\ revokeFaults = None
    /\ IF part = "read model" THEN ReadModel!ProjectInit
       ELSE /\ engineLog = None /\ relayed = None /\ eventTopic = None
            /\ replays = None /\ partition = None /\ projector = None
            /\ processed = None /\ instanceRow = None /\ eventRow = None
            /\ export = None /\ renderer = None /\ projectFaults = None
    /\ IF part = "profiles" THEN Profiles!ConfigInit
       ELSE /\ profile = None /\ active = None /\ outbox = None
            /\ publication = None /\ outboxWorker = None /\ configTopic = None
            /\ reloader = None /\ configFaults = None
    /\ IF part = "tenants" THEN Tenants!TenantInit
       ELSE /\ tenant = None /\ mutation = None /\ lifecycle = None
            /\ lifecycleTopic = None /\ lifecycleOffset = None /\ scopes = None
            /\ readiness = None /\ applying = None /\ answers = None
            /\ answerTopic = None /\ answerOffset = None /\ known = None
            /\ sender = None /\ tenantBudget = None

(* The one node of the boundary part has nobody to send its snapshots to, so  *)
(* that they are left out.                                                    *)
Next ==
    \/ /\ part = "boundary" /\ Boundary!Next /\ UNCHANGED snap
       /\ UNCHANGED <<part, remoteVars, keyVars, humanVars, revokeVars, projectVars,
                      configVars, tenantVars>>
    \/ /\ part = "remote" /\ Remote!Next
       /\ UNCHANGED <<part, boundaryVars, keyVars, humanVars, revokeVars, projectVars,
                      configVars, tenantVars>>
    \/ /\ part = "keys" /\ Keys!KeyNext
       /\ UNCHANGED <<part, boundaryVars, remoteVars, humanVars, revokeVars,
                      projectVars, configVars, tenantVars>>
    \/ /\ \/ part = "deadlines" /\ Deadlines!HumanNext
          \/ part = "cases" /\ Cases!HumanNext
          \/ part = "activations" /\ Activations!HumanNext
       /\ UNCHANGED <<part, boundaryVars, remoteVars, keyVars, revokeVars, projectVars,
                      configVars, tenantVars>>
    \/ /\ part = "revocations" /\ Revocations!RevokeNext
       /\ UNCHANGED <<part, boundaryVars, remoteVars, keyVars, humanVars, projectVars,
                      configVars, tenantVars>>
    \/ /\ part = "read model" /\ ReadModel!ProjectNext
       /\ UNCHANGED <<part, boundaryVars, remoteVars, keyVars, humanVars, revokeVars,
                      configVars, tenantVars>>
    \/ /\ part = "profiles" /\ Profiles!ConfigNext
       /\ UNCHANGED <<part, boundaryVars, remoteVars, keyVars, humanVars, revokeVars,
                      projectVars, tenantVars>>
    \/ /\ part = "tenants" /\ Tenants!TenantNext
       /\ UNCHANGED <<part, boundaryVars, remoteVars, keyVars, humanVars, revokeVars,
                      projectVars, configVars>>
-----------------------------------------------------------------------------
(* The fairness of each part's loops (KeyFairness, HumanFairness, ...), for   *)
(* the behaviours of that part.                                               *)
Fairness ==
    /\ WF_boundaryVars(part = "boundary" /\ Boundary!Tick)
    /\ WF_boundaryVars(part = "boundary" /\ Boundary!LoopStep("n1"))
    /\ WF_remoteVars(part = "remote" /\ Remote!LoopStep)
    /\ SF_<<boundaryVars, remoteVars>>(
          \/ /\ part = "boundary" /\ Boundary!Project("n1") /\ UNCHANGED remoteVars
             /\ store'["n1"].ckpt > store["n1"].ckpt
          \/ part = "remote" /\ Remote!Reap(Remote!Leased) /\ UNCHANGED boundaryVars)
    /\ \A w \in {"w1", "w2"} : WF_keyVars(part = "keys" /\ Keys!WorkerStep(w))
    /\ WF_keyVars(part = "keys" /\ Keys!LeaseRunsOut("s1"))
    /\ WF_keyVars(part = "keys" /\ Keys!DelayEnds("s1"))
    /\ WF_humanVars(\/ part = "deadlines" /\ Deadlines!Consumer
                    \/ part = "cases" /\ Cases!Consumer
                    \/ part = "activations" /\ Activations!Consumer)
    /\ \A e \in {"e1", "e2"} : WF_humanVars(part = "deadlines" /\ Deadlines!Escalate(e))
    /\ WF_humanVars(part = "deadlines" /\ Deadlines!EscalationLeaseEnds("i1"))
    /\ \A p \in {"p1", "p2"} : WF_revokeVars(part = "revocations" /\ Revocations!Publishing(p))
    /\ WF_revokeVars(part = "revocations" /\ Revocations!Revoking("c1"))
    /\ WF_revokeVars(part = "revocations" /\ Revocations!LeaseEnds)
    /\ WF_projectVars(part = "read model" /\ ReadModel!RelaySends)
    /\ \A c \in {"p1", "p2"} : /\ WF_projectVars(part = "read model" /\ ReadModel!EventLoop(c))
                               /\ WF_projectVars(part = "read model" /\ ReadModel!ExportLoop(c))
    /\ WF_projectVars(part = "read model" /\ ReadModel!ExportStales("x1"))
    /\ WF_configVars(part = "profiles" /\ Profiles!PublisherNext("w1"))
    /\ WF_configVars(part = "profiles" /\ Profiles!LeaseExpires)
    /\ WF_configVars(part = "profiles" /\ Profiles!ReloaderNext)
    /\ WF_tenantVars(part = "tenants" /\ Tenants!CommitMutation("t1"))
    /\ WF_tenantVars(part = "tenants" /\ Tenants!LifecyclePublisherNext("l1"))
    /\ WF_tenantVars(part = "tenants" /\ Tenants!ReadinessPublisherNext("r1"))
    /\ WF_tenantVars(/\ part = "tenants" /\ Tenants!HolderEnded(lifecycle)
                     /\ Tenants!LifecycleLeaseExpires)
    /\ WF_tenantVars(/\ part = "tenants" /\ Tenants!HolderEnded(answers)
                     /\ Tenants!ReadinessLeaseExpires)
    /\ WF_tenantVars(part = "tenants" /\ Tenants!LifecycleConsumerNext)
    /\ WF_tenantVars(part = "tenants" /\ Tenants!ApplyTenantConfigurationReadiness)

FairSpec == Init /\ [][Next]_vars /\ Fairness
-----------------------------------------------------------------------------
(* The boundary runtime's column families agree with the outbox: the          *)
(* subscriptions are what it leaves armed, the due-time indexes hold exactly  *)
(* what waits, and a completed signal has taken effect (project_once,         *)
(* claim_due_timers, complete_correlation).                                   *)
SubscriptionsFollowOutbox ==
    part = "boundary" => /\ Boundary!ProjectionIsReplay
                         /\ Boundary!IndexesAreExact
                         /\ Boundary!CompletedSignalFired

(* What is owed below stays owed until it is met, and finitely much is ever   *)
(* owed: each is met in the end exactly when all are met again and again.     *)


(* Work taken under a lease ends although its holder stops: a remote task is  *)
(* completed, retried, dead-lettered or reclaimed, and every key whose        *)
(* destruction was approved is destroyed (reap_expired, claim_key_shreds).    *)
LeasedWorkEnds ==
    []<>(/\ part = "remote" => Remote!Leased = {}
         /\ part = "keys" => job["s1"].status = "completed")

(* Every event reaches the tables, and every overdue item that stays open is  *)
(* escalated, although the service and its workers stop (Consumer.Run,        *)
(* ClaimDueEscalations).                                                      *)
Escalated ==
    "i1" \in overdue /\ item["i1"].status = "ACTIVE" => escalation["i1"].state = "published"
EventsAndDeadlinesSettle ==
    []<>(/\ part \in {"deadlines", "cases", "activations"} => inbox = 1..Len(taskLog)
         /\ part = "deadlines" => Escalated)

(* Every revocation reaches the guard's table or an incident, every event     *)
(* reaches the read model and every accepted export ends or expires, although *)
(* publishers lose their lease, replicas stop and partitions move.            *)
Guarded ==
    \A n \in 1..Len(feed) :
        \/ epochs[feed[n].actor].sequence >= n
        \/ \E o \in Revocations!Offsets : revokeTopic[o].sequence = n
Exported == export["x1"].expired \/ export["x1"].status \notin {"pending", "running"}
ConsumersCatchUp ==
    []<>(/\ part = "revocations" => Guarded
         /\ part = "read model" =>
               instanceRow["f1"].sequence >= Len(engineLog["f1"]) /\ Exported)

(* Administrators make finitely many changes: in the end the cache holds what *)
(* the store resolves, and the control plane knows for good whether the       *)
(* tenant is ready, through two outboxes and their consumers (Bootstrap and   *)
(* Run of the reloader, RefreshTenantReadiness,                               *)
(* apply_tenant_configuration_readiness).                                     *)
Known == known["t1"].version = tenant["t1"].version /\ known["t1"].ready = Tenants!Covered("t1")
=============================================================================
