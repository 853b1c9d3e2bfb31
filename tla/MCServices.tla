----------------------------- MODULE MCServices -----------------------------
(***************************************************************************)
(* Instances of the service modules for TLC, side by side: a behaviour     *)
(* belongs to one part, chosen in its initial state, and the variables of  *)
(* the other parts keep the value None.  The parts share no state.         *)
(***************************************************************************)
EXTENDS Naturals, Sequences, FiniteSets, TLC

CONSTANTS Parts,   \* the parts a run explores
          None     \* a model value: no worker, no filter, no rule, an absent part

VARIABLES
    part,
    row, call, orphans, engine, cached, registry, crashes,
    wrapped, job, keyWorker, cache, loading, restarts, faults,
    task, taskLog, sent, item, case, inbox, fetched, offset, session,
    overdue, escalation, escalator, humanCrashes,
    account, feed, lease, publisher, revokeTopic, group, revoker, epochs,
    incident, revokeFaults,
    engineLog, relayed, eventTopic, replays, partition, projector, processed,
    instanceRow, eventRow, export, renderer, projectFaults,
    table, policy, walk, steady,
    profile, active, outbox, publication, outboxWorker, configTopic, reloader,
    configFaults,
    tenant, mutation, lifecycle, lifecycleTopic, lifecycleOffset, scopes, readiness,
    applying, answers, answerTopic, answerOffset, known, sender, tenantBudget,
    committedEvents, eventConsumer, streams, subscribers, connection, browser,
    gatewayRestarts,
    direct, holds, rules, windows, activeUser, tuples, inserting, warm, circuit,
    request, budget,
    published, records, process, installed, handles, reload, work, stops
-----------------------------------------------------------------------------
(* Governance: two requests under a policy that grows from one approver to    *)
(* two; one request over two side effects; and two calls of the service over  *)
(* two engine endpoints.  The service restarts once in the last two.          *)
Approvals == INSTANCE Governance WITH
    Request <- {"r1", "r2"}, Actor <- {"a1", "a2"}, Entry <- {}, Call <- {"c1"},
    Required <- <<1, 2>>, MaxEntries <- 1, Engines <- 1, MaxVersion <- 1, MaxCrashes <- 0
Effects == INSTANCE Governance WITH
    Request <- {"r1"}, Actor <- {"a1", "a2"}, Entry <- {"e1", "e2"}, Call <- {"c1"},
    Required <- <<1>>, MaxEntries <- 2, Engines <- 2, MaxVersion <- 2, MaxCrashes <- 1
Calls == INSTANCE Governance WITH
    Request <- {"r1"}, Actor <- {"a1", "a2"}, Entry <- {"e1"}, Call <- {"c1", "c2"},
    Required <- <<1>>, MaxEntries <- 2, Engines <- 2, MaxVersion <- 2, MaxCrashes <- 1

(* Key destruction: two engines that cache, two workers that shred. *)
Keys == INSTANCE KeyLifecycle WITH
    Scope <- {"s1"}, Engine <- {"n1", "n2"}, KeyWorker <- {"w1", "w2"}, NoWorker <- None,
    ApprovedEpoch <- 1, MaxEpoch <- 2, Capacity <- 1, BatchSize <- 1, MaxRestarts <- 1,
    MaxFaults <- 1

(* Human tasks: two activations of one node, two users; then a case. *)
SameFor(I) == [i \in I |-> "t1"]
Inbox == INSTANCE HumanRuntime WITH
    Item <- {"i1", "i2"}, TenantOf <- SameFor({"i1", "i2"}), PlaceOf <- SameFor({"i1", "i2"}),
    User <- {"u1", "u2"}, Command <- {"c1", "c2"}, Decision <- {"d1"}, CaseItem <- {},
    Stage <- {}, WithDeadline <- {}, Escalator <- {}, NoCommand <- None, NoEscalator <- None,
    MaxDelegationDepth <- 1, MaxCrashes <- 1

(* Revocations: two publishers, two consumers of the topic. *)
Revocations == INSTANCE QueryRevocation WITH
    Subject <- {"s1"}, Publisher <- {"p1", "p2"}, NoPublisher <- None,
    RevokeConsumer <- {"c1", "c2"}, RevokeBatch <- 2, MaxChanges <- 2, MaxUntrusted <- 1,
    MaxRevokeFaults <- 1

(* The read model: one instance and two projectors; then two exports. *)
ReadModel == INSTANCE Projection WITH
    Flow <- {"f1"}, Projector <- {"p1", "p2"}, ProjectBatch <- 2, MaxFlowEvents <- 3,
    MaxReplays <- 1, Export <- {}, MaxProjectFaults <- 1, NoExport <- None
Exports == INSTANCE Projection WITH
    Flow <- {}, Projector <- {"p1", "p2"}, ProjectBatch <- 2, MaxFlowEvents <- 0,
    MaxReplays <- 0, Export <- {"x1", "x2"}, MaxProjectFaults <- 2, NoExport <- None
-----------------------------------------------------------------------------
(* Queries: three rows, filters of every connective, sorts that need the row  *)
(* id to be total, and sorts over a nullable column.                          *)
Owned   == [op |-> "equal", field |-> "owner", value |-> 1]
Closed  == [op |-> "equal", field |-> "completed", value |-> 1]
By(f, d, c) == <<[field |-> f, desc |-> d, coalesce |-> c]>>
Columns == {"owner", "completed", "id", "instance", "sequence", "type"}
Grants  == {[filter |-> None, fields |-> Columns], [filter |-> Owned, fields |-> Columns],
            [filter |-> Owned, fields |-> Columns \ {"completed", "type"}]}

ProcessRow == {[id |-> r, owner |-> o, completed |-> k] : r \in 1..3, o \in {1, 2}, k \in {1, None}}
ProcessQuery ==
    [export : BOOLEAN, events : {FALSE}, collapse : {FALSE},
     sort : {By("owner", TRUE, None), By("completed", FALSE, 1)},
     filter : {None, [op |-> "or", args |-> {Owned, Closed}], [op |-> "not", arg |-> Closed],
               [op |-> "is_null", field |-> "completed"]}]
EventRow ==
    {[id |-> r, instance |-> IF r = 1 THEN 1 ELSE 2, sequence |-> IF r = 3 THEN 2 ELSE 1,
      type |-> t, owner |-> IF r = 1 THEN 1 ELSE 2] : r \in 1..3, t \in {1, 2}}
EventQuery ==
    [export : {FALSE}, events : {TRUE}, collapse : {FALSE},
     sort : {<<>>, By("type", FALSE, None) \o By("sequence", TRUE, None)},
     filter : {None, [op |-> "equal", field |-> "type", value |-> 1]}]
ById(C) == {t \in [1..3 -> C] : \A r \in 1..3 : t[r] # None => t[r].id = r}

Processes == INSTANCE ProcessQueries WITH
    Row <- 1..3, Table <- ById(ProcessRow), Content <- ProcessRow, Query <- ProcessQuery,
    Grant <- Grants, Limit <- {1, 2}, MaxFilterDepth <- 3, MaxPredicates <- 3,
    MaxSortFields <- 3, MaxUpdates <- 1, MaxPolicies <- 2, Null <- None, NoFilter <- None,
    NoCursor <- None
Events == INSTANCE ProcessQueries WITH
    Row <- 1..3, Table <- ById(EventRow \cup {None}), Content <- EventRow, Query <- EventQuery,
    Grant <- Grants, Limit <- {1, 2}, MaxFilterDepth <- 3, MaxPredicates <- 3,
    MaxSortFields <- 3, MaxUpdates <- 1, MaxPolicies <- 2, Null <- None, NoFilter <- None,
    NoCursor <- None
-----------------------------------------------------------------------------
(* Configuration: two profiles of one tenant, two outbox workers. *)
Profiles == INSTANCE Configuration WITH
    Profile <- {"p1", "p2"}, ScopeOf <- [p \in {"p1", "p2"} |-> "tenant"],
    OutboxWorker <- {"w1", "w2"}, NoOutboxWorker <- None, OutboxBatch <- 2, Retires <- TRUE,
    MaxVersions <- 2, MaxPublications <- 3, MaxConfigFaults <- 1

(* Tenant readiness, with transactions that overlap, abort and delete. *)
Tenants == INSTANCE TenantReadiness WITH
    Tenant <- {"t1"}, Owner <- {"o1"}, LifecycleWorker <- {"l1"},
    ReadinessWorker <- {"r1", "r2"}, NoSender <- None, TenantBatch <- 2, Overlap <- TRUE,
    Deletes <- TRUE, MaxTenantVersion <- 2, MaxScopeChanges <- 1, MaxAborts <- 1,
    MaxTenantFaults <- 1

(* The event stream of the cockpit: one client that reconnects, past a buffer *)
(* of one and a window of two; then two clients under a limit of one stream.  *)
Reconnects == INSTANCE RealtimeFeed WITH
    Client <- {"c1"}, NamesOf <- [c \in {"c1"} |-> <<"w">>],
    EventNames <- {<<"w", "a">>, <<"w", "a", "i">>}, MaxSignals <- 3, BufferSize <- 1,
    ReplaySize <- 2, MaxReplayStreams <- 2, MaxSubscriptions <- 1, MaxConnections <- 2,
    MaxGatewayRestarts <- 1, NoCursor <- 0
Crowded == INSTANCE RealtimeFeed WITH
    Client <- {"c1", "c2"}, NamesOf <- [c1 |-> <<"w">>, c2 |-> <<"i">>],
    EventNames <- {<<"w">>, <<"w", "i">>}, MaxSignals <- 2, BufferSize <- 1, ReplaySize <- 2,
    MaxReplayStreams <- 1, MaxSubscriptions <- 1, MaxConnections <- 2,
    MaxGatewayRestarts <- 0, NoCursor <- 0
-----------------------------------------------------------------------------
(* Access decisions.  Every part is one user and one action. *)
Algorithms == INSTANCE AccessAlgorithms
IsX(v)   == Algorithms!Leaf(Algorithms!Attribute("x"), "eq",
                            Algorithms!Literal(Algorithms!JsonNum(v)))
Related  == Algorithms!Leaf(Algorithms!Relation("o"), "exists",
                            Algorithms!Literal(Algorithms!JsonNull))
Outside  == Algorithms!Leaf(Algorithms!External, "eq",
                            Algorithms!Literal(Algorithms!JsonNull))
RuleOf(effect, c) == [action |-> "a", effect |-> effect, priority |-> 1, condition |-> c]
XIs(v)   == "x" :> Algorithms!JsonNum(v)
AlwaysOf(P) == {[p \in P |-> <<>>], [p \in P |-> IF p # "q" \/ P = {"q"}
                                                THEN <<Algorithms!Window(0, 0)>> ELSE <<>>]}
AnyWindows == {Algorithms!Window(f, u) : f \in 0..2, u \in 0..2}
WindowsOfP ==
    {[p \in {"p"} |-> s] :
        s \in UNION {[1..n -> {w \in AnyWindows : w.from <= w.until}] : n \in 0..3}}
ActionA  == [p |-> "a", q |-> "a"]
Filters  == [p |-> {{"d1"}, {"d1", "d2"}}, q |-> {}]
Fields   == [p |-> {[allowed |-> {"f", "g"}, masked |-> {}], [allowed |-> {"f"}, masked |-> {"m"}]},
             q |-> {}]
Extras   == [x \in {"r0", "r1"} \X {"p", "q"} |-> IF x = <<"r1", "q">> THEN Related ELSE None]

(* One role, a filtered and an unfiltered permission, rules of both effects. *)
Decisions == INSTANCE AccessDecision WITH
    active <- activeUser, NoRole <- "none", NoFilter <- None, NoFields <- None,
    NoCondition <- None, NoRule <- None, ActionOf <- ActionA, FiltersOf <- Filters,
    FieldsOf <- Fields, Extra <- Extras, Unparsable <- {}, Attributes <- {XIs(1), XIs(2)},
    Action <- "a", UserNode <- "u", Materialized <- {}, ZoneOffset <- 0, MaxDepth <- 2,
    MaxFanout <- 2, MaxObjects <- 3, Edge <- {<<"u", "o">>},
    Role <- {"r0"}, Parent <- [r0 |-> "none"], Permission <- {"p", "q"}, ScopeAll <- {"q"},
    Rule <- {RuleOf("ALLOW", Algorithms!Either(<<IsX(1), Outside>>)), RuleOf("DENY", IsX(2))},
    WindowChoice <- AlwaysOf({"p", "q"}), OtherGrants <- FALSE, Midnight <- 3, Threshold <- 2,
    QueryLimit <- 10, MaxWrites <- 0, MaxFailures <- 0, MaxRequests <- 1

(* A role and its parent, grants that change, searches that fail. *)
Hierarchy == INSTANCE AccessDecision WITH
    active <- activeUser, NoRole <- "none", NoFilter <- None, NoFields <- None,
    NoCondition <- None, NoRule <- None, ActionOf <- ActionA, FiltersOf <- Filters,
    FieldsOf <- Fields, Extra <- Extras, Unparsable <- {}, Attributes <- {XIs(1)},
    Action <- "a", UserNode <- "u", Materialized <- {}, ZoneOffset <- 0, MaxDepth <- 2,
    MaxFanout <- 2, MaxObjects <- 3, Edge <- {<<"u", "o">>},
    Role <- {"r0", "r1"}, Parent <- [r1 |-> "r0", r0 |-> "none"], Permission <- {"q"},
    ScopeAll <- {"q"},
    Rule <- {RuleOf("ALLOW", Algorithms!Either(<<IsX(1), Related>>)), RuleOf("DENY", IsX(2))},
    WindowChoice <- AlwaysOf({"q"}), OtherGrants <- TRUE, Midnight <- 2, Threshold <- 1,
    QueryLimit <- 5, MaxWrites <- 1, MaxFailures <- 1, MaxRequests <- 2

(* Relation tuples with a cycle, a detour and a path of the greatest depth. *)
Relations == INSTANCE AccessDecision WITH
    active <- activeUser, NoRole <- "none", NoFilter <- None, NoFields <- None,
    NoCondition <- None, NoRule <- None, ActionOf <- ActionA, FiltersOf <- Filters,
    FieldsOf <- Fields, Extra <- Extras, Unparsable <- {}, Attributes <- {XIs(1)},
    Action <- "a", UserNode <- "u", Materialized <- {}, ZoneOffset <- 0, MaxDepth <- 3,
    MaxFanout <- 2, MaxObjects <- 3,
    Edge <- {<<"u", "a">>, <<"u", "b">>, <<"a", "b">>, <<"b", "a">>, <<"b", "c">>, <<"c", "o">>},
    Role <- {}, Parent <- <<>>, Permission <- {"p"}, ScopeAll <- {}, Rule <- {},
    WindowChoice <- {[p \in {"p"} |-> <<>>]}, OtherGrants <- FALSE, Midnight <- 3,
    Threshold <- 2, QueryLimit <- 8, MaxWrites <- 7, MaxFailures <- 0, MaxRequests <- 0

(* Every three time windows of a day of three seconds. *)
Windows == INSTANCE AccessDecision WITH
    active <- activeUser, NoRole <- "none", NoFilter <- None, NoFields <- None,
    NoCondition <- None, NoRule <- None, ActionOf <- ActionA, FiltersOf <- Filters,
    FieldsOf <- Fields, Extra <- Extras, Unparsable <- {}, Attributes <- {XIs(1)},
    Action <- "a", UserNode <- "u", Materialized <- {}, ZoneOffset <- 0, MaxDepth <- 3,
    MaxFanout <- 2, MaxObjects <- 3, Edge <- {},
    Role <- {}, Parent <- <<>>, Permission <- {"p"}, ScopeAll <- {}, Rule <- {},
    WindowChoice <- WindowsOfP, OtherGrants <- FALSE, Midnight <- 3,
    Threshold <- 2, QueryLimit <- 8, MaxWrites <- 0, MaxFailures <- 0, MaxRequests <- 0

(* An engine process with two workflow types and the profiles of the platform *)
(* and of the first type; the last policy does not pass the engine's own      *)
(* validation.                                                                *)
FlowOf(t) == [workflow_type |-> t, workflow_version |-> 1]
ProfileOf(o, k, r) == [owner |-> o, kind |-> k, reference |-> r]
PolicyOf(bound, instances, ttl) ==
    [bound |-> bound, parallelism |-> instances, cardinality |-> 2,
     retry |-> [initial |-> 1, max |-> 1], heartbeat |-> 1, lease |-> ttl]
InFiles == [f \in {FlowOf("a"), FlowOf("b")} |-> PolicyOf(1, 1, 2)]
Reloads == INSTANCE EngineReload WITH
    Flow <- <<FlowOf("a"), FlowOf("b")>>, FilePolicy <- InFiles,
    Profile <- {ProfileOf("engine", "platform", "p"), ProfileOf("engine", "workflowType", "a"),
                ProfileOf("governance", "platform", "p")},
    EnginePolicy <- {PolicyOf(1, 1, 2), PolicyOf(2, 2, 2), PolicyOf(1, 1, 1)},
    Work <- {"w1"}, Absent <- None, MaxRecords <- 3, MaxStops <- 1
-----------------------------------------------------------------------------
governanceVars == <<row, call, orphans, engine, cached, registry, crashes>>
keyVars == <<wrapped, job, keyWorker, cache, loading, restarts, faults>>
humanVars == <<task, taskLog, sent, item, case, inbox, fetched, offset, session,
               overdue, escalation, escalator, humanCrashes>>
revokeVars == <<account, feed, lease, publisher, revokeTopic, group, revoker, epochs,
                incident, revokeFaults>>
projectVars == <<engineLog, relayed, eventTopic, replays, partition, projector,
                 processed, instanceRow, eventRow, export, renderer, projectFaults>>
queryVars == <<table, policy, walk, steady>>
configVars == <<profile, active, outbox, publication, outboxWorker, configTopic,
                reloader, configFaults>>
tenantVars == <<tenant, mutation, lifecycle, lifecycleTopic, lifecycleOffset, scopes,
                readiness, applying, answers, answerTopic, answerOffset, known, sender,
                tenantBudget>>
feedVars == <<committedEvents, eventConsumer, streams, subscribers, connection, browser,
              gatewayRestarts>>
accessVars == <<direct, holds, rules, windows, activeUser, tuples, inserting, warm,
                circuit, request, budget>>
reloadVars == <<published, records, process, installed, handles, reload, work, stops>>
vars == <<part, governanceVars, keyVars, humanVars, revokeVars, projectVars, queryVars,
          configVars, tenantVars, feedVars, accessVars, reloadVars>>

Init ==
    /\ part \in Parts
    /\ IF part = "approvals" THEN Approvals!Init
       ELSE IF part = "effects" THEN Effects!Init
       ELSE IF part = "calls" THEN Calls!Init
       ELSE /\ row = None /\ call = None /\ orphans = None
            /\ engine = None /\ cached = None /\ registry = None
            /\ crashes = None
    /\ IF part = "keys" THEN Keys!KeyInit
       ELSE /\ wrapped = None /\ job = None /\ keyWorker = None
            /\ cache = None /\ loading = None /\ restarts = None
            /\ faults = None
    /\ IF part = "inbox" THEN Inbox!HumanInit
       ELSE /\ task = None /\ taskLog = None /\ sent = None
            /\ item = None /\ case = None /\ inbox = None
            /\ fetched = None /\ offset = None /\ session = None
            /\ overdue = None /\ escalation = None /\ escalator = None
            /\ humanCrashes = None
    /\ IF part = "revocations" THEN Revocations!RevokeInit
       ELSE /\ account = None /\ feed = None /\ lease = None
            /\ publisher = None /\ revokeTopic = None /\ group = None
            /\ revoker = None /\ epochs = None /\ incident = None
            /\ revokeFaults = None
    /\ IF part = "read model" THEN ReadModel!ProjectInit
       ELSE IF part = "exports" THEN Exports!ProjectInit
       ELSE /\ engineLog = None /\ relayed = None /\ eventTopic = None
            /\ replays = None /\ partition = None /\ projector = None
            /\ processed = None /\ instanceRow = None /\ eventRow = None
            /\ export = None /\ renderer = None /\ projectFaults = None
    /\ IF part = "processes" THEN Processes!QueryInit
       ELSE IF part = "events" THEN Events!QueryInit
       ELSE /\ table = None /\ policy = None /\ walk = None
            /\ steady = None
    /\ IF part = "profiles" THEN Profiles!ConfigInit
       ELSE /\ profile = None /\ active = None /\ outbox = None
            /\ publication = None /\ outboxWorker = None /\ configTopic = None
            /\ reloader = None /\ configFaults = None
    /\ IF part = "tenants" THEN Tenants!TenantInit
       ELSE /\ tenant = None /\ mutation = None /\ lifecycle = None
            /\ lifecycleTopic = None /\ lifecycleOffset = None /\ scopes = None
            /\ readiness = None /\ applying = None /\ answers = None
            /\ answerTopic = None /\ answerOffset = None /\ known = None
            /\ sender = None /\ tenantBudget = None
    /\ IF part = "reconnects" THEN Reconnects!FeedInit
       ELSE IF part = "crowded" THEN Crowded!FeedInit
       ELSE /\ committedEvents = None /\ eventConsumer = None /\ streams = None
            /\ subscribers = None /\ connection = None /\ browser = None
            /\ gatewayRestarts = None
    /\ IF part = "decisions" THEN Decisions!AccessInit
       ELSE IF part = "hierarchy" THEN Hierarchy!AccessInit
       ELSE IF part = "relations" THEN Relations!AccessInit
       ELSE IF part = "windows" THEN Windows!AccessInit
       ELSE /\ direct = None /\ holds = None /\ rules = None
            /\ windows = None /\ activeUser = None /\ tuples = None
            /\ inserting = None /\ warm = None /\ circuit = None
            /\ request = None /\ budget = None
    /\ IF part = "reloads" THEN Reloads!ReloadInit
       ELSE /\ published = None /\ records = None /\ process = None
            /\ installed = None /\ handles = None /\ reload = None
            /\ work = None /\ stops = None

Next ==
    \/ /\ \/ part = "approvals" /\ Approvals!Next
          \/ part = "effects" /\ Effects!Next
          \/ part = "calls" /\ Calls!Next
       /\ UNCHANGED <<part, keyVars, humanVars, revokeVars, projectVars, queryVars,
                      configVars, tenantVars, feedVars, accessVars, reloadVars>>
    \/ /\ part = "keys" /\ Keys!KeyNext
       /\ UNCHANGED <<part, governanceVars, humanVars, revokeVars, projectVars,
                      queryVars, configVars, tenantVars, feedVars, accessVars, reloadVars>>
    \/ /\ part = "inbox" /\ Inbox!HumanNext
       /\ UNCHANGED <<part, governanceVars, keyVars, revokeVars, projectVars, queryVars,
                      configVars, tenantVars, feedVars, accessVars, reloadVars>>
    \/ /\ part = "revocations" /\ Revocations!RevokeNext
       /\ UNCHANGED <<part, governanceVars, keyVars, humanVars, projectVars, queryVars,
                      configVars, tenantVars, feedVars, accessVars, reloadVars>>
    \/ /\ \/ part = "read model" /\ ReadModel!ProjectNext
          \/ part = "exports" /\ Exports!ProjectNext
       /\ UNCHANGED <<part, governanceVars, keyVars, humanVars, revokeVars, queryVars,
                      configVars, tenantVars, feedVars, accessVars, reloadVars>>
    \/ /\ \/ part = "processes" /\ Processes!QueryNext
          \/ part = "events" /\ Events!QueryNext
       /\ UNCHANGED <<part, governanceVars, keyVars, humanVars, revokeVars, projectVars,
                      configVars, tenantVars, feedVars, accessVars, reloadVars>>
    \/ /\ part = "profiles" /\ Profiles!ConfigNext
       /\ UNCHANGED <<part, governanceVars, keyVars, humanVars, revokeVars, projectVars,
                      queryVars, tenantVars, feedVars, accessVars, reloadVars>>
    \/ /\ part = "tenants" /\ Tenants!TenantNext
       /\ UNCHANGED <<part, governanceVars, keyVars, humanVars, revokeVars, projectVars,
                      queryVars, configVars, feedVars, accessVars, reloadVars>>
    \/ /\ \/ part = "reconnects" /\ Reconnects!FeedNext
          \/ part = "crowded" /\ Crowded!FeedNext
       /\ UNCHANGED <<part, governanceVars, keyVars, humanVars, revokeVars, projectVars,
                      queryVars, configVars, tenantVars, accessVars, reloadVars>>
    \/ /\ \/ part = "decisions" /\ Decisions!AccessNext
          \/ part = "hierarchy" /\ Hierarchy!AccessNext
          \/ part = "relations" /\ Relations!AccessNext
          \/ part = "windows" /\ Windows!AccessNext
       /\ UNCHANGED <<part, governanceVars, keyVars, humanVars, revokeVars, projectVars,
                      queryVars, configVars, tenantVars, feedVars, reloadVars>>
    \/ /\ part = "reloads" /\ Reloads!ReloadNext
       /\ UNCHANGED <<part, governanceVars, keyVars, humanVars, revokeVars, projectVars,
                      queryVars, configVars, tenantVars, feedVars, accessVars>>
-----------------------------------------------------------------------------
(* What a termination did is what was approved: the audit record names enough *)
(* actors who signed, there is one work item for each ledger entry they saw,  *)
(* and a key is handed to destruction only by the request that terminated the *)
(* instance (service.rs of the governance service and rocks.rs of the engine  *)
(* share no transaction).                                                     *)
RemediesAsApproved ==
    /\ part = "approvals" => Approvals!ShredOnlyAfterTermination /\ Approvals!TerminationAsApproved
    /\ part = "effects" => Effects!ShredOnlyAfterTermination /\ Effects!TerminationAsApproved
    /\ part = "calls" => Calls!ShredOnlyAfterTermination /\ Calls!TerminationAsApproved

(* What has ended stays as it ended: a side effect keeps its remedy however   *)
(* compensation and termination race, and an export that was completed,       *)
(* failed or cancelled keeps its status and its file when a second worker     *)
(* that rendered it comes late (prepare_abort_and_reconcile,                  *)
(* CompleteQueryExport).                                                      *)
EndedStaysEnded ==
    [][/\ part \in {"approvals", "effects", "calls"} =>
            \A e \in DOMAIN engine.ledger : engine.ledger[e] \in {"compensated", "reconcile"} =>
                engine'.ledger[e] = engine.ledger[e]
       /\ part = "exports" =>
            \A x \in DOMAIN export : export[x].status \in {"completed", "failed", "cancelled"} =>
                export'[x].status = export[x].status /\ export'[x].by = export[x].by]_vars

(* A data key at or below the barrier is never served, whatever the order of  *)
(* barrier, unwrap and insertion, and the KMS destroys a key only after every *)
(* engine that was not restarted holds the barrier (CachedDataKeyResolver,    *)
(* KeyLifecycleWorker).                                                       *)
KeysAreBarred == part = "keys" => Keys!CacheIsExact /\ Keys!BarrierBeforeShred


(* A query passes only with a token as new as every revocation of its actor   *)
(* that the consumer has passed, whatever is sent twice or set aside          *)
(* (the lease of query_revoke_publisher.rs, Apply of revokefeed, the epoch    *)
(* test of the query authorizer).                                             *)
RevokedStaysOut == part = "revocations" => Revocations!RevokedStaysOut

(* The committed offset never passes a record that is not in the read model,  *)
(* which is the replay of a prefix of the engine's log (Consumer.Run, Apply). *)
OffsetFollowsReadModel == part = "read model" => ReadModel!OffsetFollowsReadModel


(* What others hold of a configuration follows its owner: the published       *)
(* versions are exactly those that scopes resolve to, a process never serves  *)
(* a version older than a record it has committed, and the readiness that the *)
(* control plane holds of a tenant never goes back to an earlier answer       *)
(* (Publish, Rollback and Retire of the store, InstallScoped, RetireScoped,   *)
(* apply_tenant_configuration_readiness).                                     *)
ConfigurationIsServed ==
    /\ part = "profiles" => Profiles!PublishedIsActive /\ Profiles!CommittedIsServed
    /\ part = "tenants" => Tenants!ReadinessNeverRegresses

(* A command or a background pass of the engine sees one version of every     *)
(* configuration, the workers run under the policy of the installed           *)
(* configurations, and once every publication is read each scope has the      *)
(* version in force (RuntimeRegistry, RuntimeSafePointGate, the reloader).    *)
EngineRunsAsConfigured == part = "reloads" => Reloads!EngineRunsAsConfigured


(* Access is decided as the plain definitions say: a query is answered by     *)
(* what its rows grant, in whatever order they come, and the interval tree    *)
(* and the deepening search answer as a window and as reachability do         *)
(* (evaluate_query, evaluate_inner, interval_tree.rs, iddfs.rs).              *)
AccessIsAsDefined ==
    /\ part = "decisions" => Decisions!QueryAnsweredAsGranted
    /\ part = "hierarchy" => Hierarchy!QueryAnsweredAsGranted
    /\ part = "relations" => Relations!FastPathsAgree
    /\ part = "windows" => Windows!FastPathsAgree
=============================================================================
