--------------------------- MODULE Configuration ---------------------------
(***************************************************************************)
(* The configuration service and one service that runs under its policies. *)
(*                                                                         *)
(* Administrators create, draft, publish, roll back and retire profiles.   *)
(* Every operation is one PostgreSQL transaction that locks the profile    *)
(* row and takes the next number of the outbox from a single row, so the   *)
(* transactions are serial and each is one step here.  A leased publisher  *)
(* sends the outbox to Kafka in batches.  The other service holds resolved *)
(* snapshots in a cache, which it fills when it starts and again on every  *)
(* publication it reads, by asking the configuration service for the       *)
(* profile that applies.  One tenant and one owner are modelled: scopes of *)
(* other owners never meet.  The transactions end by refreshing the        *)
(* readiness of the tenant, which TenantReadiness models.                  *)
(***************************************************************************)
EXTENDS Naturals, FiniteSets, Sequences

CONSTANTS Profile,           \* the profiles of the tenant and owner
          ScopeOf,           \* the scope each profile is created for
          OutboxWorker,      \* publishers, one per replica
          NoOutboxWorker,
          OutboxBatch,       \* rows a publisher claims at once
          Retires,           \* whether an administrator retires profiles
          MaxVersions,       \* bound: versions of a profile
          MaxPublications,   \* bound: rows of the outbox
          MaxConfigFaults    \* bound: crashes, lost leases and failed sends

VARIABLES profile,        \* configuration_profiles with configuration_versions
          active,         \* configuration_active_scopes
          outbox,         \* configuration_outbox, by event_sequence
          publication,    \* configuration_outbox_publish_state
          outboxWorker,   \* the batch each publisher is sending
          configTopic,    \* the Kafka partition of the tenant
          reloader,       \* the process that holds the cache
          configFaults

configVars == <<profile, active, outbox, publication, outboxWorker,
                configTopic, reloader, configFaults>>

-----------------------------------------------------------------------------
(* Profiles.                                                               *)

ScopePriority ==
  [platform |-> 1, environment |-> 2, tenant |-> 3,
   workflowType |-> 4, workflowVersion |-> 5, instance |-> 6]

Scope == DOMAIN ScopePriority

NoVersion == [profile |-> "none", ordinal |-> 0]

NoProfile == [aggregate |-> 0, versions |-> << >>]

Holds(p, status) == {o \in DOMAIN profile[p].versions : profile[p].versions[o] = status}

\* An administrator expects the version they read, which may have passed.
Expected(p) == {profile[p].aggregate, profile[p].aggregate - 1} \intersect Nat

LockProfile(p, expected) == profile[p] # NoProfile /\ profile[p].aggregate = expected

\* The versions of a profile with those of some statuses retired.
Retired(p, statuses) ==
  [o \in DOMAIN profile[p].versions |->
     IF profile[p].versions[o] \in statuses THEN "retired" ELSE profile[p].versions[o]]

InsertVersion(versions, status) == Append(versions, status)

SaveProfile(p, versions) ==
  /\ Len(versions) <= MaxVersions
  /\ profile' = [profile EXCEPT ![p] = [aggregate |-> @.aggregate + 1, versions |-> versions]]

\* The scope is taken from whoever holds it.
ClaimAnyScope(p, ordinal) ==
  active' = [active EXCEPT ![ScopeOf[p]] = [profile |-> p, ordinal |-> ordinal]]

\* A scope is free for a profile unless another profile is active in it.
ClaimActiveScope(p, ordinal) ==
  /\ active[ScopeOf[p]] = NoVersion \/ active[ScopeOf[p]].profile = p
  /\ active' = [active EXCEPT ![ScopeOf[p]] = [profile |-> p, ordinal |-> ordinal]]

InsertOutbox(p, ordinal, retired) ==
  /\ Len(outbox) < MaxPublications
  /\ outbox' = Append(outbox, [profile |-> p, ordinal |-> ordinal, retired |-> retired])

Create(p) ==
  /\ profile[p] = NoProfile
  /\ SaveProfile(p, InsertVersion(<< >>, "draft"))
  /\ UNCHANGED <<active, outbox>>

AddDraft(p, expected) ==
  /\ LockProfile(p, expected)
  /\ Holds(p, "draft") = {}
  /\ SaveProfile(p, InsertVersion(profile[p].versions, "draft"))
  /\ UNCHANGED <<active, outbox>>

Publish(p, expected, version) ==
  /\ LockProfile(p, expected)
  /\ version \in Holds(p, "draft")
  /\ ClaimActiveScope(p, version)
  /\ SaveProfile(p, [Retired(p, {"published"}) EXCEPT ![version] = "published"])
  /\ InsertOutbox(p, version, FALSE)

\* Rollback and restore publish a copy of an earlier version, and retire a
\* draft that was waiting.
RestoreVersion(p, expected, target) ==
  LET ordinal == Len(profile[p].versions) + 1
  IN /\ LockProfile(p, expected)
     /\ target \notin Holds(p, "draft")
     /\ ClaimActiveScope(p, ordinal)
     /\ SaveProfile(p, InsertVersion(Retired(p, {"published", "draft"}), "published"))
     /\ InsertOutbox(p, ordinal, FALSE)

Retire(p, expected) ==
  /\ Retires
  /\ LockProfile(p, expected)
  /\ \E o \in Holds(p, "published") :
       /\ active[ScopeOf[p]] = [profile |-> p, ordinal |-> o]
       /\ active' = [active EXCEPT ![ScopeOf[p]] = NoVersion]
       /\ SaveProfile(p, Retired(p, {"published"}))
       /\ InsertOutbox(p, o, TRUE)

\* A retry of a request that was committed finds its idempotency key and is
\* answered with the profile; the version it expects has passed, so it could
\* not commit again, and the step is not modelled.
Submit(p) ==
  /\ \/ Create(p)
     \/ \E expected \in Expected(p) :
          \/ AddDraft(p, expected) \/ Retire(p, expected)
          \/ \E v \in DOMAIN profile[p].versions :
               Publish(p, expected, v) \/ RestoreVersion(p, expected, v)
  /\ UNCHANGED <<publication, outboxWorker, configTopic, reloader, configFaults>>

-----------------------------------------------------------------------------
(* Publishers of the outbox.                                               *)

NoBatch == [first |-> 1, last |-> 0, sent |-> 0]

\* A lease that ran out keeps its owner's name until it is taken.
Unleased == ~publication.live

\* A publisher claims the rows behind the checkpoint and holds one lease on
\* all of them.
ClaimPublicationBatch(w) ==
  LET first == publication.checkpoint + 1
      last == IF Len(outbox) < publication.checkpoint + OutboxBatch THEN Len(outbox)
                ELSE publication.checkpoint + OutboxBatch
  IN /\ outboxWorker[w] = NoBatch
     /\ Unleased
     /\ first <= Len(outbox)
     /\ publication' = [publication EXCEPT !.lease = w, !.live = TRUE]
     /\ outboxWorker' = [outboxWorker EXCEPT ![w] = [first |-> first, last |-> last, sent |-> first - 1]]
     /\ UNCHANGED <<profile, active, outbox, configTopic, reloader, configFaults>>

PublishRecord(w) ==
  LET batch == outboxWorker[w]
  IN /\ batch.sent < batch.last
     /\ configTopic' = Append(configTopic, outbox[batch.sent + 1])
     /\ outboxWorker' = [outboxWorker EXCEPT ![w].sent = @ + 1]
     /\ UNCHANGED <<profile, active, outbox, publication, reloader, configFaults>>

\* The whole batch is acknowledged, so the checkpoint moves past it, unless
\* the lease went to another publisher.
CompletePublicationBatch(w) ==
  LET batch == outboxWorker[w]
      held == publication.lease = w /\ batch.first = publication.checkpoint + 1
  IN /\ batch # NoBatch /\ batch.sent = batch.last
     /\ publication' = IF held THEN [checkpoint |-> batch.last, lease |-> NoOutboxWorker, live |-> FALSE]
                         ELSE publication
     /\ outboxWorker' = [outboxWorker EXCEPT ![w] = NoBatch]
     /\ UNCHANGED <<profile, active, outbox, configTopic, reloader, configFaults>>

Fault == configFaults < MaxConfigFaults /\ configFaults' = configFaults + 1

\* A failed send gives the batch back; the records sent before stay sent.
FailPublicationBatch(w) ==
  /\ outboxWorker[w] # NoBatch
  /\ Fault
  /\ publication' = IF publication.lease = w THEN [publication EXCEPT !.lease = NoOutboxWorker, !.live = FALSE]
                      ELSE publication
  /\ outboxWorker' = [outboxWorker EXCEPT ![w] = NoBatch]
  /\ UNCHANGED <<profile, active, outbox, configTopic, reloader>>

CrashPublisher(w) ==
  /\ outboxWorker[w] # NoBatch
  /\ Fault
  /\ outboxWorker' = [outboxWorker EXCEPT ![w] = NoBatch]
  /\ UNCHANGED <<profile, active, outbox, publication, configTopic, reloader>>

Expire == publication.live /\ publication' = [publication EXCEPT !.live = FALSE]

\* The lease of a publisher that died runs out, and that of a slow one may.
LeaseExpires ==
  /\ Expire
  /\ outboxWorker[publication.lease] = NoBatch
  /\ UNCHANGED <<profile, active, outbox, outboxWorker, configTopic, reloader, configFaults>>

LeaseOutlived ==
  /\ Expire
  /\ outboxWorker[publication.lease] # NoBatch
  /\ Fault
  /\ UNCHANGED <<profile, active, outbox, outboxWorker, configTopic, reloader>>

-----------------------------------------------------------------------------
(* The service that caches resolved snapshots.                             *)

\* Publications of a scope are installed under one key.
CacheKeyOf(scope) ==
  IF scope \in {"platform", "environment", "tenant"} THEN "tenant" ELSE scope

CacheKey == {CacheKeyOf(scope) : scope \in Scope}

\* The scopes a request under a cache key resolves through.
Visible(key) ==
  {"platform", "environment", "tenant"} \union
  (CASE key = "tenant"          -> {}
     [] key = "workflowType"    -> {"workflowType"}
     [] key = "workflowVersion" -> {"workflowType", "workflowVersion"}
     [] key = "instance"        -> {"instance"})

\* The most specific published profile that applies, as the configuration
\* service answers it.
Resolve(key) ==
  LET found == {scope \in Visible(key) : active[scope] # NoVersion}
  IN IF found = {} THEN NoVersion
       ELSE active[CHOOSE scope \in found :
              \A other \in found : ScopePriority[other] <= ScopePriority[scope]]

EmptyCache == [key \in CacheKey |-> NoVersion]

NoOrdinals == [key \in CacheKey |-> 0]

Stopped == [at |-> "stopped", offset |-> reloader.offset, cache |-> EmptyCache,
            latest |-> NoOrdinals, answer |-> NoVersion]

ScopeMatchesKey(snapshot, key) == CacheKeyOf(ScopeOf[snapshot.profile]) = key


\* A snapshot is refused when a later ordinal was installed or retired under
\* its key.
StaleSnapshot(key, snapshot) ==
  \/ snapshot.ordinal < reloader.latest[key]
  \/ snapshot.ordinal = reloader.latest[key] /\ reloader.cache[key] = NoVersion

InstallScoped(key, snapshot) ==
  [reloader EXCEPT !.cache[key] = snapshot, !.latest[key] = snapshot.ordinal,
                   !.answer = NoVersion]

\* The process starts and asks for the snapshot of its tenant; without one it
\* stops again.
Bootstrap ==
  /\ reloader.at = "stopped"
  /\ Resolve("tenant") # NoVersion
  /\ reloader' = [reloader EXCEPT !.at = "starting", !.answer = Resolve("tenant")]
  /\ UNCHANGED <<profile, active, outbox, publication, outboxWorker, configTopic, configFaults>>

FinishBootstrap ==
  /\ reloader.at = "starting"
  /\ reloader' = [InstallScoped("tenant", reloader.answer) EXCEPT !.at = "running"]
  /\ UNCHANGED <<profile, active, outbox, publication, outboxWorker, configTopic, configFaults>>

Polled == configTopic[reloader.offset + 1]

PolledKey == CacheKeyOf(ScopeOf[Polled.profile])

\* The tombstone is set and the snapshot stays.
RetireOrdinal(key, ordinal) ==
  IF ordinal < reloader.latest[key] THEN Stopped
    ELSE [reloader EXCEPT !.latest[key] = ordinal, !.offset = @ + 1]

\* The tombstone of a retired version.  An error ends the consumer, and with
\* it the process.
RetireScoped(key, ordinal) ==
  IF ordinal < reloader.latest[key] THEN Stopped
    ELSE [reloader EXCEPT !.cache[key] = NoVersion, !.latest[key] = ordinal,
                          !.offset = @ + 1]

HandleRetired ==
  /\ reloader.at = "running" /\ reloader.offset < Len(configTopic)
  /\ Polled.retired
  /\ reloader' = RetireScoped(PolledKey, Polled.ordinal)
  /\ UNCHANGED <<profile, active, outbox, publication, outboxWorker, configTopic, configFaults>>

\* Any other publication makes the process ask again; the answer is what
\* applies now, not what the record says.
HandlePublished ==
  /\ reloader.at = "running" /\ reloader.answer = NoVersion
  /\ reloader.offset < Len(configTopic)
  /\ ~Polled.retired
  /\ reloader' = IF Resolve(PolledKey) = NoVersion THEN Stopped
                   ELSE [reloader EXCEPT !.answer = Resolve(PolledKey)]
  /\ UNCHANGED <<profile, active, outbox, publication, outboxWorker, configTopic, configFaults>>

InstallAnswer ==
  LET snapshot == reloader.answer
  IN /\ reloader.at = "running" /\ snapshot # NoVersion
     /\ reloader' =
          IF \/ snapshot.profile = Polled.profile /\ snapshot.ordinal < Polled.ordinal
             \/ ~ScopeMatchesKey(snapshot, PolledKey)
             \/ StaleSnapshot(PolledKey, snapshot)
            THEN Stopped
            ELSE [InstallScoped(PolledKey, snapshot) EXCEPT !.offset = @ + 1]
     /\ UNCHANGED <<profile, active, outbox, publication, outboxWorker, configTopic, configFaults>>

\* The process dies, or its offset commit fails after the snapshot is in.
CrashReloader ==
  /\ reloader.at # "stopped"
  /\ Fault
  /\ reloader' = Stopped
  /\ UNCHANGED <<profile, active, outbox, publication, outboxWorker, configTopic>>

-----------------------------------------------------------------------------
ConfigInit ==
  /\ profile = [p \in Profile |-> NoProfile]
  /\ active = [scope \in Scope |-> NoVersion]
  /\ outbox = << >>
  /\ publication = [checkpoint |-> 0, lease |-> NoOutboxWorker, live |-> FALSE]
  /\ outboxWorker = [w \in OutboxWorker |-> NoBatch]
  /\ configTopic = << >>
  /\ reloader = [at |-> "stopped", offset |-> 0, cache |-> EmptyCache,
                 latest |-> NoOrdinals, answer |-> NoVersion]
  /\ configFaults = 0

ReloaderNext ==
  Bootstrap \/ FinishBootstrap \/ HandleRetired \/ HandlePublished \/ InstallAnswer

PublisherNext(w) ==
  ClaimPublicationBatch(w) \/ PublishRecord(w) \/ CompletePublicationBatch(w)

ConfigNext ==
  \/ \E p \in Profile : Submit(p)
  \/ \E w \in OutboxWorker :
       PublisherNext(w) \/ FailPublicationBatch(w) \/ CrashPublisher(w)
  \/ LeaseExpires \/ LeaseOutlived
  \/ ReloaderNext \/ CrashReloader

\* Publishers poll for ever, the leases of the dead run out, and the process
\* is started again whenever it ends.  Administrators need do nothing.
ConfigFairness ==
  /\ \A w \in OutboxWorker : WF_configVars(PublisherNext(w))
  /\ WF_configVars(LeaseExpires)
  /\ WF_configVars(ReloaderNext)

ConfigSpec == ConfigInit /\ [][ConfigNext]_configVars /\ ConfigFairness

-----------------------------------------------------------------------------
(* Properties.                                                             *)

\* The published versions are exactly the active ones: whatever sequence of
\* publications, rollbacks and retirements of competing profiles was
\* committed, a profile that shows a published version is the one its scope
\* resolves to, and no scope resolves to a version that was withdrawn.
PublishedIsActive ==
  \A scope \in Scope :
    {v \in [profile : Profile, ordinal : 1 .. MaxVersions] :
       ScopeOf[v.profile] = scope /\ v.ordinal \in Holds(v.profile, "published")}
      = {active[scope]} \ {NoVersion}

\* A process that committed the record of a publication does not serve an
\* older version of that profile, and one that committed the record of a
\* retirement does not serve the version that was retired: through crashes,
\* replays and batches sent twice the cache only moves forward.
CommittedIsServed ==
  \A i \in 1 .. reloader.offset :
    LET event == configTopic[i]
        served == reloader.cache[CacheKeyOf(ScopeOf[event.profile])]
    IN served.profile = event.profile =>
         IF event.retired THEN served.ordinal > event.ordinal
           ELSE served.ordinal >= event.ordinal

\* When administrators stop, the tenant's snapshot in the cache is the one
\* the configuration service resolves, for good.
CacheConverges ==
  \A v \in [profile : Profile, ordinal : 1 .. MaxVersions] :
    (<>[](Resolve("tenant") = v)) => (<>[](reloader.cache["tenant"] = v))
=============================================================================
