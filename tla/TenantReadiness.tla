-------------------------- MODULE TenantReadiness --------------------------
(***************************************************************************)
(* How a tenant is found ready and may be activated.                       *)
(*                                                                         *)
(* The authorization control plane owns the tenants.  Every change of one  *)
(* is a transaction that writes the tenant row and a row of the lifecycle  *)
(* outbox, whose number comes from a PostgreSQL sequence: numbers are      *)
(* drawn before the commit and are not given back.  The configuration      *)
(* service consumes the lifecycle events, computes which required owners   *)
(* have no active profile, keeps the result as the tenant's readiness and  *)
(* announces it through an outbox of its own.  The control plane consumes  *)
(* the answer, and activates a tenant only when its present version is     *)
(* ready.                                                                  *)
(***************************************************************************)
EXTENDS Naturals, FiniteSets, SequencesExt

CONSTANTS Tenant,
          Owner,              \* configuration_activation_requirements
          LifecycleWorker,    \* control plane processes, each a publisher
          ReadinessWorker,    \* configuration service processes
          NoSender,
          TenantBatch,        \* rows a publisher claims at once
          Overlap,            \* whether transactions overlap
          Deletes,            \* whether tenants are deleted
          MaxTenantVersion,   \* bound: changes of a tenant
          MaxScopeChanges,    \* bound: publications and retirements
          MaxAborts,          \* bound: transactions that fail after drawing
          MaxTenantFaults     \* bound: crashes and leases that run out early

VARIABLES tenant,            \* table tenant of the control plane
          mutation,          \* the open transaction on each tenant row
          lifecycle,         \* tenant_lifecycle_outbox and its publish state
          lifecycleTopic,    \* Kafka topic of the lifecycle events
          lifecycleOffset,   \* what the configuration service committed
          scopes,            \* owners with an active profile, by tenant
          readiness,         \* tenant_configuration_readiness, configuration
          applying,          \* the consumer's open transaction
          answers,           \* tenant_configuration_readiness_outbox
          answerTopic,       \* Kafka topic of the readiness events
          answerOffset,      \* what the control plane committed
          known,             \* tenant_configuration_readiness, control plane
          sender,            \* the batch each publisher is sending
          tenantBudget       \* counters of the bounds

tenantVars == <<tenant, mutation, lifecycle, lifecycleTopic, lifecycleOffset, scopes,
                readiness, applying, answers, answerTopic, answerOffset, known,
                sender, tenantBudget>>

authzVars == <<tenant, mutation, lifecycle, known>>
configurationVars == <<scopes, readiness, applying, answers>>
topicVars == <<lifecycleTopic, lifecycleOffset, answerTopic, answerOffset>>

Sender == LifecycleWorker \union ReadinessWorker

NoEvent == [tenant |-> "none"]

NoMutation == [status |-> "none"]

NoRow == [version |-> 0, ready |-> FALSE, number |-> 0]

NoBatch == [rows |-> << >>, sent |-> 0]

\* A bounded step spends one of its counter.
Spend(counter) ==
  /\ tenantBudget[counter] > 0
  /\ tenantBudget' = [tenantBudget EXCEPT ![counter] = @ - 1]

-----------------------------------------------------------------------------
(* Outboxes with numbered rows.                                            *)

\* A number that was drawn has no row until its transaction commits.
EmptyOutbox == [rows |-> << >>, checkpoint |-> 0, lease |-> NoSender, live |-> FALSE]

Pending(box) == {n \in DOMAIN box.rows : n > box.checkpoint /\ box.rows[n] # NoEvent}

\* The rows a publisher is given: the first ones behind the checkpoint.
Claimed(box) ==
  LET ordered == SetToSortSeq(Pending(box), <)
  IN SubSeq(ordered, 1, IF Len(ordered) < TenantBatch THEN Len(ordered) ELSE TenantBatch)

\* The claim fails when the first row is not the next number.
CanClaim(box, w) ==
  /\ sender[w] = NoBatch
  /\ ~box.live
  /\ box.checkpoint + 1 \in Pending(box)

Leased(box, w) == [box EXCEPT !.lease = w, !.live = TRUE]

\* A published batch moves the checkpoint to its last number, unless the
\* lease went to another publisher.
Completed(box, w) ==
  LET batch == sender[w].rows
  IN IF box.lease = w /\ Head(batch) = box.checkpoint + 1
       THEN [box EXCEPT !.checkpoint = Last(batch), !.lease = NoSender, !.live = FALSE]
       ELSE box

AllSent(w) == sender[w] # NoBatch /\ sender[w].sent = Len(sender[w].rows)

\* The next row of the batch a publisher sends.
NextRow(box, w) == box.rows[sender[w].rows[sender[w].sent + 1]]

CanSend(w) == sender[w].sent < Len(sender[w].rows)

Expired(box) == [box EXCEPT !.live = FALSE]

-----------------------------------------------------------------------------
(* The tenants.                                                            *)

Exists(t) == tenant[t].status \notin {"absent", "deleted"}

\* Activation needs the readiness of the present version.
Activatable(t) == known[t].version = tenant[t].version /\ known[t].ready

\* A transaction that holds the tenant row has changed it and draws the
\* number of its event.
InsertTenantOutbox(t, status) ==
  /\ mutation[t] = NoMutation
  /\ Overlap \/ \A u \in Tenant : mutation[u] = NoMutation
  /\ tenant[t].version < MaxTenantVersion
  /\ lifecycle' = [lifecycle EXCEPT !.rows = Append(@, NoEvent)]
  /\ mutation' = [mutation EXCEPT ![t] = [status |-> status, number |-> Len(lifecycle.rows) + 1]]
  /\ UNCHANGED <<tenant, known, configurationVars, topicVars, sender, tenantBudget>>

InsertTenant(t) ==
  tenant[t].status = "absent" /\ InsertTenantOutbox(t, "suspended")

UpdateTenant(t) ==
  Exists(t) /\ InsertTenantOutbox(t, tenant[t].status)

UpdateTenantStatus(t, status) ==
  /\ Exists(t)
  /\ status = "active" => Activatable(t)
  /\ InsertTenantOutbox(t, status)

DeleteTenant(t) ==
  Deletes /\ Exists(t) /\ InsertTenantOutbox(t, "deleted")

CommitMutation(t) ==
  LET m == mutation[t]
      version == tenant[t].version + 1
  IN /\ m # NoMutation
     /\ tenant' = [tenant EXCEPT ![t] = [version |-> version, status |-> m.status]]
     /\ lifecycle' = [lifecycle EXCEPT !.rows[m.number] =
                        [tenant |-> t, version |-> version, number |-> m.number,
                         deleted |-> m.status = "deleted"]]
     /\ mutation' = [mutation EXCEPT ![t] = NoMutation]
     /\ UNCHANGED <<known, configurationVars, topicVars, sender, tenantBudget>>

\* The transaction fails; its number stays drawn.
AbortMutation(t) ==
  /\ mutation[t] # NoMutation
  /\ Spend("aborts")
  /\ mutation' = [mutation EXCEPT ![t] = NoMutation]
  /\ UNCHANGED <<tenant, lifecycle, known, configurationVars, topicVars, sender>>

-----------------------------------------------------------------------------
(* Publishers.                                                             *)

ClaimLifecycleBatch(w) ==
  /\ CanClaim(lifecycle, w)
  /\ lifecycle' = Leased(lifecycle, w)
  /\ sender' = [sender EXCEPT ![w] = [rows |-> Claimed(lifecycle), sent |-> 0]]
  /\ UNCHANGED <<tenant, mutation, known, configurationVars, topicVars, tenantBudget>>

SendLifecycle(w) ==
  /\ CanSend(w)
  /\ lifecycleTopic' = Append(lifecycleTopic, NextRow(lifecycle, w))
  /\ sender' = [sender EXCEPT ![w].sent = @ + 1]
  /\ UNCHANGED <<authzVars, configurationVars, lifecycleOffset, answerTopic, answerOffset,
                 tenantBudget>>

CompleteLifecycleBatch(w) ==
  /\ AllSent(w)
  /\ lifecycle' = Completed(lifecycle, w)
  /\ sender' = [sender EXCEPT ![w] = NoBatch]
  /\ UNCHANGED <<tenant, mutation, known, configurationVars, topicVars, tenantBudget>>

ClaimTenantReadinessBatch(w) ==
  /\ CanClaim(answers, w)
  /\ answers' = Leased(answers, w)
  /\ sender' = [sender EXCEPT ![w] = [rows |-> Claimed(answers), sent |-> 0]]
  /\ UNCHANGED <<authzVars, scopes, readiness, applying, topicVars, tenantBudget>>

PublishTenantReadiness(w) ==
  /\ CanSend(w)
  /\ answerTopic' = Append(answerTopic, NextRow(answers, w))
  /\ sender' = [sender EXCEPT ![w].sent = @ + 1]
  /\ UNCHANGED <<authzVars, configurationVars, lifecycleTopic, lifecycleOffset, answerOffset,
                 tenantBudget>>

CompleteTenantReadinessBatch(w) ==
  /\ AllSent(w)
  /\ answers' = Completed(answers, w)
  /\ sender' = [sender EXCEPT ![w] = NoBatch]
  /\ UNCHANGED <<authzVars, scopes, readiness, applying, topicVars, tenantBudget>>

\* A send of the configuration service fails and the batch is given back.
FailTenantReadinessBatch(w) ==
  /\ CanSend(w)
  /\ Spend("faults")
  /\ sender' = [sender EXCEPT ![w] = NoBatch]
  /\ answers' = IF answers.lease = w THEN [answers EXCEPT !.lease = NoSender, !.live = FALSE]
                  ELSE answers
  /\ UNCHANGED <<authzVars, scopes, readiness, applying, topicVars>>

\* A process ends with a batch in hand; a failed send ends a control plane
\* process too.  Its lease stays.
CrashSender(w) ==
  /\ sender[w] # NoBatch
  /\ Spend("faults")
  /\ sender' = [sender EXCEPT ![w] = NoBatch]
  /\ UNCHANGED <<authzVars, configurationVars, topicVars>>

\* The lease of a publisher that ended runs out, and that of a slow one may.
HolderEnded(box) == box.live /\ sender[box.lease] = NoBatch

Outlived(box) ==
  /\ box.live
  /\ IF HolderEnded(box) THEN UNCHANGED tenantBudget ELSE Spend("faults")

LifecycleLeaseExpires ==
  /\ Outlived(lifecycle)
  /\ lifecycle' = Expired(lifecycle)
  /\ UNCHANGED <<tenant, mutation, known, configurationVars, topicVars, sender>>

ReadinessLeaseExpires ==
  /\ Outlived(answers)
  /\ answers' = Expired(answers)
  /\ UNCHANGED <<authzVars, scopes, readiness, applying, topicVars, sender>>

-----------------------------------------------------------------------------
(* The configuration service.                                              *)

NoApply == [event |-> NoEvent]

Covered(t) == \A o \in Owner : scopes[t][o] # 0

InsertTenantReadinessOutbox(t, version, ready) ==
  answers' = [answers EXCEPT !.rows =
                Append(@, [tenant |-> t, version |-> version, ready |-> ready,
                           number |-> Len(@) + 1])]

\* A record is applied in a transaction that locks the readiness row, if
\* there is one, and reads the active scopes.
BeginLifecycle ==
  LET event == lifecycleTopic[lifecycleOffset + 1]
      row == readiness[event.tenant]
  IN /\ applying = NoApply
     /\ lifecycleOffset < Len(lifecycleTopic)
     /\ row.number < event.number
     /\ applying' = [event |-> event, scopes |-> scopes[event.tenant],
                     ready |-> Covered(event.tenant) /\ ~event.deleted]
     /\ UNCHANGED <<authzVars, scopes, readiness, answers, topicVars, sender, tenantBudget>>

SaveReadiness ==
  LET event == applying.event
  IN /\ applying # NoApply
     /\ readiness' = [readiness EXCEPT ![event.tenant] =
                        [version |-> event.version, ready |-> applying.ready,
                         number |-> event.number, scopes |-> applying.scopes]]
     /\ InsertTenantReadinessOutbox(event.tenant, event.version, applying.ready)
     /\ applying' = NoApply
     /\ UNCHANGED <<authzVars, scopes, topicVars, sender, tenantBudget>>

\* The offset is committed after the transaction, or at once for an event
\* that was applied before.
CommitLifecycle ==
  LET event == lifecycleTopic[lifecycleOffset + 1]
  IN /\ applying = NoApply
     /\ lifecycleOffset < Len(lifecycleTopic)
     /\ readiness[event.tenant].number >= event.number
     /\ lifecycleOffset' = lifecycleOffset + 1
     /\ UNCHANGED <<authzVars, configurationVars, lifecycleTopic, answerTopic, answerOffset,
                    sender, tenantBudget>>

\* The transaction or the process fails before the commit.
AbandonLifecycle ==
  /\ applying # NoApply
  /\ Spend("faults")
  /\ applying' = NoApply
  /\ UNCHANGED <<authzVars, scopes, readiness, answers, topicVars, sender>>

\* The row is brought up to date and nothing is announced.
RefreshRowOnly(t, after) ==
  /\ readiness' = IF readiness[t].number = 0 THEN readiness
                    ELSE [readiness EXCEPT ![t].ready = \A o \in Owner : after[o] # 0,
                                           ![t].scopes = after]
  /\ UNCHANGED answers

\* Readiness as a publication or a retirement leaves it, at the end of its
\* own transaction: nothing happens for a tenant without a row.
RefreshTenantReadiness(t, after) ==
  LET row == readiness[t]
      ready == \A o \in Owner : after[o] # 0
  IN IF row.number = 0 \/ (row.ready = ready /\ row.scopes = after) THEN UNCHANGED <<readiness, answers>>
       ELSE /\ readiness' = [readiness EXCEPT ![t].ready = ready, ![t].scopes = after]
            /\ InsertTenantReadinessOutbox(t, row.version, ready)

\* It waits for the row while the consumer holds it.
ChangeActiveScopes(t, o, published) ==
  LET id == IF published THEN tenantBudget["scopes"] ELSE 0
      after == [scopes[t] EXCEPT ![o] = id]
  IN /\ published \/ scopes[t][o] # 0
     /\ IF Overlap THEN applying.event.tenant = t => readiness[t].number = 0
          ELSE applying = NoApply
     /\ Spend("scopes")
     /\ scopes' = [scopes EXCEPT ![t] = after]
     /\ RefreshTenantReadiness(t, after)
     /\ UNCHANGED <<authzVars, applying, topicVars, sender>>

-----------------------------------------------------------------------------
(* The control plane hears of readiness.                                   *)

\* An event older than what is stored is not taken.
IsNewer(row, event) == row.number < event.number

\* Readiness of another version is passed over.  For a tenant that was
\* deleted the consumer fails, and with it the process, before the offset is
\* committed: the event stays the next one.
ApplyTenantConfigurationReadiness ==
  LET event == answerTopic[answerOffset + 1]
      t == event.tenant
  IN /\ answerOffset < Len(answerTopic)
     /\ Exists(t)
     /\ mutation[t] = NoMutation
     /\ known' = IF event.version = tenant[t].version /\ IsNewer(known[t], event)
                   THEN [known EXCEPT ![t] = [version |-> event.version, ready |-> event.ready,
                                              number |-> event.number]]
                   ELSE known
     /\ \/ answerOffset' = answerOffset + 1 /\ UNCHANGED tenantBudget
        \/ UNCHANGED answerOffset /\ Spend("faults")
     /\ UNCHANGED <<tenant, mutation, lifecycle, configurationVars,
                    lifecycleTopic, lifecycleOffset, answerTopic, sender>>

-----------------------------------------------------------------------------
TenantInit ==
  /\ tenant = [t \in Tenant |-> [version |-> 0, status |-> "absent"]]
  /\ mutation = [t \in Tenant |-> NoMutation]
  /\ lifecycle = EmptyOutbox /\ answers = EmptyOutbox
  /\ lifecycleTopic = << >> /\ lifecycleOffset = 0
  /\ answerTopic = << >> /\ answerOffset = 0
  /\ scopes = [t \in Tenant |-> [o \in Owner |-> 0]]
  /\ readiness = [t \in Tenant |-> NoRow]
  /\ applying = NoApply
  /\ known = [t \in Tenant |-> NoRow]
  /\ sender = [w \in Sender |-> NoBatch]
  /\ tenantBudget = [scopes |-> MaxScopeChanges, aborts |-> MaxAborts, faults |-> MaxTenantFaults]

LifecyclePublisherNext(w) ==
  ClaimLifecycleBatch(w) \/ SendLifecycle(w) \/ CompleteLifecycleBatch(w)

ReadinessPublisherNext(w) ==
  ClaimTenantReadinessBatch(w) \/ PublishTenantReadiness(w) \/ CompleteTenantReadinessBatch(w)

LifecycleConsumerNext == BeginLifecycle \/ SaveReadiness \/ CommitLifecycle

TenantNext ==
  \/ \E t \in Tenant :
       \/ InsertTenant(t) \/ UpdateTenant(t) \/ DeleteTenant(t)
       \/ \E status \in {"active", "suspended"} : UpdateTenantStatus(t, status)
       \/ CommitMutation(t) \/ AbortMutation(t)
       \/ \E o \in Owner, published \in BOOLEAN : ChangeActiveScopes(t, o, published)
  \/ \E w \in LifecycleWorker : LifecyclePublisherNext(w)
  \/ \E w \in ReadinessWorker : ReadinessPublisherNext(w) \/ FailTenantReadinessBatch(w)
  \/ \E w \in Sender : CrashSender(w)
  \/ LifecycleLeaseExpires \/ ReadinessLeaseExpires
  \/ LifecycleConsumerNext \/ AbandonLifecycle
  \/ ApplyTenantConfigurationReadiness

\* Transactions end, publishers and consumers run for ever and are started
\* again when they end, and leases run out.  Nobody need change a tenant.
TenantFairness ==
  /\ \A t \in Tenant : WF_tenantVars(CommitMutation(t))
  /\ \A w \in LifecycleWorker : WF_tenantVars(LifecyclePublisherNext(w))
  /\ \A w \in ReadinessWorker : WF_tenantVars(ReadinessPublisherNext(w))
  /\ WF_tenantVars(HolderEnded(lifecycle) /\ LifecycleLeaseExpires)
  /\ WF_tenantVars(HolderEnded(answers) /\ ReadinessLeaseExpires)
  /\ WF_tenantVars(LifecycleConsumerNext)
  /\ WF_tenantVars(ApplyTenantConfigurationReadiness)

TenantSpec == TenantInit /\ [][TenantNext]_tenantVars /\ TenantFairness

-----------------------------------------------------------------------------
(* Properties.                                                             *)

\* What the control plane believes of a tenant's present version never goes
\* back: no answer about that version that it consumed is later than the one
\* it holds, whatever publishers sent twice or out of turn.
ReadinessNeverRegresses ==
  \A t \in Tenant : \A i \in 1 .. answerOffset :
    LET event == answerTopic[i]
    IN (/\ known[t].version = tenant[t].version
        /\ event.tenant = t /\ event.version = known[t].version)
         => event.number <= known[t].number

\* Once a tenant and its profiles stop changing, the control plane knows for
\* good whether the tenant's present version is ready: through two outboxes,
\* two topics and two consumers, with batches sent twice and events applied
\* twice, the last word is that of the active profiles.
TenantReadinessSettles ==
  \A t \in Tenant, v \in 1 .. MaxTenantVersion, ready \in BOOLEAN :
    (<>[](Exists(t) /\ tenant[t].version = v /\ Covered(t) = ready)) =>
      (<>[](known[t].version = v /\ known[t].ready = ready))
=============================================================================
