---------------------------- MODULE EngineReload ----------------------------
(***************************************************************************)
(* The configurations an engine process runs under.  The process starts    *)
(* with a verified definition per workflow scope and asks the              *)
(* configuration service for the engine and governance profiles that apply *)
(* to each.  A task then reads the publications: it asks again for every   *)
(* scope the record may concern and installs the answers at a safe point,  *)
(* when no command and no background pass is in progress.  An error ends   *)
(* the task, and with it the process, which is started again.              *)
(*                                                                         *)
(* One tenant is modelled, and the configuration service by what it        *)
(* answers: Configuration models the service itself.                       *)
(***************************************************************************)
EXTENDS Naturals, Sequences, SequencesExt, FiniteSets

CONSTANTS
    Flow,          \* workflow scopes in order: [workflow_type, workflow_version]
    Profile,       \* profiles: [owner, kind, reference]
    EnginePolicy,  \* engine policies an administrator publishes
    FilePolicy,    \* what the configuration file of each scope holds
    Work,          \* commands and background passes that may run side by side
    Absent,        \* no snapshot
    MaxRecords,    \* bound: publications
    MaxStops       \* bound: crashes of the process

VARIABLES
    published,     \* published[p]: the version of profile p in force, or Absent
    records,       \* the topic of publications
    process,       \* the process: where its configurations come from, where it
                   \* is, and its committed offset
    installed,     \* the registry: the snapshot per scope and owner
    handles,       \* the policies the background workers run under
    reload,        \* the task that reads publications
    work,          \* what each command or pass in progress has read
    stops

reloadVars == <<published, records, process, installed, handles, reload, work, stops>>

Owner == {"engine", "governance"}
Handle == {"remote", "boundary", "retry", "workers"}
-----------------------------------------------------------------------------
(* What the configuration service answers. *)
Precedence ==
    [platform |-> 1, environment |-> 2, tenant |-> 3, workflowType |-> 4, workflowVersion |-> 5]

(* Whether a profile applies to a workflow scope. *)
AppliesTo(p, f) ==
    CASE p.kind = "workflowType"    -> p.reference = f.workflow_type
      [] p.kind = "workflowVersion" -> p.reference = <<f.workflow_type, f.workflow_version>>
      [] p.kind = "override"        -> FALSE
      [] OTHER                      -> TRUE

Snapshot(p) == [profile |-> p, ordinal |-> published[p].ordinal, policy |-> published[p].policy]

Resolve(f, owner) ==
    LET found == {p \in Profile : /\ p.owner = owner /\ AppliesTo(p, f)
                                  /\ published[p] # Absent}
    IN IF found = {} THEN Absent
       ELSE Snapshot(CHOOSE p \in found :
                       \A o \in found : Precedence[o.kind] <= Precedence[p.kind])

Record(p, kind, ordinal) == records' = Append(records, [profile |-> p, kind |-> kind, ordinal |-> ordinal])

Ordinal(p) == Cardinality({i \in DOMAIN records : /\ records[i].profile = p
                                                  /\ records[i].kind = "published"})

PublishProfile(p, policy) ==
    /\ Len(records) < MaxRecords
    /\ published' = [published EXCEPT ![p] = [ordinal |-> Ordinal(p) + 1, policy |-> policy]]
    /\ Record(p, "published", Ordinal(p) + 1)
    /\ UNCHANGED <<process, installed, handles, reload, work, stops>>

RetireProfile(p) ==
    /\ Len(records) < MaxRecords /\ published[p] # Absent
    /\ published' = [published EXCEPT ![p] = Absent]
    /\ Record(p, "retired", published[p].ordinal)
    /\ UNCHANGED <<process, installed, handles, reload, work, stops>>
-----------------------------------------------------------------------------
(* A snapshot becomes a configuration when its values are in range.           *)
ValidRetry(r) == r.initial > 0 /\ r.max >= r.initial

ValidEngine(e) ==
    /\ e.bound > 0 /\ e.parallelism > 0 /\ e.parallelism <= e.cardinality
    /\ ValidRetry(e.retry)
    /\ e.heartbeat > 0 /\ e.heartbeat < e.lease

ValidGovernance(g) == g.approvers > 0

FromProto(owner, snapshot) ==
    /\ snapshot # Absent /\ snapshot.ordinal > 0
    /\ IF owner = "engine" THEN ValidEngine(snapshot.policy) ELSE ValidGovernance(snapshot.policy)

(* The part of an engine policy that the background workers share. *)
WorkerPolicy(snapshot) ==
    [retry |-> snapshot.policy.retry, heartbeat |-> snapshot.policy.heartbeat,
     lease |-> snapshot.policy.lease, bound |-> snapshot.policy.bound]

(* The worker policies of the scopes that have a configuration. *)
PoliciesOf(registry) ==
    {WorkerPolicy(registry[f]["engine"]) : f \in {g \in Range(Flow) : registry[g]["engine"] # Absent}}
-----------------------------------------------------------------------------
NoSnapshots == [f \in Range(Flow) |-> [o \in Owner |-> Absent]]
Reading == [at |-> "recv", todo |-> << >>, updates |-> << >>]
NoWork == [w \in Work |-> Absent]

(* The end of the process, wherever it is. *)
Exit ==
    /\ process' = [process EXCEPT !.at = "down"]
    /\ installed' = NoSnapshots
    /\ handles' = [h \in Handle |-> Absent]
    /\ reload' = Reading
    /\ work' = NoWork

(* The questions of load_runtime_registry: for each scope, first the engine   *)
(* profile and then the governance profile.                                   *)
LoadOrder == FlattenSeq([i \in DOMAIN Flow |-> << <<Flow[i], "engine">>, <<Flow[i], "governance">> >>])

Start ==
    /\ process.at = "down" /\ process.source = "service"
    /\ process' = [process EXCEPT !.at = "loading"]
    /\ reload' = [Reading EXCEPT !.at = "load", !.todo = LoadOrder]
    /\ UNCHANGED <<published, records, installed, handles, work, stops>>

Load ==
    LET f == Head(reload.todo)[1]
        owner == Head(reload.todo)[2]
    IN /\ process.at = "loading" /\ reload.todo # << >>
       /\ IF FromProto(owner, Resolve(f, owner))
          THEN /\ installed' = [installed EXCEPT ![f][owner] = Resolve(f, owner)]
               /\ reload' = [reload EXCEPT !.todo = Tail(@)]
               /\ UNCHANGED <<process, handles, work>>
          ELSE Exit
       /\ UNCHANGED <<published, records, stops>>

(* Without a configuration service the configurations come from files, one    *)
(* for each definition; there is nothing to read publications for.            *)
LoadFiles ==
    /\ process.at = "down" /\ process.source = "files" /\ DOMAIN FilePolicy = Range(Flow)
    /\ \A f \in Range(Flow) : ValidEngine(FilePolicy[f])
    /\ process' = [process EXCEPT !.at = "loading"]
    /\ installed' = [f \in Range(Flow) |->
                       [engine |-> [profile |-> Absent, ordinal |-> 0, policy |-> FilePolicy[f]],
                        governance |-> Absent]]
    /\ reload' = [Reading EXCEPT !.at = "none"]
    /\ UNCHANGED <<published, records, handles, work, stops>>

(* The workers take the policy that all scopes agree on. *)
FinishLoading ==
    /\ process.at = "loading" /\ reload.todo = << >>
    /\ IF Cardinality(PoliciesOf(installed)) = 1
       THEN /\ process' = [process EXCEPT !.at = "up"]
            /\ handles' = [h \in Handle |-> CHOOSE x \in PoliciesOf(installed) : TRUE]
            /\ reload' = [reload EXCEPT !.at = IF @ = "load" THEN "recv" ELSE @]
            /\ UNCHANGED <<installed, work>>
       ELSE Exit
    /\ UNCHANGED <<published, records, stops>>

Crash ==
    /\ process.at # "down" /\ stops < MaxStops
    /\ stops' = stops + 1
    /\ Exit
    /\ UNCHANGED <<published, records>>
-----------------------------------------------------------------------------
Event == records[process.offset + 1]

(* configuration_publication_matches_scope *)
Matches(f) ==
    CASE Event.profile.kind = "workflowType"    -> f.workflow_type = Event.profile.reference
      [] Event.profile.kind = "workflowVersion" ->
            <<f.workflow_type, f.workflow_version>> = Event.profile.reference
      [] Event.profile.kind = "override"        -> FALSE
      [] OTHER                                  -> TRUE

Candidates == SelectSeq(Flow, Matches)

(* The reloader fails: the process is about to end, but its other tasks still *)
(* run.                                                                       *)
Fails == reload' = [Reading EXCEPT !.at = "failed"]

Receive ==
    /\ process.at = "up" /\ reload.at = "recv" /\ process.offset < Len(records)
    /\ reload' = IF Event.profile.owner \notin Owner THEN [reload EXCEPT !.at = "commit"]
                 ELSE IF Event.kind = "retired" THEN [reload EXCEPT !.at = "retire"]
                 ELSE [reload EXCEPT !.at = "resolve", !.todo = Candidates]
    /\ UNCHANGED <<published, records, process, installed, handles, work, stops>>

(* One question per candidate; the answer is what is in force now. *)
ResolveOne ==
    LET f == Head(reload.todo)
        owner == Event.profile.owner
        answer == Resolve(f, owner)
    IN /\ reload.at = "resolve" /\ reload.todo # << >>
       /\ IF /\ FromProto(owner, answer)
             /\ ~(answer.profile = Event.profile /\ answer.ordinal < Event.ordinal)
          THEN reload' = [reload EXCEPT !.todo = Tail(@), !.updates = Append(@, <<f, answer>>)]
          ELSE Fails
       /\ UNCHANGED <<published, records, process, installed, handles, work, stops>>

(* The registry as the updates will leave it. *)
Updated ==
    [f \in Range(Flow) |-> [o \in Owner |->
        IF o = Event.profile.owner /\ \E i \in DOMAIN reload.updates : reload.updates[i][1] = f
        THEN reload.updates[CHOOSE i \in DOMAIN reload.updates : reload.updates[i][1] = f][2]
        ELSE installed[f][o]]]

(* common_runtime_worker_policy_after_updates, before the safe point *)
Agree ==
    /\ reload.at = "resolve" /\ reload.todo = << >>
    /\ IF Cardinality(PoliciesOf(Updated)) <= 1
       THEN reload' = [reload EXCEPT !.at = "update"]
       ELSE Fails
    /\ UNCHANGED <<published, records, process, installed, handles, work, stops>>

(* A bug: the update does not wait for the work in progress. *)
SafePointAnyTime == TRUE

(* with_safe_point: nothing is in progress, and nothing starts until the      *)
(* update is over.                                                            *)
SafePoint == \A w \in Work : work[w] = Absent

Replace ==
    /\ reload.at = "update" /\ SafePoint
    /\ installed' = Updated
    /\ reload' = [reload EXCEPT !.at = IF Event.profile.owner = "engine" /\ PoliciesOf(Updated) # {}
                                       THEN "remote" ELSE "commit"]
    /\ UNCHANGED <<published, records, process, handles, work, stops>>

(* RuntimeWorkerPolicyHandles::replace, one handle after the other; the       *)
(* registry of workers may refuse bounds below its sessions.                  *)
NextHandle == [remote |-> "boundary", boundary |-> "retry", retry |-> "workers", workers |-> "commit"]

ReplaceHandle ==
    /\ reload.at \in Handle
    /\ \/ /\ handles' = [handles EXCEPT ![reload.at] = CHOOSE x \in PoliciesOf(installed) : TRUE]
          /\ reload' = [reload EXCEPT !.at = NextHandle[@]]
       \/ /\ reload.at = "remote" /\ Fails
          /\ UNCHANGED handles
    /\ UNCHANGED <<published, records, process, installed, work, stops>>

Retire ==
    /\ reload.at = "retire" /\ SafePoint
    /\ installed' = [f \in Range(Flow) |-> [o \in Owner |->
                       IF o = Event.profile.owner /\ Matches(f) THEN Absent ELSE installed[f][o]]]
    /\ reload' = [reload EXCEPT !.at = "commit"]
    /\ UNCHANGED <<published, records, process, handles, work, stops>>

Commit ==
    /\ reload.at = "commit"
    /\ process' = [process EXCEPT !.offset = @ + 1]
    /\ reload' = Reading
    /\ UNCHANGED <<published, records, installed, handles, work, stops>>

(* The failed task ends the process. *)
Stop ==
    /\ reload.at = "failed"
    /\ Exit
    /\ UNCHANGED <<published, records, stops>>
-----------------------------------------------------------------------------
(* A command, or a pass of the boundary or local task worker, holds a shared  *)
(* permit from its start to its end.  It may look up the configuration of a   *)
(* scope and the worker policies any number of times.                         *)
Gated == {"boundary", "retry"}
Updating == reload.at \in Handle

Enter(w) ==
    /\ process.at = "up" /\ work[w] = Absent /\ ~Updating
    /\ work' = [work EXCEPT ![w] = [configurations |-> {}, policies |-> {}]]
    /\ UNCHANGED <<published, records, process, installed, handles, reload, stops>>

ReadConfiguration(w, f) ==
    /\ work[w] # Absent /\ installed[f]["engine"] # Absent
    /\ work' = [work EXCEPT ![w].configurations = @ \cup {<<f, installed[f]["engine"]>>}]
    /\ UNCHANGED <<published, records, process, installed, handles, reload, stops>>

ReadPolicy(w, h) ==
    /\ work[w] # Absent
    /\ work' = [work EXCEPT ![w].policies = @ \cup {<<h, handles[h]>>}]
    /\ UNCHANGED <<published, records, process, installed, handles, reload, stops>>

Leave(w) ==
    /\ work[w] # Absent
    /\ work' = [work EXCEPT ![w] = Absent]
    /\ UNCHANGED <<published, records, process, installed, handles, reload, stops>>
-----------------------------------------------------------------------------
ReloadInit ==
    /\ published = [p \in Profile |-> Absent]
    /\ records = << >>
    /\ process \in [source : {"service", "files"}, at : {"down"}, offset : {0}]
    /\ installed = NoSnapshots
    /\ handles = [h \in Handle |-> Absent]
    /\ reload = Reading
    /\ work = NoWork
    /\ stops = 0

ReloadNext ==
    \/ \E p \in Profile : \/ \E x \in (IF p.owner = "engine" THEN EnginePolicy ELSE {[approvers |-> 1]}) :
                                PublishProfile(p, x)
                          \/ RetireProfile(p)
    \/ Start \/ Load \/ LoadFiles \/ FinishLoading \/ Crash \/ Stop
    \/ Receive \/ ResolveOne \/ Agree \/ Replace \/ ReplaceHandle \/ Retire \/ Commit
    \/ \E w \in Work : \/ Enter(w) \/ Leave(w)
                       \/ \E f \in Range(Flow) : ReadConfiguration(w, f)
                       \/ \E h \in Gated : ReadPolicy(w, h)

-----------------------------------------------------------------------------
(* A command or a pass sees one version of everything it looks up, however    *)
(* many publications arrive meanwhile (RuntimeSafePointGate).                 *)
SeesOneVersion ==
    \A w \in Work : work[w] # Absent =>
        /\ \A x \in work[w].configurations : x[2] = installed[x[1]]["engine"]
        /\ \A x \in work[w].policies : x[2] = handles[x[1]]

(* Unless the task has failed, the workers run under the policy that every    *)
(* installed configuration holds (RuntimeWorkerPolicyHandles).                *)
WorkersFollow ==
    process.at = "up" /\ ~Updating /\ reload.at # "failed" =>
        \A f \in Range(Flow) : installed[f]["engine"] # Absent =>
            \A h \in Handle : handles[h] = WorkerPolicy(installed[f]["engine"])

(* Once every publication is read, each scope has the version in force, or    *)
(* nothing if the last publication that concerns it is a retirement.          *)
CaughtUp ==
    process.at = "up" /\ reload.at = "recv" /\ process.offset = Len(records) =>
        \A f \in Range(Flow), o \in Owner :
            LET about == {i \in DOMAIN records : /\ records[i].profile.owner = o
                                                 /\ AppliesTo(records[i].profile, f)}
            IN IF installed[f][o] # Absent THEN installed[f][o] = Resolve(f, o)
               ELSE about # {} /\ records[CHOOSE i \in about : \A j \in about : j <= i].kind = "retired"

(* What an engine process runs under: one version throughout a command, the   *)
(* same for its workers, and in the end the version in force.                 *)
EngineRunsAsConfigured == SeesOneVersion /\ WorkersFollow /\ CaughtUp
=============================================================================
