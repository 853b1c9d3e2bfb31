--------------------------- MODULE QueryRevocation ---------------------------
(***************************************************************************)
(* How a revocation reaches the query service.  The authorization control  *)
(* plane counts up an actor's epoch and writes a feed row in one           *)
(* transaction; one of several publishers, holding a lease with a          *)
(* generation, sends the feed to a topic; the query service's consumers    *)
(* apply the records to a table of epochs, and quarantine those they       *)
(* cannot verify, which closes the service to every query until an         *)
(* operator resolves the incident.  Every query looks at that table.       *)
(*                                                                         *)
(* The topic has one partition here: records are keyed by tenant, and the  *)
(* table's rows of two tenants are never written by one record.            *)
(***************************************************************************)
EXTENDS Naturals, Sequences, FiniteSets

CONSTANTS
    Subject,            \* the actors of a tenant
    Publisher, NoPublisher,
    RevokeConsumer,     \* replicas of the query service
    RevokeBatch,        \* the publisher's batch size
    MaxChanges,         \* bound: revocations
    MaxUntrusted,       \* bound: records the consumers cannot verify
    MaxRevokeFaults     \* bound: crashes, failed calls, rebalances, and
                        \*   leases that run out under a publisher at work

VARIABLES
    account,        \* account[a]: the epoch of a's user account
    feed,           \* the rows of query_revoke_feed, in sequence order
    lease,          \* query_revoke_publish_state
    publisher,      \* publisher[p]: the batch p is sending
    revokeTopic,    \* the records of the topic
    group,          \* the consumer that owns the partition, and the offset
    revoker,        \* revoker[c]: the record c works on, and how far it is
    epochs,         \* query_actor_revoke_epochs
    incident,       \* incident[o]: what became of the record at offset o
    revokeFaults

feedVars == <<account, feed>>
sendVars == <<lease, publisher, revokeTopic>>
readVars == <<group, revoker, epochs, incident>>
revokeVars == <<feedVars, sendVars, readVars, revokeFaults>>

NoEpoch == [sequence |-> 0, epoch |-> 0, revoked |-> FALSE]
AtRest  == [phase |-> "idle", generation |-> 0, next |-> 0, last |-> 0]
Stopped == [at |-> 0, step |-> "stopped"]

RevokeInit ==
    /\ account = [a \in Subject |-> 0]
    /\ feed = <<>>
    /\ lease = [checkpoint |-> 0, generation |-> 0, owner |-> NoPublisher, live |-> FALSE]
    /\ publisher = [p \in Publisher |-> AtRest]
    /\ revokeTopic = <<>>
    /\ \E c \in RevokeConsumer : group = [owner |-> c, committed |-> 0]
    /\ revoker = [c \in RevokeConsumer |-> Stopped]
    /\ epochs = [a \in Subject |-> NoEpoch]
    /\ incident = <<>>
    /\ revokeFaults = 0

Fault == revokeFaults < MaxRevokeFaults /\ revokeFaults' = revokeFaults + 1

(***************************************************************************)
(* The control plane.  The statement that counts up the epoch also fires   *)
(* the trigger that counts up the revision every feed row takes its        *)
(* sequence from, and holds its row lock to the end of the transaction, so *)
(* rows become visible in the order of their sequences.                    *)
(***************************************************************************)
ChangeRevocation(a, revoked) ==
    /\ Len(feed) < MaxChanges
    /\ account' = [account EXCEPT ![a] = @ + 1]
    /\ feed' = Append(feed, [actor |-> a, epoch |-> account[a] + 1, revoked |-> revoked])
    /\ UNCHANGED <<sendVars, readVars, revokeFaults>>

(***************************************************************************)
(* The publishers.                                                         *)
(***************************************************************************)
Min2(m, n) == IF m < n THEN m ELSE n

\* Bug: a lease that ran out is not taken over while it names an owner.
LeasedToAny == lease.owner # NoPublisher

Leased == lease.live

Claim(p) ==
    /\ publisher[p].phase = "idle"
    /\ ~Leased
    /\ lease.checkpoint < Len(feed)
    /\ lease' = [lease EXCEPT !.generation = @ + 1, !.owner = p, !.live = TRUE]
    /\ publisher' = [publisher EXCEPT ![p] =
          [phase |-> "renew", generation |-> lease.generation + 1,
           next |-> lease.checkpoint + 1,
           last |-> Min2(lease.checkpoint + RevokeBatch, Len(feed))]]
    /\ UNCHANGED <<feedVars, readVars, revokeTopic, revokeFaults>>

Holds(p) ==
    lease.owner = p /\ lease.generation = publisher[p].generation /\ lease.live

Renew(p) ==
    /\ publisher[p].phase = "renew"
    /\ publisher' = [publisher EXCEPT ![p].phase = IF Holds(p) THEN "send" ELSE "release"]
    /\ UNCHANGED <<feedVars, readVars, lease, revokeTopic, revokeFaults>>

Untrusted == Cardinality({o \in 1..Len(revokeTopic) : ~revokeTopic[o].trusted})

\* A record is not trusted when the consumers do not hold its signing key,
\* or read another schema version.
Send(p) ==
    /\ publisher[p].phase = "send"
    /\ publisher' = [publisher EXCEPT ![p].phase = "sent"]
    /\ \E trusted \in BOOLEAN :
          /\ trusted \/ Untrusted < MaxUntrusted
          /\ revokeTopic' = Append(revokeTopic,
                [sequence |-> publisher[p].next, trusted |-> trusted])
    /\ UNCHANGED <<feedVars, readVars, lease, revokeFaults>>

\* The broker may or may not have taken a record whose delivery failed.  The
\* next attempt renews the lease first; after the last the batch ends.
SendFails(p) ==
    /\ publisher[p].phase = "send"
    /\ Fault
    /\ \E phase \in {"renew", "release"} :
          publisher' = [publisher EXCEPT ![p].phase = phase]
    /\ \E taken \in BOOLEAN :
          revokeTopic' = IF taken
                         THEN Append(revokeTopic,
                                 [sequence |-> publisher[p].next, trusted |-> TRUE])
                         ELSE revokeTopic
    /\ UNCHANGED <<feedVars, readVars, lease>>

Checkpoint(p) ==
    /\ publisher[p].phase = "sent"
    /\ LET b == publisher[p] IN
       IF Holds(p)
       THEN /\ lease' = [lease EXCEPT !.checkpoint = IF @ < b.next THEN b.next ELSE @]
            /\ publisher' = [publisher EXCEPT ![p] =
                  IF b.next = b.last THEN [b EXCEPT !.phase = "release"]
                  ELSE [b EXCEPT !.phase = "renew", !.next = @ + 1]]
       ELSE /\ publisher' = [publisher EXCEPT ![p].phase = "release"]
            /\ UNCHANGED lease
    /\ UNCHANGED <<feedVars, readVars, revokeTopic, revokeFaults>>

Release(p) ==
    /\ publisher[p].phase = "release"
    /\ lease' = IF lease.owner = p /\ lease.generation = publisher[p].generation
                THEN [lease EXCEPT !.owner = NoPublisher, !.live = FALSE]
                ELSE lease
    /\ publisher' = [publisher EXCEPT ![p] = AtRest]
    /\ UNCHANGED <<feedVars, readVars, revokeTopic, revokeFaults>>

\* Time passes: the lease of a publisher that stopped runs out, and so may,
\* as a fault, that of one that is slow.
LeaseEnds ==
    /\ lease.live
    /\ lease' = [lease EXCEPT !.live = FALSE]
    /\ IF Holds(lease.owner) /\ publisher[lease.owner].phase # "idle"
       THEN Fault ELSE UNCHANGED revokeFaults
    /\ UNCHANGED <<feedVars, readVars, publisher, revokeTopic>>

PublisherStops(p) ==
    /\ publisher[p].phase # "idle"
    /\ Fault
    /\ publisher' = [publisher EXCEPT ![p] = AtRest]
    /\ UNCHANGED <<feedVars, readVars, lease, revokeTopic>>

(***************************************************************************)
(* The consumers.                                                          *)
(***************************************************************************)
Poll(c) ==
    /\ revoker[c].step = "stopped"
    /\ group.owner = c
    /\ group.committed < Len(revokeTopic)
    /\ revoker' = [revoker EXCEPT ![c] = [at |-> group.committed + 1, step |-> "handle"]]
    /\ UNCHANGED <<feedVars, sendVars, group, epochs, incident, revokeFaults>>

RecordAt(c) == revokeTopic[revoker[c].at]
EventAt(c)  == feed[RecordAt(c).sequence]

Applied(c) ==
    [sequence |-> RecordAt(c).sequence, epoch |-> EventAt(c).epoch,
     revoked |-> EventAt(c).revoked]

\* Bug: what is delivered last is stored, whatever its place in the feed.
Overwrite(c, row) == Applied(c)

\* The row after a record: an older one is ignored, a newer one replaces it.
Advance(c, row) == IF RecordAt(c).sequence > row.sequence THEN Applied(c) ELSE row

\* A newer record with an older epoch, or the reverse, is a conflict.
Conflicts(c, row) ==
    /\ row # NoEpoch
    /\ \/ RecordAt(c).sequence = row.sequence /\ Applied(c) # row
       \/ RecordAt(c).sequence > row.sequence /\ EventAt(c).epoch <= row.epoch
       \/ RecordAt(c).sequence < row.sequence /\ EventAt(c).epoch >= row.epoch

\* The record is handled when its call returns without an error; a call that
\* failed may still have committed, and is repeated for the same record.
Returned(c, step) ==
    \/ revoker' = [revoker EXCEPT ![c].step = step] /\ UNCHANGED revokeFaults
    \/ Fault /\ UNCHANGED revoker

Apply(c) ==
    LET a == EventAt(c).actor IN
    /\ revoker[c].step = "handle"
    /\ RecordAt(c).trusted /\ ~Conflicts(c, epochs[a])
    /\ epochs' = [epochs EXCEPT ![a] = Advance(c, @)]
    /\ Returned(c, "commit")
    /\ UNCHANGED <<feedVars, sendVars, group, incident>>

Offsets == DOMAIN incident

Quarantine(c) ==
    LET o == revoker[c].at IN
    /\ revoker[c].step = "handle"
    /\ RecordAt(c).trusted => Conflicts(c, epochs[EventAt(c).actor])
    /\ incident' = [i \in Offsets \cup {o} |-> IF i \in Offsets THEN incident[i] ELSE "open"]
    /\ Returned(c, "dead_letter")
    /\ UNCHANGED <<feedVars, sendVars, group, epochs>>

\* The dead letter is sent, then its incident is marked, and only then may
\* the offset pass it.
AcknowledgeDLQ(c) ==
    LET o == revoker[c].at IN
    /\ revoker[c].step = "dead_letter"
    /\ incident' = [incident EXCEPT ![o] = IF @ = "open" THEN "acknowledged" ELSE @]
    /\ Returned(c, "commit")
    /\ UNCHANGED <<feedVars, sendVars, group, epochs>>

\* The offset of a record is committed before the next one is handled.  The
\* commit is tried again while the group recovers, so that a consumer that
\* lost the partition may still move the offset, even back, or else stops.
CommitOffset(c) ==
    /\ revoker[c].step = "commit"
    /\ \/ group' = [group EXCEPT !.committed = revoker[c].at]
       \/ group.owner # c /\ UNCHANGED group
    /\ revoker' = [revoker EXCEPT ![c] = Stopped]
    /\ UNCHANGED <<feedVars, sendVars, epochs, incident, revokeFaults>>

\* Retries exhausted, a crash: the record is polled again from the offset.
ConsumerStops(c) ==
    /\ revoker[c].step # "stopped"
    /\ Fault
    /\ revoker' = [revoker EXCEPT ![c] = Stopped]
    /\ UNCHANGED <<feedVars, sendVars, group, epochs, incident>>

Rebalance ==
    /\ Fault
    /\ \E c \in RevokeConsumer \ {group.owner} : group' = [group EXCEPT !.owner = c]
    /\ UNCHANGED <<feedVars, sendVars, revoker, epochs, incident>>

\* An operator resolves an incident whose dead letter was acknowledged.
ResolveIncident ==
    /\ \E o \in Offsets : incident[o] = "acknowledged"
                          /\ incident' = [incident EXCEPT ![o] = "resolved"]
    /\ UNCHANGED <<feedVars, sendVars, group, revoker, epochs, revokeFaults>>

\* May a query with a token of this epoch go on?
Check(a, tokenEpoch) ==
    /\ \A o \in Offsets : incident[o] = "resolved"
    /\ ~epochs[a].revoked
    /\ tokenEpoch >= epochs[a].epoch

Publishing(p) == Claim(p) \/ Renew(p) \/ Send(p) \/ Checkpoint(p) \/ Release(p)
Revoking(c)   == Poll(c) \/ Apply(c) \/ Quarantine(c) \/ AcknowledgeDLQ(c) \/ CommitOffset(c)

RevokeNext ==
    \/ \E a \in Subject, revoked \in BOOLEAN : ChangeRevocation(a, revoked)
    \/ \E p \in Publisher : Publishing(p) \/ SendFails(p) \/ PublisherStops(p)
    \/ LeaseEnds
    \/ \E c \in RevokeConsumer : Revoking(c) \/ ConsumerStops(c)
    \/ Rebalance
    \/ ResolveIncident

\* Every publisher and consumer is a loop whose process is restarted; a
\* lease nobody renews runs out.  Faults end, and operators owe nothing.
RevokeFairness ==
    /\ \A p \in Publisher : WF_revokeVars(Publishing(p))
    /\ \A c \in RevokeConsumer : WF_revokeVars(Revoking(c))
    /\ WF_revokeVars(LeaseEnds)

RevokeSpec == RevokeInit /\ [][RevokeNext]_revokeVars /\ RevokeFairness
-----------------------------------------------------------------------------
\* The records of a's revocations the consumers are done with.
Consumed(a) ==
    {o \in 1..group.committed : feed[revokeTopic[o].sequence].actor = a}

\* Check lets a query through only when its token is at least as new as every
\* revocation of its actor whose record the offset has passed, and the newest
\* of them does not revoke the actor: whatever was sent again by a publisher
\* that lost its lease, handled by two replicas, or set aside as unreadable.
RevokedStaysOut ==
    \A a \in Subject, t \in 0..MaxChanges : Check(a, t) =>
        \A o \in Consumed(a) :
            LET r == revokeTopic[o] IN
            IF r.trusted
            THEN /\ t >= feed[r.sequence].epoch
                 /\ feed[r.sequence].revoked => epochs[a].sequence > r.sequence
            ELSE o \in Offsets /\ incident[o] = "resolved"

\* Every row of the feed is in the end in the query service's table, or held
\* as an incident: no publisher skips one, and none is left behind by a
\* publisher or a consumer that stopped.
EveryRevocationArrives ==
    \A n \in 1..MaxChanges : (Len(feed) >= n) ~>
        \/ Len(feed) >= n /\ epochs[feed[n].actor].sequence >= n
        \/ \E o \in Offsets : revokeTopic[o].sequence = n
=============================================================================
