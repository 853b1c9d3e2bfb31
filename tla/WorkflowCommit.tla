--------------------------- MODULE WorkflowCommit ---------------------------
(***************************************************************************)
(* The command path of the engine: the calls of WorkflowCalls on replicas  *)
(* that behave as ReplicatedStore says, and the event store they add up to.*)
(***************************************************************************)
EXTENDS WorkflowCalls

Store == INSTANCE ReplicatedStore WITH
    Batch <- WorkflowBatch, Membership <- {}, InitialMembership <- {}

(* The abstract event store that the latest state represents. *)
ES == INSTANCE EventStore WITH
    stream  <- [i \in Instance |-> [s \in 1..Version(Latest, i) |-> Latest[EventKey(i, s)]]],
    outbox  <- [o \in 1..OutboxTail(Latest) |-> Latest[OutboxKey(o)]],
    receipt <- [s \in {x \in Scope : IdemKey(x) \in DOMAIN Latest} |-> Latest[IdemKey(s)]]

-----------------------------------------------------------------------------
Init ==
    /\ Store!Init
    /\ call = [c \in Call |-> NotStarted]
    /\ flight = {}
    /\ held = {}

(* OpenRaft commits a proposal. *)
CommitProposal(p) ==
    /\ flight' = flight \ {p}
    /\ Store!Commit(Store!BatchEntry(p.batch))
    /\ UNCHANGED <<call, held>>

(* A node applies its next entry; the client_write that proposed it there     *)
(* returns and gives its permit back.                                         *)
ApplyAt(n) ==
    /\ Store!Apply(n)
    /\ held' = {p \in held : ~(p.node = n /\ p.batch = log[last[n] + 1].batch)}
    /\ UNCHANGED <<call, flight>>

(* A crash takes the node's calls and waiting writes with it; what they       *)
(* proposed may have reached other nodes.                                     *)
CrashAt(n) ==
    /\ Store!Crash(n)
    /\ call' = [c \in Call |-> IF Active(c) /\ call[c].node = n
                               THEN Failed("ConnectionLost") ELSE call[c]]
    /\ held' = {p \in held : p.node # n}
    /\ UNCHANGED flight

RestartAt(n) ==
    /\ Store!Restart(n)
    /\ UNCHANGED <<call, flight, held>>

Next ==
    \/ \E c \in Call : CallStep(c)
    \/ \E p \in flight : CommitProposal(p) \/ Lose(p)
    \/ \E n \in Node : ApplyAt(n) \/ CrashAt(n) \/ RestartAt(n)

Spec == Init /\ [][Next]_vars

-----------------------------------------------------------------------------
(* The replicated store with its retries, rebases and lost answers is an      *)
(* atomic event store.                                                        *)
ImplementsEventStore == ES!Spec
=============================================================================
