---------------------------- MODULE SnapshotCodec ----------------------------
(***************************************************************************)
(* The durable form of an instance's state.  The maps of InstanceState     *)
(* become lists of records in which an absent entry is simply missing, and *)
(* the decoder refuses a list that no sound state can have produced.       *)
(*                                                                         *)
(* The identifiers and versions of the envelope, task types, items,        *)
(* triggers and times travel unchanged and are left out, as they are in    *)
(* WorkflowTokens; so is the CMMN part of the state.                       *)
(***************************************************************************)
EXTENDS WorkflowTokens

CONSTANT Unreadable   \* a SnapshotCodecError

\* The name of the active node: empty unless the lifecycle has one.
ActiveNode(life) == IF life = "Active" THEN "node" ELSE ""

TokenToWire(s, n) == [node |-> n, count |-> s.tokens[n]]

JoinToWire(s, j) ==
    [gateway |-> j, expected |-> s.joins[j].expected, arrived |-> s.joins[j].arrived]

MultiToWire(s, n) == [node |-> n, run |-> s.multi[n]]

SubscriptionToWire(b) ==
    [event |-> b, attached |-> Attached[b], target |-> Leads[b], cancel |-> b \in Interrupting]

ScopeToWire(sc) ==
    [id |-> <<sc.node, sc.call>>, node |-> sc.node, parent |-> sc.parent,
     invocation |-> sc.call]

CounterToWire(s, n) == [node |-> n, invocations |-> s.calls[n]]

ToWire(s) ==
    [lifecycle |-> s.life,
     active_node |-> ActiveNode(s.life),
     variables |-> {[name |-> v, value |-> s.vars[v]] : v \in {x \in Var : s.vars[x] # Unset}},
     tokens |-> {TokenToWire(s, n) : n \in {x \in Node : s.tokens[x] # 0}},
     joins |-> {JoinToWire(s, j) : j \in {x \in Node : s.joins[x] # NoJoin}},
     multi |-> {MultiToWire(s, n) : n \in {x \in Node : s.multi[x] # NoMulti}},
     armed |-> {SubscriptionToWire(b) : b \in s.armed},
     scopes |-> {ScopeToWire(sc) : sc \in s.scopes},
     counters |-> {CounterToWire(s, n) : n \in {x \in Node : s.calls[x] # 0}}]

LifecycleReads(w) ==
    w.lifecycle \in {"Initial", "Active", "Completed", "Terminated"}
    /\ (w.lifecycle = "Active" <=> w.active_node # "")

TokenReads(t) == t.count # 0

\* A bug: a join with one token to come is taken for a complete one.
JoinReadsEarly(j) == j.expected # 0 /\ j.arrived + 1 < j.expected

JoinReads(j) == j.expected # 0 /\ j.arrived < j.expected

\* validate_active_multi_instance, after the tests of its caller.
MultiReads(m) ==
    /\ m.run.total # 0 /\ m.run.par # 0
    /\ m.run.next <= m.run.total /\ m.run.par <= m.run.total
    /\ Cardinality(m.run.active) <= m.run.par
    /\ \A i \in m.run.active \cup m.run.done : i < m.run.total /\ i < m.run.next
    /\ m.run.active \cap m.run.done = {}

ScopeReads(x) == x.invocation # 0

CounterReads(c) == c.invocations # 0

Readable(w) ==
    /\ LifecycleReads(w)
    /\ \A t \in w.tokens : TokenReads(t)
    /\ \A j \in w.joins : JoinReads(j)
    /\ \A m \in w.multi : MultiReads(m)
    /\ \A x \in w.scopes : ScopeReads(x)
    /\ \A c \in w.counters : CounterReads(c)

\* A map collected from key-value pairs, total as in WorkflowTokens.
Collected(pairs, D, default) ==
    [d \in D |-> IF \E p \in pairs : p[1] = d
                 THEN (CHOOSE p \in pairs : p[1] = d)[2] ELSE default]

SubscriptionFromWire(r) == r.event

FromWire(w) ==
    IF ~Readable(w) THEN Unreadable ELSE
    [life |-> w.lifecycle,
     vars |-> Collected({<<r.name, r.value>> : r \in w.variables}, Var, Unset),
     tokens |-> Collected({<<r.node, r.count>> : r \in w.tokens}, Node, 0),
     joins |-> Collected({<<r.gateway, [expected |-> r.expected, arrived |-> r.arrived]>> : r \in w.joins},
                         Node, NoJoin),
     multi |-> Collected({<<r.node, r.run>> : r \in w.multi}, Node, NoMulti),
     armed |-> {SubscriptionFromWire(r) : r \in w.armed},
     scopes |-> {[node |-> r.node, call |-> r.invocation, parent |-> r.parent] : r \in w.scopes},
     calls |-> Collected({<<r.node, r.invocations>> : r \in w.counters}, Node, 0)]

-----------------------------------------------------------------------------
(* The state a command leaves behind reads back as it was: no sequence of
   commands, whatever it left waiting, active or armed, builds a state that
   the decoder refuses or changes (SnapshotCodec::encode and decode). *)
CommittedStatesReadBack == phase = "idle" => FromWire(ToWire(state)) = state
=============================================================================
