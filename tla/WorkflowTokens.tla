--------------------------- MODULE WorkflowTokens ---------------------------
(***************************************************************************)
(* The deterministic core: decide and evolve over one workflow instance.   *)
(*                                                                         *)
(* A command makes decide walk the compiled graph with a worklist, keeping *)
(* a RoutingState of its own and pushing events; the events are then       *)
(* folded by evolve, and only the fold survives.  Here the worklist loop   *)
(* of activation_events is unrolled: one step pops one entry.  The events  *)
(* are folded as they are pushed, so `replay` is the state that evolve     *)
(* will rebuild from the events of the decision so far, and `routing` is   *)
(* what decide believes.  A decision that fails leaves `state` alone.      *)
(*                                                                         *)
(* Times, task types, items and the active_node of the lifecycle are left  *)
(* out: nothing that routes a token reads them.  Guards compare one        *)
(* variable with a set of values.  A call activity is a service task and   *)
(* the two kinds of join behave alike.                                     *)
(***************************************************************************)
EXTENDS Integers, Sequences, FiniteSets

CONSTANTS
    Node,             \* the nodes of the compiled definition
    Def,              \* Def[n]: kind, next, flows, join, start, par, when, ...
    Root,             \* the start node
    Owner,            \* Owner[n]: the retained sub-process that owns n, or NoNode
    Boundary,         \* the boundary events of the definition
    Attached,         \* the activity a boundary event is attached to
    Leads,            \* the node a boundary event routes to
    Interrupting,     \* the boundary events with cancel_activity
    Multi,            \* the activities with multi-instance metadata
    Var, Value,       \* workflow variables and their values
    Inputs,           \* the variables a command may carry (outputs, context)
    MaxCardinality,   \* max_multi_instance_cardinality
    MaxEvents,        \* max_events_per_decision
    MaxCommands       \* bound on the commands submitted

CONSTANTS NoNode, Unset

Kinds == {"Start", "Service", "User", "Script", "Decision", "Exclusive", "Parallel",
          "Inclusive", "Join", "SubProcess", "End"}

(* What WorkflowDefinition::new_with_execution_contracts accepts, as far as
   routing depends on it. *)
ASSUME ValidDefinition ==
    /\ \A n \in Node : Def[n].kind \in Kinds
    /\ \A n \in Node : Def[n].kind \notin {"Exclusive", "Parallel", "Inclusive", "End"}
                         => Def[n].next \in Node
    /\ \A n \in Node : Def[n].kind \in {"Exclusive", "Parallel", "Inclusive"}
                         => /\ Len(Def[n].flows) \in Nat \ {0}
                            /\ DOMAIN Def[n].flows = 1..Len(Def[n].flows)
                            /\ \A i \in DOMAIN Def[n].flows : Def[n].flows[i].to \in Node
    /\ \A n \in Node : Def[n].kind \in {"Parallel", "Inclusive"} => Def[n].join \in Node
    /\ \A n \in Node : Def[n].kind = "SubProcess" => Def[n].start \in Node
    /\ Root \in Node /\ Def[Root].kind = "Start"
    /\ NoNode \notin Node /\ Owner \in [Node -> Node \cup {NoNode}]
    /\ \A n \in Node : Owner[n] # NoNode => Def[Owner[n]].kind = "SubProcess"
    /\ Attached \in [Boundary -> Node] /\ Leads \in [Boundary -> Node]
    /\ Multi \subseteq {n \in Node : Def[n].kind \in {"Service", "User", "Script"}}
    /\ \A n \in Multi : Def[n].par \in Nat \ {0}
    /\ \A n \in Node : Def[n].kind = "Decision" =>
          \A i \in DOMAIN Def[n].rules : Def[n].rules[i].then \in Value
    /\ \A g \in Inputs : \A v \in DOMAIN g : g[v] \in Value
    /\ MaxCardinality \in Nat

VARIABLES
    state,      \* the committed InstanceState
    phase,      \* "idle" between commands, "deciding" inside decide
    routing,    \* decide's RoutingState
    replay,     \* evolve folded over the events pushed so far
    vars,       \* decide's view of the variables
    given,      \* the context variables of the command
    todo,       \* the worklist `pending`, its top first
    steps,      \* loop iterations of activation_events
    count,      \* events pushed
    commands    \* commands submitted

work == <<routing, replay, vars, given, todo, steps, count>>
all == <<state, phase, work, commands>>

Activities == {n \in Node : Def[n].kind \in {"Service", "User", "Script"}}

NoJoin == [expected |-> 0, arrived |-> 0]
NoMulti == [total |-> 0, next |-> 0, par |-> 0, active |-> {}, done |-> {}]
NoScope == <<>>

MaxSteps == 4 * Cardinality(Node)

Boundaries(n) == {b \in Boundary : Attached[b] = n}

Overlay(f, g) == [v \in Var |-> IF v \in DOMAIN g THEN g[v] ELSE f[v]]

Default ==
    [life |-> "Initial",
     vars |-> [v \in Var |-> Unset],
     tokens |-> [n \in Node |-> 0],
     joins |-> [n \in Node |-> NoJoin],
     multi |-> [n \in Node |-> NoMulti],
     armed |-> {},
     scopes |-> {},
     calls |-> [n \in Node |-> 0]]

(***************************************************************************)
(* RoutingState and its methods.  Each returns the routing after the       *)
(* method; the errors a method can return are the guards of its callers.   *)
(***************************************************************************)
From(s) ==
    [tokens |-> s.tokens, joins |-> s.joins, multi |-> s.multi,
     armed |-> s.armed, scopes |-> s.scopes, calls |-> s.calls]

Outstanding(r) ==
    \/ \E n \in Node : r.tokens[n] > 0
    \/ \E n \in Node : r.joins[n] # NoJoin
    \/ \E n \in Node : r.multi[n] # NoMulti
    \/ r.armed # {}
    \/ r.scopes # {}

ActivateTask(r, n) == [r EXCEPT !.tokens[n] = @ + 1]

CompleteTask(r, n) == [r EXCEPT !.tokens[n] = @ - 1]

ArmBoundaries(r, n) == [r EXCEPT !.armed = @ \cup Boundaries(n)]

\* A bug: subscriptions stay when their activity is left.
DisarmNothing(r, n) == r

DisarmBoundaries(r, n) == [r EXCEPT !.armed = @ \ Boundaries(n)]

StartMulti(r, n, k, par) ==
    [r EXCEPT !.multi[n] =
        [total |-> k, next |-> 0, par |-> par, active |-> {}, done |-> {}]]

\* activate_next_multi_instance, as many times as `width` asks.
ActivateNext(r, n, width) ==
    [r EXCEPT !.multi[n].active = @ \cup r.multi[n].next..(r.multi[n].next + width - 1),
              !.multi[n].next = @ + width]

CompleteIteration(r, n, i) ==
    [r EXCEPT !.multi[n].active = @ \ {i}, !.multi[n].done = @ \cup {i}]

FinishMulti(r, n) == [r EXCEPT !.multi[n] = NoMulti]

CancelActivity(r, n, cancelled) ==
    [r EXCEPT !.multi[n] = NoMulti,
              !.armed = @ \ Boundaries(n),
              !.tokens[n] = @ - cancelled]

OpenJoin(r, j, k) == [r EXCEPT !.joins[j] = [expected |-> k, arrived |-> 0]]

Arrive(r, j) == [r EXCEPT !.joins[j].arrived = @ + 1]

CloseJoin(r, j) == [r EXCEPT !.joins[j] = NoJoin]

ScopeOf(n, r, parent) == [node |-> n, call |-> r.calls[n] + 1, parent |-> parent]

EnterScope(r, n, parent) ==
    [r EXCEPT !.calls[n] = @ + 1, !.scopes = @ \cup {ScopeOf(n, r, parent)}]

CompleteScope(r, sc) == [r EXCEPT !.scopes = @ \ {sc}]

(***************************************************************************)
(* evolve, one operator per family of events.  Where decide pushes one     *)
(* event per boundary or per iteration in a row, the operator folds the    *)
(* whole row: the entries are distinct, so the order does not matter.      *)
(***************************************************************************)
OnStarted(s) == [s EXCEPT !.life = "Active"]

OnTaskActivated(s, n) == [s EXCEPT !.life = "Active", !.tokens[n] = @ + 1]

\* saturating_sub, and the outputs or the decision become variables.
OnTaskCompleted(s, n, outputs) ==
    [s EXCEPT !.life = "Active",
              !.vars = Overlay(s.vars, outputs),
              !.tokens[n] = IF @ = 0 THEN 0 ELSE @ - 1]

OnEvaluated(s, outputs) == [s EXCEPT !.vars = Overlay(s.vars, outputs)]

OnSplit(s, j, k) == [s EXCEPT !.joins[j] = [expected |-> k, arrived |-> 0]]

OnArrived(s, j) ==
    [s EXCEPT !.life = "Active",
              !.joins[j] = IF @ = NoJoin THEN @
                           ELSE [@ EXCEPT !.arrived = s.joins[j].arrived + 1]]

OnJoined(s, j) == [s EXCEPT !.life = "Active", !.joins[j] = NoJoin]

OnArmed(s, n) == [s EXCEPT !.armed = @ \cup Boundaries(n)]

OnDisarmed(s, bs) == [s EXCEPT !.armed = @ \ bs]

OnMultiStarted(s, n, k, par) ==
    [s EXCEPT !.life = "Active",
              !.multi[n] = [total |-> k, next |-> 0, par |-> par,
                            active |-> {}, done |-> {}]]

OnIterationsActivated(s, n, from, width) ==
    [s EXCEPT !.life = "Active",
              !.multi[n] = IF @ = NoMulti \/ width = 0 THEN @
                           ELSE [@ EXCEPT
                             !.active = s.multi[n].active \cup from..(from + width - 1),
                             !.next = IF s.multi[n].next > from + width
                                      THEN s.multi[n].next ELSE from + width]]

OnIterationCompleted(s, n, i) ==
    [s EXCEPT !.life = "Active",
              !.multi[n] = IF @ = NoMulti THEN @
                           ELSE [@ EXCEPT !.active = s.multi[n].active \ {i},
                                          !.done = s.multi[n].done \cup {i}]]

OnMultiCompleted(s, n) == [s EXCEPT !.life = "Active", !.multi[n] = NoMulti]

\* A bug: evolve keeps the token of the activity that was interrupted.
OnTriggeredKeepingTokens(s, b, cancelled) ==
    IF b \in Interrupting
    THEN [s EXCEPT !.life = "Active",
                   !.multi[Attached[b]] = NoMulti,
                   !.armed = @ \ Boundaries(Attached[b])]
    ELSE [s EXCEPT !.life = "Active"]

OnTriggered(s, b, cancelled) ==
    IF b \in Interrupting
    THEN [s EXCEPT !.life = "Active",
                   !.multi[Attached[b]] = NoMulti,
                   !.armed = @ \ Boundaries(Attached[b]),
                   !.tokens[Attached[b]] = IF @ < cancelled THEN 0 ELSE @ - cancelled]
    ELSE [s EXCEPT !.life = "Active"]

OnScopeEntered(s, sc) ==
    [s EXCEPT !.life = "Active",
              !.calls[sc.node] = IF @ > sc.call THEN @ ELSE sc.call,
              !.scopes = @ \cup {sc}]

OnScopeCompleted(s, sc) == [s EXCEPT !.life = "Active", !.scopes = @ \ {sc}]

OnBranchCompleted(s) == [s EXCEPT !.life = "Active"]

\* WorkflowCompleted and WorkflowTerminatedForCompliance clear all the work.
Cleared(s, life) ==
    [s EXCEPT !.life = life,
              !.tokens = [n \in Node |-> 0],
              !.joins = [n \in Node |-> NoJoin],
              !.multi = [n \in Node |-> NoMulti],
              !.armed = {},
              !.scopes = {}]

(***************************************************************************)
(* Guards and decision tables.  A flow without a variable is the default.  *)
(***************************************************************************)
IsDefault(f) == f.var = NoNode

Taken(n, vs) ==
    {i \in DOMAIN Def[n].flows :
        ~IsDefault(Def[n].flows[i]) /\ vs[Def[n].flows[i].var] \in Def[n].flows[i].when}

DefaultFlow(n) == {i \in DOMAIN Def[n].flows : IsDefault(Def[n].flows[i])}

\* GuardVariableMissing
Evaluable(n, vs) ==
    \A i \in DOMAIN Def[n].flows :
        ~IsDefault(Def[n].flows[i]) => vs[Def[n].flows[i].var] # Unset

Selected(n, vs) == IF Taken(n, vs) # {} THEN Taken(n, vs) ELSE DefaultFlow(n)

\* evaluate_decision_table over the rules [when, then]; policy "First" or "Unique".
Hits(n, vs) == {i \in DOMAIN Def[n].rules : vs[Def[n].input] \in Def[n].rules[i].when}

FirstHit(n, vs) == {i \in Hits(n, vs) : \A j \in Hits(n, vs) : i <= j}

Decidable(n, vs) ==
    /\ vs[Def[n].input] # Unset
    /\ Hits(n, vs) # {}
    /\ Def[n].policy = "Unique" => Cardinality(Hits(n, vs)) = 1

DecisionOutputs(n, i) == [v \in {Def[n].output} |-> Def[n].rules[i].then]

(***************************************************************************)
(* The worklist.                                                           *)
(***************************************************************************)
Entry(n, sc) == [node |-> n, scope |-> sc]

head == Head(todo)
rest == Tail(todo)
here == head.node

Deciding == phase = "deciding" /\ todo # <<>> /\ steps < MaxSteps

Advance(r, s, k, vs, new) ==
    /\ routing' = r
    /\ replay' = s
    /\ count' = count + k
    /\ vars' = vs
    /\ todo' = new \o rest
    /\ steps' = steps + 1
    /\ UNCHANGED <<state, phase, given, commands>>

Armable(n) == Boundaries(n) \cap routing.armed = {}

VisitTask ==
    /\ Deciding /\ here \in Activities \ Multi /\ Armable(here)
    /\ Advance(ArmBoundaries(ActivateTask(routing, here), here),
               OnArmed(OnTaskActivated(replay, here), here),
               1 + Cardinality(Boundaries(here)), vars, <<>>)

\* max_parallelism.min(total_instances.max(1)); Def[n].par is 1 when sequential.
Width(n, k) == IF k = 0 THEN 1 ELSE IF Def[n].par < k THEN Def[n].par ELSE k

VisitMulti(k) ==
    /\ Deciding /\ here \in Multi /\ routing.multi[here] = NoMulti
    /\ k > 0 /\ k <= MaxCardinality /\ Armable(here)
    /\ LET w == Width(here, k)
       IN Advance(ArmBoundaries(
                    ActivateNext(StartMulti(routing, here, k, w), here, w), here),
                  OnArmed(OnIterationsActivated(
                    OnMultiStarted(replay, here, k, w), here, 0, w), here),
                  1 + w + Cardinality(Boundaries(here)), vars, <<>>)

VisitMultiEmpty ==
    /\ Deciding /\ here \in Multi /\ routing.multi[here] = NoMulti
    /\ Advance(FinishMulti(StartMulti(routing, here, 0, 1), here),
               OnMultiCompleted(OnMultiStarted(replay, here, 0, 1), here),
               2, vars, <<Entry(Def[here].next, head.scope)>>)

VisitDecision ==
    /\ Deciding /\ Def[here].kind = "Decision" /\ Decidable(here, vars)
    /\ \E i \in FirstHit(here, vars) :
          LET out == DecisionOutputs(here, i)
          IN Advance(routing, OnEvaluated(replay, out), 1, Overlay(vars, out),
                     <<Entry(Def[here].next, head.scope)>>)

VisitExclusive ==
    /\ Deciding /\ Def[here].kind = "Exclusive" /\ Evaluable(here, vars)
    /\ Cardinality(Selected(here, vars)) = 1
    /\ \E i \in Selected(here, vars) :
          Advance(routing, replay, 0, vars,
                  <<Entry(Def[here].flows[i].to, head.scope)>>)

\* The flows of a parallel split, or those an inclusive split selects ...
Chosen(n, vs) == IF Def[n].kind = "Parallel" THEN DOMAIN Def[n].flows ELSE Selected(n, vs)

\* ... and the one enumeration of them in the order of the definition.
InOrder(S) ==
    {f \in [1..Cardinality(S) -> S] : \A i, j \in DOMAIN f : i < j => f[i] < f[j]}

Splittable(n) ==
    /\ routing.joins[Def[n].join] = NoJoin
    /\ Def[n].kind = "Inclusive" => Evaluable(n, vars) /\ Selected(n, vars) # {}

VisitSplit ==
    /\ Deciding /\ Def[here].kind \in {"Parallel", "Inclusive"} /\ Splittable(here)
    /\ LET k == Cardinality(Chosen(here, vars))
       IN \E br \in InOrder(Chosen(here, vars)) :
            Advance(OpenJoin(routing, Def[here].join, k),
                    OnSplit(replay, Def[here].join, k), 1, vars,
                    [i \in DOMAIN br |-> Entry(Def[here].flows[br[i]].to, head.scope)])

VisitJoin ==
    /\ Deciding /\ Def[here].kind = "Join" /\ routing.joins[here] # NoJoin
    /\ LET r == Arrive(routing, here)
           s == OnArrived(replay, here)
       IN IF r.joins[here].arrived = r.joins[here].expected
          THEN Advance(CloseJoin(r, here), OnJoined(s, here), 2, vars,
                       <<Entry(Def[here].next, head.scope)>>)
          ELSE Advance(r, s, 1, vars, <<>>)

Enterable(n) == (\A sc \in routing.scopes : sc.node # n) /\ Armable(n)

VisitSubProcess ==
    /\ Deciding /\ Def[here].kind = "SubProcess" /\ Enterable(here)
    /\ LET sc == ScopeOf(here, routing, head.scope)
       IN Advance(ArmBoundaries(EnterScope(routing, here, head.scope), here),
                  OnArmed(OnScopeEntered(replay, sc), here),
                  1 + Cardinality(Boundaries(here)), vars,
                  <<Entry(Def[here].start, <<here, sc.call>>)>>)

\* The start event of a retained sub-process.
VisitStart ==
    /\ Deciding /\ Def[here].kind = "Start"
    /\ Owner[here] # NoNode /\ head.scope # NoScope
    /\ Advance(routing, replay, 0, vars, <<Entry(Def[here].next, head.scope)>>)

Entered(id) == {sc \in routing.scopes : id = <<sc.node, sc.call>>}

Closable(n, id) == \E sc \in Entered(id) : sc.node = Owner[n]

\* The event names the boundaries it disarms, so there is none when there are none.
Disarm(s, bs) == IF bs = {} THEN s ELSE OnDisarmed(s, bs)

Disarmed(n) == IF Boundaries(n) \cap routing.armed = {} THEN 0 ELSE 1


VisitScopeEnd ==
    /\ Deciding /\ Def[here].kind = "End" /\ Owner[here] # NoNode
    /\ Closable(here, head.scope)
    /\ \E sc \in Entered(head.scope) :
          Advance(DisarmBoundaries(CompleteScope(routing, sc), sc.node),
                  Disarm(OnScopeCompleted(replay, sc),
                         Boundaries(sc.node) \cap routing.armed),
                  1 + Disarmed(sc.node), vars,
                  <<Entry(Def[sc.node].next, sc.parent)>>)

VisitEnd ==
    /\ Deciding /\ Def[here].kind = "End" /\ Owner[here] = NoNode
    /\ Advance(routing,
               IF Outstanding(routing) THEN OnBranchCompleted(replay)
               ELSE Cleared(replay, "Completed"),
               1, vars, <<>>)

\* The errors activation_events can return for the entry it popped.
Refused ==
    \/ steps >= MaxSteps
    \/ here \in Activities \cup {n \in Node : Def[n].kind = "SubProcess"} /\ ~Armable(here)
    \/ here \in Multi
    \/ Def[here].kind = "Decision" /\ ~Decidable(here, vars)
    \/ /\ Def[here].kind = "Exclusive"
       /\ ~Evaluable(here, vars) \/ Cardinality(Selected(here, vars)) # 1
    \/ Def[here].kind \in {"Parallel", "Inclusive"} /\ ~Splittable(here)
    \/ Def[here].kind = "Join" /\ routing.joins[here] = NoJoin
    \/ Def[here].kind = "SubProcess" /\ ~Enterable(here)
    \/ Def[here].kind = "Start" /\ (Owner[here] = NoNode \/ head.scope = NoScope)
    \/ Def[here].kind = "End" /\ Owner[here] # NoNode /\ ~Closable(here, head.scope)

Settle(s) ==
    /\ phase' = "idle"
    /\ state' = s /\ replay' = s /\ routing' = From(s)
    /\ vars' = s.vars /\ given' = <<>> /\ todo' = <<>> /\ steps' = 0 /\ count' = 0
    /\ UNCHANGED commands

Commit == phase = "deciding" /\ todo = <<>> /\ count <= MaxEvents /\ Settle(replay)

Reject ==
    /\ phase = "deciding"
    /\ IF todo = <<>> THEN count > MaxEvents ELSE Refused
    /\ Settle(state)

(***************************************************************************)
(* decide.  A command refused before the worklist starts changes nothing   *)
(* and is no step: its conditions are the guards.                          *)
(***************************************************************************)
Begin(r, s, k, vs, ctx, new) ==
    /\ phase = "idle" /\ commands < MaxCommands
    /\ phase' = "deciding" /\ commands' = commands + 1
    /\ routing' = r /\ replay' = s /\ count' = k
    /\ vars' = vs /\ given' = ctx /\ todo' = new /\ steps' = 0
    /\ UNCHANGED state

ScopesFor(n) == {sc \in state.scopes : sc.node = Owner[n]}

\* active_scope_for_node: none for an unowned node, an error unless exactly one.
HasScope(n) == Owner[n] = NoNode \/ Cardinality(ScopesFor(n)) = 1

ScopeFor(n) ==
    IF Owner[n] = NoNode THEN NoScope
    ELSE LET sc == CHOOSE x \in ScopesFor(n) : TRUE IN <<sc.node, sc.call>>

StartWorkflow(ctx) ==
    /\ state.life = "Initial"
    /\ Begin(From(state), OnStarted(state), 1, Overlay(state.vars, ctx), ctx,
             <<Entry(Def[Root].next, NoScope)>>)

\* A user task's decision is visible to the gateways that follow it; the
\* outputs of a service task are in the event only.
Visible(n, outputs) == IF Def[n].kind = "User" THEN outputs ELSE <<>>

CompleteActivity(n, outputs, ctx) ==
    /\ state.life = "Active" /\ state.tokens[n] > 0 /\ HasScope(n)
    /\ LET bs == Boundaries(n) \cap state.armed
       IN Begin(DisarmBoundaries(CompleteTask(From(state), n), n),
                Disarm(OnTaskCompleted(state, n, outputs), bs),
                IF bs = {} THEN 1 ELSE 2,
                Overlay(Overlay(state.vars, ctx), Visible(n, outputs)), ctx,
                <<Entry(Def[n].next, ScopeFor(n))>>)

Outputs(n) ==
    CASE Def[n].kind = "Service" -> Inputs
      [] Def[n].kind = "User" -> [{Def[n].result} -> Value]
      [] OTHER -> {<<>>}

\* A bug: a slot refilled only when all slots are free.
NextIterationDrained(n, i, ctx) ==
    LET r == CompleteIteration(From(state), n, i)
        s == OnIterationCompleted(state, n, i)
        m == r.multi[n]
    IN /\ Cardinality(m.done) # m.total
       /\ IF m.next < m.total /\ m.active = {}
          THEN Begin(ActivateNext(r, n, 1), OnIterationsActivated(s, n, m.next, 1), 2,
                     Overlay(state.vars, ctx), ctx, <<>>)
          ELSE Begin(r, s, 1, Overlay(state.vars, ctx), ctx, <<>>)

\* The iteration is done; the slot is refilled while iterations remain.
NextIteration(n, i, ctx) ==
    LET r == CompleteIteration(From(state), n, i)
        s == OnIterationCompleted(state, n, i)
        m == r.multi[n]
    IN /\ Cardinality(m.done) # m.total
       /\ IF m.next < m.total
          THEN Begin(ActivateNext(r, n, 1), OnIterationsActivated(s, n, m.next, 1), 2,
                     Overlay(state.vars, ctx), ctx, <<>>)
          ELSE Begin(r, s, 1, Overlay(state.vars, ctx), ctx, <<>>)

\* The last iteration is done, or the completion condition holds; what the
\* condition reads beside the counters is up to the command, so it may hold
\* after any iteration of an activity that has one.
LastIteration(n, i, ctx) ==
    LET r == FinishMulti(CompleteIteration(From(state), n, i), n)
        s == OnMultiCompleted(OnIterationCompleted(state, n, i), n)
        bs == Boundaries(n) \cap state.armed
    IN /\ \/ Cardinality(state.multi[n].done \cup {i}) = state.multi[n].total
          \/ Def[n].condition
       /\ HasScope(n)
       /\ Begin(DisarmBoundaries(r, n), Disarm(s, bs), IF bs = {} THEN 2 ELSE 3,
                Overlay(state.vars, ctx), ctx, <<Entry(Def[n].next, ScopeFor(n))>>)

CompleteMultiInstanceIteration(n, i, ctx) ==
    /\ state.life = "Active" /\ state.multi[n] # NoMulti /\ i \in state.multi[n].active
    /\ NextIteration(n, i, ctx) \/ LastIteration(n, i, ctx)

ActiveOwner(s, n) ==
    \/ s.tokens[n] > 0
    \/ s.multi[n] # NoMulti
    \/ \E sc \in s.scopes : sc.node = n

\* An interrupting boundary of a retained scope is refused.
TriggerBoundaryEvent(b, ctx) ==
    /\ state.life = "Active" /\ b \in state.armed /\ ActiveOwner(state, Attached[b])
    /\ b \in Interrupting => \A sc \in state.scopes : sc.node # Attached[b]
    /\ HasScope(Attached[b])
    /\ LET n == Attached[b]
           cancelled == IF b \in Interrupting /\ state.tokens[n] > 0 THEN 1 ELSE 0
       IN Begin(IF b \in Interrupting THEN CancelActivity(From(state), n, cancelled)
                ELSE From(state),
                OnTriggered(state, b, cancelled),
                IF b \in Interrupting /\ Def[n].kind = "User" THEN 2 ELSE 1,
                Overlay(state.vars, ctx), ctx, <<Entry(Leads[b], ScopeFor(n))>>)

\* The terminal event of an approved governance plan (prepare_abort_and_reconcile).
Terminate ==
    /\ phase = "idle" /\ state.life = "Active"
    /\ Settle(Cleared(state, "Terminated"))

-----------------------------------------------------------------------------
Init ==
    /\ state = Default /\ replay = Default /\ routing = From(Default)
    /\ phase = "idle" /\ vars = Default.vars /\ given = <<>> /\ todo = <<>>
    /\ steps = 0 /\ count = 0 /\ commands = 0

Visit ==
    \/ VisitTask \/ VisitMultiEmpty \/ VisitDecision \/ VisitExclusive \/ VisitSplit
    \/ VisitJoin \/ VisitSubProcess \/ VisitStart \/ VisitScopeEnd \/ VisitEnd
    \/ \E k \in 1..MaxCardinality : VisitMulti(k)

Work ==
    \/ \E n \in Activities, ctx \in Inputs :
          \/ \E out \in Outputs(n) : CompleteActivity(n, out, ctx)
          \/ \E i \in 0..MaxCardinality : CompleteMultiInstanceIteration(n, i, ctx)

Next ==
    \/ Visit \/ Commit \/ Reject \/ Work
    \/ \E ctx \in Inputs :
          \/ StartWorkflow(ctx)
          \/ \E b \in Boundary : TriggerBoundaryEvent(b, ctx)
    \/ Terminate

Spec == Init /\ [][Next]_all

-----------------------------------------------------------------------------
(***************************************************************************)
(* Properties.                                                             *)
(***************************************************************************)
ScopeIds == {NoScope} \cup (Node \X Nat)

Tokens == [Node -> Nat]
Joins == [Node -> [expected : Nat, arrived : Nat]]
Multis == [Node -> [total : Nat, next : Nat, par : Nat,
                    active : SUBSET Nat, done : SUBSET Nat]]
Scopes == SUBSET [node : Node, call : Nat, parent : ScopeIds]

RoutingType ==
    [tokens : Tokens, joins : Joins, multi : Multis, armed : SUBSET Boundary,
     scopes : Scopes, calls : [Node -> Nat]]

StateType ==
    [life : {"Initial", "Active", "Completed", "Terminated"},
     vars : [Var -> Value \cup {Unset}],
     tokens : Tokens, joins : Joins, multi : Multis, armed : SUBSET Boundary,
     scopes : Scopes, calls : [Node -> Nat]]

(* Token counts never go below zero and every field of the routing state and
   of the replayed state keeps its shape: *count -= 1 in complete_task does
   not wrap, whatever the order of completions, triggers and cancellations. *)
TypeOK ==
    /\ phase \in {"idle", "deciding"}
    /\ routing \in RoutingType
    /\ state \in StateType /\ replay \in StateType
    /\ todo \in Seq([node : Node, scope : ScopeIds])

(* What decide believes while it routes is what evolve rebuilds from the
   events it pushed: the next command, decided on the replayed state, goes on
   where this one stopped. *)
RoutingMatchesReplay == routing = From(replay)

(* An armed boundary event has a live owner: a token, a multi-instance or a
   scope.  A subscription that outlived its activity would keep the instance
   from ever completing and would fail every trigger. *)
ArmedHasOwner == \A b \in routing.armed : ActiveOwner(routing, Attached[b])

(* decide pushes WorkflowCompleted only as its last event: no branch is left
   on the worklist whose events would revive the completed instance. *)
CompletionIsLast == replay.life = "Completed" => todo = <<>>

(* An active instance always has an activity somebody can complete; pending
   joins, scopes and subscriptions alone are never all that is left. *)
WorkRemains ==
    phase = "idle" /\ state.life = "Active" =>
        \E n \in Activities :
            (state.tokens[n] > 0 \/ state.multi[n] # NoMulti) /\ HasScope(n)

(* Every active activity of a retained sub-process still has its scope, so
   that its completion is not refused with ScopeNotActive. *)
TasksKeepTheirScope ==
    \A n \in Activities : state.tokens[n] > 0 \/ state.multi[n] # NoMulti => HasScope(n)

(* Multi-instance fan-in: iterations are activated in order and each once,
   none is both active and done, and the free slots are always refilled, so
   that the activity neither exceeds its parallelism nor starves. *)
FanIn ==
    \A n \in Multi : LET m == state.multi[n] IN
        m # NoMulti =>
            /\ m.active \cap m.done = {}
            /\ m.active \cup m.done = 0..(m.next - 1)
            /\ Cardinality(m.active) =
                 IF m.par < m.total - Cardinality(m.done)
                 THEN m.par ELSE m.total - Cardinality(m.done)
            /\ m.active # {}

(* A join that is still pending waits for at least one token. *)
JoinsWait == \A j \in Node : routing.joins[j] # NoJoin =>
                 routing.joins[j].arrived < routing.joins[j].expected

(* The variables a gateway reads are those of the replayed state, except the
   ones the command's context supplies: "Output variables are part of the
   event and deterministic replay state." The code does not establish it: see
   the deviations in the README. *)
DecisionSeesReplayedVariables ==
    phase = "deciding" => \A v \in Var \ DOMAIN given : vars[v] = replay.vars[v]

(* What an instance waits for comes: a pending join still expects a token
   (JoinsWait), and a multi-instance activity has its free slots filled and
   each iteration done once (FanIn), so that neither waits for nothing. *)
WaitsForSomething == JoinsWait /\ FanIn

=============================================================================
