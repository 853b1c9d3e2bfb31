------------------------ MODULE WorkflowTokensProofs ------------------------
(***************************************************************************)
(* decide and evolve agree, for every workflow definition that passes the  *)
(* validation and every sequence of commands: what decide tracks while it  *)
(* routes is what the events it emits rebuild.                             *)
(***************************************************************************)
EXTENDS WorkflowTokensRows

(* Every round of the loop of activation_events keeps the invariant. *)
LEMMA VisitKeeps ==
    ASSUME Counting, IInv, Visit
    PROVE  IInv'
<1> USE Facts
<1>1. CASE VisitTask
  <2>1. here \in Node /\ Deciding
    BY <1>1, HeadEntry DEF VisitTask, IInv
  <2> QED BY <1>1, <2>1, TaskRow, AdvanceKeeps, ZenonT(30) DEF VisitTask
<1>2. ASSUME NEW k \in 1..MaxCardinality, VisitMulti(k) PROVE IInv'
  <2>1. here \in Node /\ Deciding /\ here \in Multi
    BY <1>2, HeadEntry DEF VisitMulti, IInv
  <2>2. k \in Nat \ {0}
    BY ValidDefinition
  <2>3. Width(here, k) \in Nat \ {0}
    BY <2>1, <2>2, Definition DEF Width
  <2> DEFINE w == Width(here, k)
             r == ArmBoundaries(ActivateNext(StartMulti(routing, here, k, w), here, w), here)
             t == OnArmed(OnIterationsActivated(
                    OnMultiStarted(replay, here, k, w), here, 0, w), here)
  <2>4. t \in StateType /\ From(t) = r /\ Sound(r)
    BY <2>1, <2>2, <2>3, MultiRow
  <2>5. Advance(r, t, 1 + w + Cardinality(Boundaries(here)), vars, <<>>)
    BY <1>2 DEF VisitMulti
  <2> HIDE DEF r, t
  <2> QED BY <2>1, <2>4, <2>5, AdvanceKeeps, ZenonT(30)
<1>3. CASE VisitMultiEmpty
  <2>1. here \in Node /\ Deciding /\ here \in Multi /\ head.scope \in ScopeIds
    BY <1>3, HeadEntry DEF VisitMultiEmpty, IInv
  <2>2. <<Entry(Def[here].next, head.scope)>> \in Seq(Entries)
    BY <2>1, Definition, OneEntry
  <2> QED BY <1>3, <2>1, <2>2, EmptyMultiRow, AdvanceKeeps, ZenonT(30) DEF VisitMultiEmpty
<1>4. CASE VisitDecision
  <2>1. here \in Node /\ Deciding /\ head.scope \in ScopeIds /\ Def[here].kind = "Decision"
    BY <1>4, HeadEntry DEF VisitDecision, IInv
  <2>2. <<Entry(Def[here].next, head.scope)>> \in Seq(Entries)
    BY <2>1, Definition, OneEntry
  <2>3. PICK i \in FirstHit(here, vars) :
          Advance(routing, OnEvaluated(replay, DecisionOutputs(here, i)), 1,
                  Overlay(vars, DecisionOutputs(here, i)),
                  <<Entry(Def[here].next, head.scope)>>)
    BY <1>4 DEF VisitDecision
  <2>4. \A v \in DOMAIN DecisionOutputs(here, i) : DecisionOutputs(here, i)[v] \in Value
    BY <2>1, ValidDefinition DEF FirstHit, Hits, DecisionOutputs
  <2>5. /\ OnEvaluated(replay, DecisionOutputs(here, i)) \in StateType
        /\ From(OnEvaluated(replay, DecisionOutputs(here, i))) = routing
    BY <2>4, EvaluatedEvent
  <2> QED BY <2>1, <2>2, <2>3, <2>5, AdvanceKeeps, ZenonT(30)
<1>5. CASE VisitExclusive
  <2>1. here \in Node /\ Deciding /\ head.scope \in ScopeIds /\ Def[here].kind = "Exclusive"
    BY <1>5, HeadEntry DEF VisitExclusive, IInv
  <2>2. PICK i \in Selected(here, vars) :
          Advance(routing, replay, 0, vars, <<Entry(Def[here].flows[i].to, head.scope)>>)
    BY <1>5 DEF VisitExclusive
  <2>3. Def[here].flows[i].to \in Node
    BY <2>1, ValidDefinition, SMTT(30) DEF Selected, Taken, DefaultFlow
  <2> QED BY <2>1, <2>2, <2>3, OneEntry, AdvanceKeeps, ZenonT(30)
<1>6. CASE VisitSplit
  <2>1. /\ here \in Node /\ Deciding /\ head.scope \in ScopeIds
        /\ Def[here].kind \in {"Parallel", "Inclusive"} /\ Splittable(here)
    BY <1>6, HeadEntry, SMTT(30) DEF VisitSplit, IInv
  <2> DEFINE k == Cardinality(Chosen(here, vars))
             j == Def[here].join
  <2>2. PICK br \in InOrder(Chosen(here, vars)) :
          Advance(OpenJoin(routing, j, k), OnSplit(replay, j, k), 1, vars,
                  [i \in DOMAIN br |-> Entry(Def[here].flows[br[i]].to, head.scope)])
    BY <1>6, ZenonT(30) DEF VisitSplit
  <2>3. k \in Nat \ {0} /\ j \in Node
    BY <2>1, Branching, Definition, ZenonT(30)
  <2>4. [i \in DOMAIN br |-> Entry(Def[here].flows[br[i]].to, head.scope)] \in Seq(Entries)
    BY <2>1, Branching
  <2>5. /\ OnSplit(replay, j, k) \in StateType
        /\ From(OnSplit(replay, j, k)) = OpenJoin(routing, j, k)
        /\ Sound(OpenJoin(routing, j, k))
    BY <2>3, SplitRow
  <2> QED BY <2>1, <2>2, <2>4, <2>5, AdvanceKeeps, SMTT(30)
<1>7. CASE VisitJoin
  <2>1. /\ here \in Node /\ Deciding /\ head.scope \in ScopeIds
        /\ Def[here].kind = "Join" /\ replay.joins[here] # NoJoin
    BY <1>7, HeadEntry DEF VisitJoin, IInv
  <2>2. <<Entry(Def[here].next, head.scope)>> \in Seq(Entries)
    BY <2>1, Definition, OneEntry
  <2> DEFINE r == Arrive(routing, here)
             t == OnArrived(replay, here)
  <2>3. /\ t \in StateType /\ From(t) = r
        /\ r.joins[here].arrived # r.joins[here].expected => Sound(r)
        /\ OnJoined(t, here) \in StateType
        /\ From(OnJoined(t, here)) = CloseJoin(r, here)
        /\ Sound(CloseJoin(r, here))
    BY <2>1, ArriveRow
  <2>4. IF r.joins[here].arrived = r.joins[here].expected
        THEN Advance(CloseJoin(r, here), OnJoined(t, here), 2, vars,
                     <<Entry(Def[here].next, head.scope)>>)
        ELSE Advance(r, t, 1, vars, <<>>)
    BY <1>7 DEF VisitJoin
  <2> HIDE DEF r, t
  <2>5. CASE r.joins[here].arrived = r.joins[here].expected
    BY <2>1, <2>2, <2>3, <2>4, <2>5, AdvanceKeeps, ZenonT(30)
  <2>6. CASE r.joins[here].arrived # r.joins[here].expected
    BY <2>1, <2>3, <2>4, <2>6, AdvanceKeeps, ZenonT(30)
  <2> QED BY <2>5, <2>6
<1>8. CASE VisitSubProcess
  <2>1. /\ here \in Node /\ Deciding /\ head.scope \in ScopeIds
        /\ Def[here].kind = "SubProcess"
    BY <1>8, HeadEntry DEF VisitSubProcess, IInv
  <2> DEFINE sc == ScopeOf(here, routing, head.scope)
             r == ArmBoundaries(EnterScope(routing, here, head.scope), here)
             t == OnArmed(OnScopeEntered(replay, sc), here)
  <2>2. t \in StateType /\ From(t) = r /\ Sound(r)
    BY <2>1, EnterRow, SMTT(30)
  <2>3. Advance(r, t, 1 + Cardinality(Boundaries(here)), vars,
                <<Entry(Def[here].start, <<here, sc.call>>)>>)
    BY <1>8 DEF VisitSubProcess
  <2>4. sc.call \in Nat
    BY <2>1, FromFields, SMTT(30) DEF ScopeOf, StateType
  <2>5. <<here, sc.call>> \in ScopeIds /\ Def[here].start \in Node
    BY <2>1, <2>4, ValidDefinition, SMTT(30) DEF ScopeIds
  <2> HIDE DEF r, t, sc
  <2> QED BY <2>1, <2>2, <2>3, <2>5, OneEntry, AdvanceKeeps, ZenonT(30)
<1>9. CASE VisitStart
  <2>1. here \in Node /\ Deciding /\ head.scope \in ScopeIds /\ Def[here].kind = "Start"
    BY <1>9, HeadEntry DEF VisitStart, IInv
  <2> QED BY <1>9, <2>1, Definition, OneEntry, AdvanceKeeps, ZenonT(30) DEF VisitStart
<1>10. CASE VisitScopeEnd
  <2>1. /\ here \in Node /\ Deciding /\ Owner[here] # NoNode
        /\ Closable(here, head.scope)
    BY <1>10, HeadEntry, SMTT(30) DEF VisitScopeEnd, IInv
  <2>2. PICK sc \in Entered(head.scope) :
          Advance(DisarmBoundaries(CompleteScope(routing, sc), sc.node),
                  Disarm(OnScopeCompleted(replay, sc),
                         Boundaries(sc.node) \cap routing.armed),
                  1 + Disarmed(sc.node), vars, <<Entry(Def[sc.node].next, sc.parent)>>)
    BY <1>10, ZenonT(30) DEF VisitScopeEnd
  <2>3. sc \in replay.scopes /\ sc.parent \in ScopeIds /\ sc.node \in Node
    BY <2>2 DEF Entered, StateType, Scopes
  <2>4. sc.node = Owner[here]
    BY <2>1, <2>2 DEF Closable, Entered
  <2>5. Def[sc.node].next \in Node
    BY <2>1, <2>3, <2>4, ValidDefinition, Definition, SMTT(30)
  <2> DEFINE r == DisarmBoundaries(CompleteScope(routing, sc), sc.node)
             t == Disarm(OnScopeCompleted(replay, sc), Boundaries(sc.node) \cap routing.armed)
  <2>6. t \in StateType /\ From(t) = r /\ Sound(r)
    BY <2>3, ScopeEndRow, SMTT(30)
  <2>7. Advance(r, t, 1 + Disarmed(sc.node), vars, <<Entry(Def[sc.node].next, sc.parent)>>)
    BY <2>2
  <2> HIDE DEF r, t
  <2> QED BY <2>1, <2>3, <2>5, <2>6, <2>7, OneEntry, AdvanceKeeps, ZenonT(30)
<1>11. CASE VisitEnd
  <2> DEFINE t == IF Outstanding(routing) THEN OnBranchCompleted(replay)
                  ELSE Cleared(replay, "Completed")
  <2>1. t \in StateType /\ From(t) = routing
    BY LifeEvents, ClearedEvent
  <2>2. Deciding /\ Advance(routing, t, 1, vars, <<>>)
    BY <1>11 DEF VisitEnd
  <2> HIDE DEF t
  <2> QED BY <2>1, <2>2, AdvanceKeeps, ZenonT(30)
<1> QED BY <1>1, <1>2, <1>3, <1>4, <1>5, <1>6, <1>7, <1>8, <1>9, <1>10, <1>11, SMTT(30) DEF Visit

-----------------------------------------------------------------------------
(* What the worklist does to multi-instances: one may start. *)
LEMMA VisitSlots ==
    ASSUME Counting, IInv, FInv, Visit PROVE Iterates(replay.multi)' /\ state' = state
<1> USE Facts
<1>1. replay' \in StateType /\ state' = state /\ here \in Node /\ Deciding
  <2>1. Deciding /\ state' = state
    BY ZenonT(30) DEF Visit, VisitTask, VisitMulti, VisitMultiEmpty, VisitDecision, VisitExclusive, VisitSplit, VisitJoin,
           VisitSubProcess, VisitStart, VisitScopeEnd, VisitEnd, Advance
  <2>2. replay' \in StateType
    BY VisitKeeps DEF IInv, TypeOK
  <2> QED BY <2>1, <2>2, HeadEntry, SMTT(30) DEF IInv
<1>2. CASE replay'.multi = replay.multi
  BY <1>1, <1>2 DEF FInv, Iterates
<1>3. ASSUME NEW k \in 1..MaxCardinality, VisitMulti(k) PROVE Iterates(replay.multi)'
  <2> DEFINE w == Width(here, k)
             u == OnMultiStarted(replay, here, k, w)
             v == OnIterationsActivated(u, here, 0, w)
  <2>1. here \in Multi /\ k \in Nat \ {0} /\ replay' = OnArmed(v, here)
    <3>1. here \in Multi /\ \E rt, c, vs, new : Advance(rt, OnArmed(v, here), c, vs, new)
      BY <1>3, ZenonT(30) DEF VisitMulti
    <3>2. k \in Nat \ {0}
      BY <1>3, ValidDefinition, SMTT(30)
    <3> HIDE DEF v
    <3> QED BY <3>1, <3>2, ZenonT(30) DEF Advance
  <2>2. w \in Nat \ {0} /\ w <= k
    BY <2>1, Definition DEF Width
  <2> HIDE DEF w
  <2>3. u \in StateType
    BY <1>1, <2>1, <2>2, MultiStarted
  <2>4. u.multi = [replay.multi EXCEPT ![here] = [total |-> k, next |-> 0, par |-> w, active |-> {}, done |-> {}]]
    BY SMTT(30) DEF OnMultiStarted, StateType
  <2>5. /\ u.multi[here] = [total |-> k, next |-> 0, par |-> w, active |-> {}, done |-> {}]
        /\ \A m \in Node : m # here => u.multi[m] = replay.multi[m]
    BY <1>1, <2>4, SMTT(30) DEF StateType, Multis
  <2> HIDE DEF u
  <2>6. u.multi[here] # NoMulti /\ w # 0 /\ u.multi[here].next = 0
    BY <2>1, <2>2, <2>5, SMTT(30) DEF NoMulti
  <2>7. v \in StateType
    BY <1>1, <2>2, <2>3, <2>6, IterationsActivated
  <2> DEFINE x == u.multi[here]
             e == [x EXCEPT !.active = x.active \cup 0..(0 + w - 1),
                            !.next = IF x.next > 0 + w THEN x.next ELSE 0 + w]
  <2>8. v.multi = [u.multi EXCEPT ![here] = IF x = NoMulti \/ w = 0 THEN x ELSE e]
    BY <2>3, SMTT(30) DEF OnIterationsActivated, StateType
  <2>9. /\ v.multi[here] = e
        /\ \A m \in Node : m # here => v.multi[m] = replay.multi[m]
    <3> HIDE DEF e
    <3> QED BY <1>1, <2>3, <2>5, <2>6, <2>8, SMTT(30) DEF StateType, Multis
  <2>10. /\ v.multi[here].total = k /\ v.multi[here].par = w /\ v.multi[here].done = {}
         /\ v.multi[here].next = w /\ v.multi[here].active = 0..(w - 1)
    <3>1. x \in Multiple /\ x.total = k /\ x.par = w /\ x.done = {} /\ x.next = 0 /\ x.active = {}
      BY <1>1, <2>3, <2>5, MultiplesAre
    <3> HIDE DEF x
    <3>2. e.total = k /\ e.par = w /\ e.done = {}
      BY <3>1 DEF Multiple
    <3>3. e.next = IF x.next > 0 + w THEN x.next ELSE 0 + w
      BY <3>1 DEF Multiple
    <3>4. e.active = x.active \cup 0..(0 + w - 1)
      BY <3>1, SMTT(30) DEF Multiple
    <3> HIDE DEF e
    <3>5. e.next = w /\ e.active = 0..(w - 1)
      BY <2>2, <3>1, <3>3, <3>4, SMTT(30)
    <3> QED BY <2>9, <3>2, <3>5, SMTT(30)
  <2> HIDE DEF v
  <2>11. Slots(v.multi[here])
    BY <1>1, <2>1, <2>2, <2>7, <2>10, MultiplesAre, SlotsOpen, SMTT(30)
  <2>12. replay'.multi = v.multi
    BY <2>1, <2>7 DEF OnArmed, StateType
  <2>13. Iterates(v.multi)
    BY <1>1, <2>9, <2>11, OneMulti DEF FInv
  <2> QED BY <2>12, <2>13 DEF Iterates
<1>4. CASE VisitMultiEmpty
  <2>1. here \in Multi /\ replay.multi[here] = NoMulti
        /\ replay' = OnMultiCompleted(OnMultiStarted(replay, here, 0, 1), here)
    BY <1>4 DEF VisitMultiEmpty, Advance
  <2> DEFINE u == OnMultiStarted(replay, here, 0, 1)
  <2>2. u \in StateType
    BY <1>1, MultiStarted
  <2>3. u.multi = [replay.multi EXCEPT ![here] = [total |-> 0, next |-> 0, par |-> 1, active |-> {}, done |-> {}]]
    BY DEF OnMultiStarted, StateType
  <2> HIDE DEF u
  <2>4. replay'.multi = [u.multi EXCEPT ![here] = NoMulti]
    BY <2>1, <2>2, SMTT(30) DEF OnMultiCompleted, StateType, u
  <2>5. replay'.multi = replay.multi
    BY <1>1, <2>1, <2>3, <2>4, SMTT(30) DEF StateType, Multis
  <2> QED BY <1>2, <2>5
<1>5. CASE VisitTask
  <2>1. OnTaskActivated(replay, here) \in StateType /\ OnTaskActivated(replay, here).multi = replay.multi
    BY <1>1, TaskActivated, ZenonT(30) DEF OnTaskActivated, StateType
  <2>2. replay'.multi = replay.multi
    BY <1>5, <2>1 DEF VisitTask, Advance, OnArmed, StateType
  <2> QED BY <1>2, <2>2
<1>6. CASE VisitDecision
  BY <1>2, <1>6, SMTT(30) DEF VisitDecision, Advance, OnEvaluated, StateType
<1>7. CASE VisitExclusive \/ VisitStart
  BY <1>2, <1>7, ZenonT(30) DEF VisitExclusive, VisitStart, Advance
<1>8. CASE VisitSplit
  BY <1>2, <1>8 DEF VisitSplit, Advance, OnSplit, StateType
<1>9. CASE VisitJoin
  <2>1. OnArrived(replay, here) \in StateType /\ OnArrived(replay, here).multi = replay.multi
    BY <1>1, <1>9, ArrivedEvent, ZenonT(30) DEF VisitJoin, OnArrived, StateType
  <2>2. OnJoined(OnArrived(replay, here), here).multi = replay.multi
    BY <2>1 DEF OnJoined, StateType
  <2> QED BY <1>2, <1>9, <2>1, <2>2 DEF VisitJoin, Advance
<1>10. CASE VisitSubProcess
  <2> DEFINE u == OnScopeEntered(replay, ScopeOf(here, routing, head.scope))
  <2>1. u \in StateType
    BY <1>1, HeadEntry, ScopeEnteredEvent DEF IInv
  <2>2. u.multi = replay.multi
    BY SMTT(30) DEF OnScopeEntered, StateType
  <2>3. replay' = OnArmed(u, here)
    BY <1>10 DEF VisitSubProcess, Advance
  <2> HIDE DEF u
  <2>4. replay'.multi = replay.multi
    BY <2>1, <2>2, <2>3 DEF OnArmed, StateType
  <2> QED BY <1>2, <2>4
<1>11. CASE VisitScopeEnd
  <2>1. PICK sc \in Entered(head.scope) :
          replay' = Disarm(OnScopeCompleted(replay, sc), Boundaries(sc.node) \cap routing.armed)
    BY <1>11, ZenonT(30) DEF VisitScopeEnd, Advance
  <2>2. OnScopeCompleted(replay, sc) \in StateType /\ OnScopeCompleted(replay, sc).multi = replay.multi
    BY ScopeCompletedEvent, ZenonT(30) DEF OnScopeCompleted, StateType
  <2>3. replay'.multi = replay.multi
    BY <2>1, <2>2 DEF Disarm, OnDisarmed, StateType
  <2> QED BY <1>2, <2>3, SMTT(30)
<1>12. CASE VisitEnd
  <2>1. CASE replay' = OnBranchCompleted(replay)
    BY <1>2, <2>1 DEF OnBranchCompleted, StateType
  <2>2. CASE replay' = Cleared(replay, "Completed")
    <3>1. \A n \in Node : Cleared(replay, "Completed").multi[n] = NoMulti
      BY ClearedMulti
    <3>2. \A n \in Node : replay'.multi[n] = NoMulti
      BY <2>2, <3>1
    <3> QED BY <1>1, <3>2 DEF Iterates
  <2> QED BY <1>12, <2>1, <2>2 DEF VisitEnd, Advance
<1> QED BY <1>1, <1>3, <1>4, <1>5, <1>6, <1>7, <1>8, <1>9, <1>10, <1>11, <1>12, SMTT(30) DEF Visit
-----------------------------------------------------------------------------
(* Every command keeps the invariant. *)
LEMMA CommandKeeps ==
    ASSUME Counting, IInv,
           \/ Work
           \/ \E ctx \in Inputs : \/ StartWorkflow(ctx)
                                  \/ \E b \in Boundary : TriggerBoundaryEvent(b, ctx)
    PROVE  IInv'
<1> USE Facts
<1>1. ASSUME NEW n \in Activities, NEW ctx \in Inputs, NEW out \in Outputs(n),
             CompleteActivity(n, out, ctx)
      PROVE  IInv'
  <2> DEFINE bs == Boundaries(n) \cap state.armed
             r == DisarmBoundaries(CompleteTask(From(state), n), n)
             t == Disarm(OnTaskCompleted(state, n, out), bs)
  <2>1. n \in Node /\ Def[n].next \in Node /\ state.tokens[n] > 0 /\ HasScope(n)
    BY <1>1, Definition DEF CompleteActivity
  <2>2. \A v \in DOMAIN out : out[v] \in Value
    BY <1>1, ValidDefinition, SMTT(30) DEF Outputs, Activities
  <2>3. t \in StateType /\ From(t) = r /\ Sound(r)
    BY <2>1, <2>2, CompleteRow, SMTT(30)
  <2>4. <<Entry(Def[n].next, ScopeFor(n))>> \in Seq(Entries)
    BY <2>1, ScopeForType, OneEntry, ZenonT(30) DEF IInv
  <2>5. Begin(r, t, IF bs = {} THEN 1 ELSE 2,
              Overlay(Overlay(state.vars, ctx), Visible(n, out)), ctx,
              <<Entry(Def[n].next, ScopeFor(n))>>)
    BY <1>1 DEF CompleteActivity
  <2> HIDE DEF r, t
  <2> QED BY <2>3, <2>4, <2>5, BeginKeeps, ZenonT(30)
<1>2. ASSUME NEW n \in Activities, NEW ctx \in Inputs, NEW i \in 0..MaxCardinality,
             CompleteMultiInstanceIteration(n, i, ctx)
      PROVE  IInv'
  <2>1. n \in Node /\ Def[n].next \in Node /\ i \in Nat /\ state.multi[n] # NoMulti
    BY <1>2, Definition, ValidDefinition, SMTT(30) DEF CompleteMultiInstanceIteration
  <2>2. CASE NextIteration(n, i, ctx)
    <3> DEFINE r == CompleteIteration(From(state), n, i)
               t == OnIterationCompleted(state, n, i)
               q == ActivateNext(r, n, 1)
               u == OnIterationsActivated(t, n, r.multi[n].next, 1)
    <3>1. /\ t \in StateType /\ From(t) = r /\ Sound(r)
          /\ u \in StateType /\ From(u) = q /\ Sound(q)
      BY <2>1, IterationRow, ZenonT(30)
    <3>2. \/ Begin(q, u, 2, Overlay(state.vars, ctx), ctx, <<>>)
          \/ Begin(r, t, 1, Overlay(state.vars, ctx), ctx, <<>>)
      BY <2>2, SMTT(30) DEF NextIteration
    <3> HIDE DEF r, t, q, u
    <3> QED BY <3>1, <3>2, BeginKeeps, ZenonT(30)
  <2>3. CASE LastIteration(n, i, ctx)
    <3> DEFINE bs == Boundaries(n) \cap state.armed
               r == DisarmBoundaries(
                      FinishMulti(CompleteIteration(From(state), n, i), n), n)
               t == Disarm(OnMultiCompleted(OnIterationCompleted(state, n, i), n), bs)
    <3>1. t \in StateType /\ From(t) = r /\ Sound(r)
      BY <2>1, LastRow, ZenonT(30)
    <3>2. /\ HasScope(n)
          /\ Begin(r, t, IF bs = {} THEN 2 ELSE 3, Overlay(state.vars, ctx), ctx,
                   <<Entry(Def[n].next, ScopeFor(n))>>)
      BY <2>3, ZenonT(30) DEF LastIteration
    <3>3. <<Entry(Def[n].next, ScopeFor(n))>> \in Seq(Entries)
      BY <2>1, <3>2, ScopeForType, OneEntry, SMTT(30) DEF IInv
    <3> HIDE DEF r, t
    <3> QED BY <3>1, <3>2, <3>3, BeginKeeps, ZenonT(30)
  <2> QED BY <1>2, <2>2, <2>3, ZenonT(30) DEF CompleteMultiInstanceIteration
<1>3. ASSUME NEW ctx \in Inputs, StartWorkflow(ctx) PROVE IInv'
  <2>1. Def[Root].next \in Node /\ NoScope \in ScopeIds
    BY ValidDefinition DEF ScopeIds
  <2>2. <<Entry(Def[Root].next, NoScope)>> \in Seq(Entries)
    BY <2>1, OneEntry
  <2> QED BY <1>3, <2>2, LifeEvents, BeginKeeps, ZenonT(30) DEF StartWorkflow
<1>4. ASSUME NEW ctx \in Inputs, NEW b \in Boundary, TriggerBoundaryEvent(b, ctx)
      PROVE  IInv'
  <2> DEFINE n == Attached[b]
             c == IF b \in Interrupting /\ state.tokens[n] > 0 THEN 1 ELSE 0
             r == IF b \in Interrupting THEN CancelActivity(From(state), n, c)
                  ELSE From(state)
             t == OnTriggered(state, b, c)
  <2>1. n \in Node /\ Leads[b] \in Node /\ HasScope(n)
    BY <1>4, Definition DEF TriggerBoundaryEvent
  <2>2. c \in Nat /\ c <= state.tokens[n]
    BY <2>1, SMTT(30) DEF StateType, Tokens
  <2>3. Begin(r, t, IF b \in Interrupting /\ Def[n].kind = "User" THEN 2 ELSE 1,
              Overlay(state.vars, ctx), ctx, <<Entry(Leads[b], ScopeFor(n))>>)
    BY <1>4 DEF TriggerBoundaryEvent
  <2> HIDE DEF c
  <2>4. t \in StateType /\ From(t) = r /\ Sound(r)
    BY <2>2, TriggerRow, SMTT(30)
  <2>5. <<Entry(Leads[b], ScopeFor(n))>> \in Seq(Entries)
    BY <2>1, ScopeForType, OneEntry DEF IInv
  <2> HIDE DEF r, t
  <2> QED BY <2>3, <2>4, <2>5, BeginKeeps, ZenonT(30)
<1> QED BY <1>1, <1>2, <1>3, <1>4 DEF Work

-----------------------------------------------------------------------------
(* Every command keeps the slots right. *)
LEMMA CommandSlots ==
    ASSUME Counting, IInv, FInv,
           \/ Work
           \/ \E ctx \in Inputs : \/ StartWorkflow(ctx)
                                  \/ \E b \in Boundary : TriggerBoundaryEvent(b, ctx)
    PROVE  Iterates(replay.multi)' /\ state' = state
<1> USE Facts
<1>1. Iterates(state.multi)
  BY DEF FInv
<1>2. ASSUME NEW n \in Activities, NEW ctx \in Inputs, NEW out \in Outputs(n),
             CompleteActivity(n, out, ctx)
      PROVE  Iterates(replay.multi)' /\ state' = state
  <2> DEFINE u == OnTaskCompleted(state, n, out)
             bs == Boundaries(n) \cap state.armed
  <2>1. state' = state /\ replay' = Disarm(u, bs)
    BY <1>2 DEF CompleteActivity, Begin
  <2>2. n \in Node /\ state.tokens[n] > 0 /\ \A v \in DOMAIN out : out[v] \in Value
    BY <1>2, ValidDefinition, SMTT(30) DEF CompleteActivity, Outputs, Activities
  <2>3. u \in StateType /\ u.multi = state.multi
    BY <2>2, TaskCompleted, ZenonT(30) DEF OnTaskCompleted, StateType
  <2> HIDE DEF u, bs
  <2>4. replay'.multi = state.multi
    BY <2>1, <2>3 DEF Disarm, OnDisarmed, StateType
  <2> QED BY <1>1, <2>1, <2>4, ZenonT(30) DEF Iterates
<1>3. ASSUME NEW n \in Activities, NEW ctx \in Inputs, NEW i \in 0..MaxCardinality,
             CompleteMultiInstanceIteration(n, i, ctx)
      PROVE  Iterates(replay.multi)' /\ state' = state
  <2>1. n \in Node /\ i \in Nat /\ state.multi[n] # NoMulti /\ i \in state.multi[n].active
    BY <1>3, Definition, ValidDefinition, SMTT(30) DEF CompleteMultiInstanceIteration
  <2> DEFINE t == OnIterationCompleted(state, n, i)
             r == CompleteIteration(From(state), n, i)
  <2>2. t \in StateType /\ From(t) = r
    BY <2>1, IterationRow
  <2>2a. r.multi = t.multi
    BY <2>2, FromFields
  <2>3. t.multi = [state.multi EXCEPT ![n] =
             IF state.multi[n] = NoMulti THEN state.multi[n]
             ELSE [state.multi[n] EXCEPT !.active = state.multi[n].active \ {i},
                                          !.done = state.multi[n].done \cup {i}]]
    BY DEF OnIterationCompleted, StateType
  <2>4. t.multi[n].done = state.multi[n].done \cup {i} /\ t.multi[n].total = state.multi[n].total
    BY <2>1, <2>3 DEF StateType, Multis
  <2>5. \A x \in Node : x # n => t.multi[x] = state.multi[x]
    BY <2>1, <2>3 DEF StateType, Multis
  <2>6. CASE NextIteration(n, i, ctx)
    <3> DEFINE u == OnIterationsActivated(t, n, r.multi[n].next, 1)
    <3>1. /\ Cardinality(r.multi[n].done) # r.multi[n].total /\ state' = state
          /\ IF r.multi[n].next < r.multi[n].total THEN replay' = u ELSE replay' = t
      <4>1. /\ Cardinality(r.multi[n].done) # r.multi[n].total
            /\ \E rt, k, vs, new : IF r.multi[n].next < r.multi[n].total
                                   THEN Begin(rt, u, k, vs, ctx, new)
                                   ELSE Begin(rt, t, k, vs, ctx, new)
        BY <2>6, ZenonT(30) DEF NextIteration
      <4> HIDE DEF t, r, u
      <4> QED BY <4>1 DEF Begin
    <3>2. Cardinality(state.multi[n].done \cup {i}) # state.multi[n].total
      BY <2>4, <2>2a, <3>1, ZenonT(30)
    <3>3. IF t.multi[n].next < t.multi[n].total THEN Iterates(u.multi) ELSE Iterates(t.multi)
      BY <1>1, <2>1, <2>2a, <3>2, IterationSlots, ZenonT(30)
    <3> HIDE DEF t, r, u
    <3>4. Iterates(replay'.multi)
      BY <2>2a, <3>1, <3>3
    <3> QED BY <3>1, <3>4 DEF Iterates
  <2>7. CASE LastIteration(n, i, ctx)
    <3> DEFINE u == OnMultiCompleted(t, n)
               bs == Boundaries(n) \cap state.armed
    <3>1. state' = state /\ replay' = Disarm(u, bs)
      <4>1. \E rt, k, vs, new : Begin(rt, Disarm(u, bs), k, vs, ctx, new)
        BY <2>7, ZenonT(30) DEF LastIteration
      <4> HIDE DEF t, u, bs
      <4> QED BY <4>1, ZenonT(30) DEF Begin
    <3> HIDE DEF t
    <3>2. u \in StateType /\ u.multi = [t.multi EXCEPT ![n] = NoMulti]
      BY <2>1, <2>2, MultiCompleted, ZenonT(30) DEF OnMultiCompleted, StateType
    <3>3. u.multi[n] = NoMulti /\ \A x \in Node : x # n => u.multi[x] = state.multi[x]
      BY <2>1, <2>2, <2>5, <3>2 DEF StateType, Multis
    <3> HIDE DEF u, bs
    <3>4. replay'.multi = u.multi
      BY <3>1, <3>2, SMTT(30) DEF Disarm, OnDisarmed, StateType
    <3>5. Iterates(u.multi)
      BY <1>1, <2>1, <3>3, OneMulti, SMTT(30)
    <3> QED BY <3>1, <3>4, <3>5 DEF Iterates
  <2> QED BY <1>3, <2>6, <2>7, ZenonT(30) DEF CompleteMultiInstanceIteration
<1>4. ASSUME NEW ctx \in Inputs, StartWorkflow(ctx) PROVE Iterates(replay.multi)' /\ state' = state
  <2>1. state' = state /\ replay'.multi = state.multi
    BY <1>4 DEF StartWorkflow, Begin, OnStarted, StateType
  <2> QED BY <1>1, <2>1 DEF Iterates
<1>5. ASSUME NEW ctx \in Inputs, NEW b \in Boundary, TriggerBoundaryEvent(b, ctx)
      PROVE  Iterates(replay.multi)' /\ state' = state
  <2> DEFINE n == Attached[b]
  <2>1. PICK c : state' = state /\ replay' = OnTriggered(state, b, c)
    BY <1>5, ZenonT(30) DEF TriggerBoundaryEvent, Begin
  <2>2. n \in Node
    BY Definition
  <2>3. CASE b \in Interrupting
    <3>1. replay'.multi = [state.multi EXCEPT ![n] = NoMulti]
      BY <2>1, <2>3, SMTT(30) DEF OnTriggered, StateType
    <3>2. replay'.multi[n] = NoMulti /\ \A x \in Node : x # n => replay'.multi[x] = state.multi[x]
      BY <2>2, <3>1 DEF StateType, Multis
    <3>3. Iterates(replay'.multi)
      BY <1>1, <2>2, <3>2, OneMulti
    <3> QED BY <2>1, <3>3 DEF Iterates
  <2>4. CASE b \notin Interrupting
    <3>1. replay'.multi = state.multi
      BY <2>1, <2>4 DEF OnTriggered, StateType
    <3> QED BY <1>1, <2>1, <3>1 DEF Iterates
  <2> QED BY <2>3, <2>4, Zenon
<1> QED BY <1>2, <1>3, <1>4, <1>5, SMTT(30) DEF Work

-----------------------------------------------------------------------------
INSTANCE FiniteSetTheorems

(* Finite sets are counted as they should be. *)
LEMMA Counted == Counting
<1>1. CardIsNat
  BY FS_CardinalityType DEF CardIsNat
<1>2. CardOfEmpty
  BY FS_EmptySet DEF CardOfEmpty
<1>3. CardAdd
  BY FS_AddElement DEF CardAdd
<1>4. CardRemove
  BY FS_RemoveElement DEF CardRemove
<1>5. CardOfSubset
  BY FS_Subset DEF CardOfSubset
<1>6. CardOfInterval
  BY FS_Interval DEF CardOfInterval
<1>7. CardOfUnion
  BY FS_Union DEF CardOfUnion
<1> QED BY <1>1, <1>2, <1>3, <1>4, <1>5, <1>6, <1>7 DEF Counting

(* IInv holds in every reachable state, for every definition that passes the
   validation and every bound. *)
THEOREM Invariance == Spec => []IInv
<1>1. Init => IInv
  <2> SUFFICES ASSUME Init PROVE IInv
    OBVIOUS
  <2>1. Default \in StateType
    BY SMTT(30) DEF Default, StateType, Tokens, Joins, Multis, Scopes, NoJoin, NoMulti
  <2>2. Sound(From(Default))
    BY DEF Default, From, Sound
  <2>3. TypeOK
    BY <2>1, FromType DEF Init, TypeOK
  <2> QED BY <2>2, <2>3 DEF Init, IInv, RoutingMatchesReplay
<1>2. IInv /\ [Next]_all => IInv'
  <2> SUFFICES ASSUME IInv, [Next]_all PROVE IInv'
    OBVIOUS
  <2> USE Facts
  <2>1. CASE Visit
    BY <2>1, VisitKeeps, Counted
  <2>2. CASE Commit
    BY <2>2, SettleKeeps DEF Commit
  <2>3. CASE Reject
    BY <2>3, SettleKeeps DEF Reject
  <2>4. CASE Work
    BY <2>4, CommandKeeps, Counted
  <2>5. CASE \E ctx \in Inputs : \/ StartWorkflow(ctx)
                                 \/ \E b \in Boundary : TriggerBoundaryEvent(b, ctx)
    BY <2>5, CommandKeeps, Counted
  <2>6. CASE Terminate
    BY <2>6, ClearedEvent, SettleKeeps, ZenonT(30) DEF Terminate
  <2>7. CASE UNCHANGED all
    BY <2>7, Zenon DEF all, work, IInv, TypeOK, RoutingMatchesReplay, Sound, ActiveOwner
  <2> QED BY <2>1, <2>2, <2>3, <2>4, <2>5, <2>6, <2>7 DEF Next
<1> QED BY <1>1, <1>2, PTL DEF Spec

(* Token counts stay natural numbers: *count -= 1 in complete_task and in
   cancel_activity never wraps. *)
THEOREM TypeCorrect == Spec => []TypeOK
  BY Invariance, PTL DEF IInv

(* decide's routing state is the one evolve rebuilds from its events, after
   every event of every command. *)
THEOREM DecideAgreesWithEvolve == Spec => []RoutingMatchesReplay
  BY Invariance, PTL DEF IInv

(* An armed boundary event always has a live activity. *)
THEOREM SubscriptionsAreOwned == Spec => []ArmedHasOwner
<1>1. IInv => ArmedHasOwner
  BY ZenonT(30) DEF IInv, Sound, ArmedHasOwner
<1> QED BY <1>1, Invariance, PTL

(* A pending join always waits for a token that has not arrived. *)
THEOREM PendingJoinsWait == Spec => []JoinsWait
<1>1. IInv => JoinsWait
  BY Zenon DEF IInv, Sound, JoinsWait
<1> QED BY <1>1, Invariance, PTL
(* The slots are right in every reachable state. *)
LEMMA SlotsInvariant == Spec => [](IInv /\ FInv)
<1>1. Init => FInv
  <2> SUFFICES ASSUME Init PROVE FInv
    OBVIOUS
  <2>1. \A n \in Node : replay.multi[n] = NoMulti /\ state.multi[n] = NoMulti
    BY DEF Init, Default
  <2> QED BY <2>1 DEF FInv, Iterates
<1>2. IInv /\ FInv /\ [Next]_all => FInv'
  <2> SUFFICES ASSUME IInv, FInv, [Next]_all PROVE FInv'
    OBVIOUS
  <2>1. CASE Visit
    <3>1. Iterates(replay.multi)' /\ state' = state
      BY <2>1, VisitSlots, Counted
    <3> QED BY <3>1 DEF FInv, Iterates
  <2>2. CASE Commit
    BY <2>2 DEF Commit, Settle, FInv, Iterates
  <2>3. CASE Reject
    BY <2>3 DEF Reject, Settle, FInv, Iterates
  <2>4. CASE Work \/ \E ctx \in Inputs : \/ StartWorkflow(ctx)
                                         \/ \E b \in Boundary : TriggerBoundaryEvent(b, ctx)
    <3>1. Iterates(replay.multi)' /\ state' = state
      BY <2>4, CommandSlots, Counted
    <3> QED BY <3>1 DEF FInv, Iterates
  <2>5. CASE Terminate
    <3>1. \A n \in Node : Cleared(state, "Terminated").multi[n] = NoMulti
      BY Facts, ClearedMulti
    <3>2. replay' = Cleared(state, "Terminated") /\ state' = Cleared(state, "Terminated")
      BY <2>5 DEF Terminate, Settle
    <3>3. \A n \in Node : replay'.multi[n] = NoMulti /\ state'.multi[n] = NoMulti
      BY <3>1, <3>2
    <3> QED BY <3>3 DEF FInv, Iterates
  <2>6. CASE UNCHANGED all
    BY <2>6 DEF all, work, FInv, Iterates
  <2> QED BY <2>1, <2>2, <2>3, <2>4, <2>5, <2>6 DEF Next
<1> QED BY <1>1, <1>2, Invariance, PTL DEF Spec

(* A pending join still expects a token, and a running multi-instance has its *)
(* free slots filled, each iteration activated once and none both active and  *)
(* done: for every definition, parallelism and cardinality.                   *)
THEOREM NothingWaitsInVain == Spec => []WaitsForSomething
<1>1. IInv /\ FInv => WaitsForSomething
  <2> SUFFICES ASSUME IInv, FInv PROVE WaitsForSomething
    OBVIOUS
  <2>1. Multi \subseteq Node
    BY Definition, SMTT(30)
  <2>2. FanIn
    BY <2>1 DEF FInv, Iterates, Slots, FanIn
  <2>3. JoinsWait
    BY DEF IInv, Sound, JoinsWait
  <2> QED BY <2>2, <2>3 DEF WaitsForSomething
<1> QED BY <1>1, SlotsInvariant, PTL
=============================================================================
