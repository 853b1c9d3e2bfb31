------------------------ MODULE WorkflowTokensRows ------------------------
(***************************************************************************)
(* decide keeps a routing state while it emits events, and evolve rebuilds *)
(* it from them.  This module takes the two side by side: each event       *)
(* against the method of the routing state that goes with it, then the     *)
(* rows of events that a visited node or a command emits.  Each row keeps  *)
(* the two sides equal and the result sound.                               *)
(***************************************************************************)
EXTENDS WorkflowTokens, TLAPS

Entries == [node : Node, scope : ScopeIds]

(* ArmedHasOwner and JoinsWait of a routing state. *)
Sound(r) ==
    /\ \A b \in r.armed : ActiveOwner(r, Attached[b])
    /\ \A j \in Node : r.joins[j] # NoJoin => r.joins[j].arrived < r.joins[j].expected

(* The committed state is sound too: a rejected decision goes back to it. *)
IInv == TypeOK /\ RoutingMatchesReplay /\ Sound(routing) /\ Sound(From(state))

(* The parts of the definition's validity that the proofs use. *)
LEMMA Definition ==
    /\ \A n \in Node : Def[n].kind \notin {"Exclusive", "Parallel", "Inclusive", "End"}
                         => Def[n].next \in Node
    /\ \A n \in Node : Def[n].kind \in {"Parallel", "Inclusive"} => Def[n].join \in Node
    /\ Attached \in [Boundary -> Node] /\ Leads \in [Boundary -> Node]
    /\ Multi \subseteq Activities /\ Activities \subseteq Node
    /\ \A n \in Activities : Def[n].next \in Node
    /\ \A n \in Multi : Def[n].par \in Nat \ {0}
  BY ValidDefinition, ZenonT(30) DEF Activities

-----------------------------------------------------------------------------
(***************************************************************************)
(* Events against methods: the state evolve builds from an event has the   *)
(* routing that the RoutingState method leaves.                            *)
(***************************************************************************)
(* From forgets the lifecycle and the variables only. *)
LEMMA FromType ==
    ASSUME NEW s \in StateType
    PROVE  From(s) \in RoutingType
  BY DEF StateType, RoutingType, From

(* The fields of a routing state, for the lemmas below. *)
LEMMA FromFields ==
    ASSUME NEW s
    PROVE  /\ From(s).tokens = s.tokens /\ From(s).joins = s.joins
           /\ From(s).multi = s.multi /\ From(s).armed = s.armed
           /\ From(s).scopes = s.scopes /\ From(s).calls = s.calls
  BY DEF From

(* Routing states with the same fields are the same. *)
LEMMA SameFields ==
    ASSUME NEW q \in RoutingType, NEW r \in RoutingType,
           q.tokens = r.tokens, q.joins = r.joins, q.multi = r.multi,
           q.armed = r.armed, q.scopes = r.scopes, q.calls = r.calls
    PROVE  q = r
  BY DEF RoutingType

(* *TaskActivated is activate_task. *)
LEMMA TaskActivated ==
    ASSUME NEW s \in StateType, NEW n \in Node
    PROVE  /\ OnTaskActivated(s, n) \in StateType
           /\ From(OnTaskActivated(s, n)) = ActivateTask(From(s), n)
<1> DEFINE x == [s.tokens EXCEPT ![n] = @ + 1]
<1>1. x \in Tokens
  BY DEF StateType, Tokens
<1>2. OnTaskActivated(s, n) = [s EXCEPT !.life = "Active", !.tokens = x]
  BY DEF OnTaskActivated
<1>3. ActivateTask(From(s), n) = [From(s) EXCEPT !.tokens = x]
  BY DEF ActivateTask, From
<1> HIDE DEF x
<1>4. [s EXCEPT !.life = "Active", !.tokens = x] \in StateType
  BY <1>1, ZenonT(30) DEF StateType
<1>5. From([s EXCEPT !.life = "Active", !.tokens = x]) = [From(s) EXCEPT !.tokens = x]
  BY DEF From, StateType
<1> QED BY <1>2, <1>3, <1>4, <1>5

(* GatewaySplitActivated is open_join. *)
LEMMA SplitEvent ==
    ASSUME NEW s \in StateType, NEW j \in Node, NEW k \in Nat
    PROVE  /\ OnSplit(s, j, k) \in StateType
           /\ From(OnSplit(s, j, k)) = OpenJoin(From(s), j, k)
<1> DEFINE x == [s.joins EXCEPT ![j] = [expected |-> k, arrived |-> 0]]
<1>1. x \in Joins
  BY DEF StateType, Joins
<1>2. OnSplit(s, j, k) = [s EXCEPT !.joins = x]
  BY DEF OnSplit
<1>3. OpenJoin(From(s), j, k) = [From(s) EXCEPT !.joins = x]
  BY DEF OpenJoin, From
<1> HIDE DEF x
<1>4. [s EXCEPT !.joins = x] \in StateType
  BY <1>1 DEF StateType
<1>5. From([s EXCEPT !.joins = x]) = [From(s) EXCEPT !.joins = x]
  BY DEF From, StateType
<1> QED BY <1>2, <1>3, <1>4, <1>5

(* A token that arrives at a pending join (GatewayTokenArrived) is arrive. *)
LEMMA ArrivedEvent ==
    ASSUME NEW s \in StateType, NEW j \in Node, s.joins[j] # NoJoin
    PROVE  /\ OnArrived(s, j) \in StateType
           /\ From(OnArrived(s, j)) = Arrive(From(s), j)
<1> DEFINE x == [s.joins EXCEPT ![j] = [@ EXCEPT !.arrived = s.joins[j].arrived + 1]]
<1>1. x \in Joins
  BY DEF StateType, Joins
<1>2. OnArrived(s, j) = [s EXCEPT !.life = "Active", !.joins = x]
  BY DEF OnArrived, StateType, Joins
<1>3. Arrive(From(s), j) = [From(s) EXCEPT !.joins = x]
  BY DEF Arrive, StateType, Joins, From
<1> HIDE DEF x
<1>4. [s EXCEPT !.life = "Active", !.joins = x] \in StateType
  BY <1>1, ZenonT(30) DEF StateType
<1>5. From([s EXCEPT !.life = "Active", !.joins = x]) = [From(s) EXCEPT !.joins = x]
  BY DEF From, StateType
<1> QED BY <1>2, <1>3, <1>4, <1>5

(* The event of a full join is close_join. *)
LEMMA JoinedEvent ==
    ASSUME NEW s \in StateType, NEW j \in Node
    PROVE  /\ OnJoined(s, j) \in StateType
           /\ From(OnJoined(s, j)) = CloseJoin(From(s), j)
<1> DEFINE x == [s.joins EXCEPT ![j] = NoJoin]
<1>1. x \in Joins
  BY DEF StateType, Joins, NoJoin
<1>2. OnJoined(s, j) = [s EXCEPT !.life = "Active", !.joins = x]
  BY DEF OnJoined
<1>3. CloseJoin(From(s), j) = [From(s) EXCEPT !.joins = x]
  BY DEF CloseJoin, From
<1> HIDE DEF x
<1>4. [s EXCEPT !.life = "Active", !.joins = x] \in StateType
  BY <1>1, ZenonT(30) DEF StateType
<1>5. From([s EXCEPT !.life = "Active", !.joins = x]) = [From(s) EXCEPT !.joins = x]
  BY DEF From, StateType
<1> QED BY <1>2, <1>3, <1>4, <1>5

(* BoundaryEventArmed, once per boundary, is arm_boundary. *)
LEMMA ArmedEvent ==
    ASSUME NEW s \in StateType, NEW n
    PROVE  /\ OnArmed(s, n) \in StateType
           /\ From(OnArmed(s, n)) = ArmBoundaries(From(s), n)
<1> DEFINE x == s.armed \cup Boundaries(n)
<1>1. x \in SUBSET Boundary
  BY DEF StateType, Boundaries
<1>2. OnArmed(s, n) = [s EXCEPT !.armed = x]
  BY DEF OnArmed
<1>3. ArmBoundaries(From(s), n) = [From(s) EXCEPT !.armed = x]
  BY DEF ArmBoundaries, From
<1> HIDE DEF x
<1>4. [s EXCEPT !.armed = x] \in StateType
  BY <1>1 DEF StateType
<1>5. From([s EXCEPT !.armed = x]) = [From(s) EXCEPT !.armed = x]
  BY DEF From, StateType
<1> QED BY <1>2, <1>3, <1>4, <1>5

(* MultiInstanceStarted is start_multi_instance. *)
LEMMA MultiStarted ==
    ASSUME NEW s \in StateType, NEW n \in Node, NEW k \in Nat, NEW p \in Nat
    PROVE  /\ OnMultiStarted(s, n, k, p) \in StateType
           /\ From(OnMultiStarted(s, n, k, p)) = StartMulti(From(s), n, k, p)
<1> DEFINE x == [s.multi EXCEPT ![n] =
                   [total |-> k, next |-> 0, par |-> p, active |-> {}, done |-> {}]]
<1>1. x \in Multis
  BY DEF StateType, Multis
<1>2. OnMultiStarted(s, n, k, p) = [s EXCEPT !.life = "Active", !.multi = x]
  BY DEF OnMultiStarted
<1>3. StartMulti(From(s), n, k, p) = [From(s) EXCEPT !.multi = x]
  BY DEF StartMulti, From
<1> HIDE DEF x
<1>4. [s EXCEPT !.life = "Active", !.multi = x] \in StateType
  BY <1>1, ZenonT(30) DEF StateType
<1>5. From([s EXCEPT !.life = "Active", !.multi = x]) = [From(s) EXCEPT !.multi = x]
  BY DEF From, StateType
<1> QED BY <1>2, <1>3, <1>4, <1>5

(* The activations of a row of iterations are activate_next_multi_instance. *)
LEMMA IterationsActivated ==
    ASSUME NEW s \in StateType, NEW n \in Node, NEW w \in Nat \ {0}, s.multi[n] # NoMulti
    PROVE  /\ OnIterationsActivated(s, n, s.multi[n].next, w) \in StateType
           /\ From(OnIterationsActivated(s, n, s.multi[n].next, w))
                = ActivateNext(From(s), n, w)
<1> DEFINE m == s.multi[n]
           row == m.next..(m.next + w - 1)
           e == [m EXCEPT !.active = m.active \cup row, !.next = m.next + w]
           x == [s.multi EXCEPT ![n] = e]
<1>1. m \in [total : Nat, next : Nat, par : Nat, active : SUBSET Nat, done : SUBSET Nat]
  BY DEF StateType, Multis
<1>2. m.next \in Nat /\ row \subseteq Nat
  BY <1>1
<1>3. e \in [total : Nat, next : Nat, par : Nat, active : SUBSET Nat, done : SUBSET Nat]
  <2>1. m.active \cup row \in SUBSET Nat /\ m.next + w \in Nat
    BY <1>1, <1>2
  <2> HIDE DEF m, row
  <2> QED BY <1>1, <2>1, ZenonT(30)
<1>4. ~(m.next > m.next + w) /\ w # 0
  BY <1>2
<1>5. OnIterationsActivated(s, n, m.next, w) = [s EXCEPT !.life = "Active", !.multi = x]
  <2> HIDE DEF row
  <2> QED BY <1>4, ZenonT(30) DEF OnIterationsActivated, row
<1>6. ActivateNext(From(s), n, w) = [From(s) EXCEPT !.multi = x]
  BY <1>2, ZenonT(40) DEF ActivateNext, From
<1>7. x \in Multis
  <2> HIDE DEF e
  <2> QED BY <1>3 DEF StateType, Multis
<1> HIDE DEF x
<1>8. [s EXCEPT !.life = "Active", !.multi = x] \in StateType
  BY <1>7, ZenonT(30) DEF StateType
<1>9. From([s EXCEPT !.life = "Active", !.multi = x]) = [From(s) EXCEPT !.multi = x]
  BY DEF From, StateType
<1> QED BY <1>5, <1>6, <1>8, <1>9

(* MultiInstanceIterationCompleted is complete_multi_instance_iteration. *)
LEMMA IterationCompleted ==
    ASSUME NEW s \in StateType, NEW n \in Node, NEW i \in Nat, s.multi[n] # NoMulti
    PROVE  /\ OnIterationCompleted(s, n, i) \in StateType
           /\ From(OnIterationCompleted(s, n, i)) = CompleteIteration(From(s), n, i)
<1> DEFINE x == [s.multi EXCEPT ![n] =
                   [@ EXCEPT !.active = s.multi[n].active \ {i},
                              !.done = s.multi[n].done \cup {i}]]
<1>1. x \in Multis
  BY ZenonT(40) DEF StateType, Multis
<1>2. OnIterationCompleted(s, n, i) = [s EXCEPT !.life = "Active", !.multi = x]
  BY DEF OnIterationCompleted, StateType, Multis
<1>3. CompleteIteration(From(s), n, i) = [From(s) EXCEPT !.multi = x]
  BY ZenonT(30) DEF CompleteIteration, StateType, Multis, From
<1> HIDE DEF x
<1>4. [s EXCEPT !.life = "Active", !.multi = x] \in StateType
  BY <1>1, ZenonT(30) DEF StateType
<1>5. From([s EXCEPT !.life = "Active", !.multi = x]) = [From(s) EXCEPT !.multi = x]
  BY DEF From, StateType
<1> QED BY <1>2, <1>3, <1>4, <1>5

(* MultiInstanceCompleted is finish_multi_instance. *)
LEMMA MultiCompleted ==
    ASSUME NEW s \in StateType, NEW n \in Node
    PROVE  /\ OnMultiCompleted(s, n) \in StateType
           /\ From(OnMultiCompleted(s, n)) = FinishMulti(From(s), n)
<1> DEFINE x == [s.multi EXCEPT ![n] = NoMulti]
<1>1. x \in Multis
  BY DEF StateType, Multis, NoMulti
<1>2. OnMultiCompleted(s, n) = [s EXCEPT !.life = "Active", !.multi = x]
  BY DEF OnMultiCompleted
<1>3. FinishMulti(From(s), n) = [From(s) EXCEPT !.multi = x]
  BY DEF FinishMulti, From
<1> HIDE DEF x
<1>4. [s EXCEPT !.life = "Active", !.multi = x] \in StateType
  BY <1>1, ZenonT(30) DEF StateType
<1>5. From([s EXCEPT !.life = "Active", !.multi = x]) = [From(s) EXCEPT !.multi = x]
  BY DEF From, StateType
<1> QED BY <1>2, <1>3, <1>4, <1>5

(* ScopeCompleted is complete_scope. *)
LEMMA ScopeCompletedEvent ==
    ASSUME NEW s \in StateType, NEW sc
    PROVE  /\ OnScopeCompleted(s, sc) \in StateType
           /\ From(OnScopeCompleted(s, sc)) = CompleteScope(From(s), sc)
<1> DEFINE x == s.scopes \ {sc}
<1>1. x \in Scopes
  BY DEF StateType, Scopes
<1>2. OnScopeCompleted(s, sc) = [s EXCEPT !.life = "Active", !.scopes = x]
  BY DEF OnScopeCompleted
<1>3. CompleteScope(From(s), sc) = [From(s) EXCEPT !.scopes = x]
  BY DEF CompleteScope, From
<1> HIDE DEF x
<1>4. [s EXCEPT !.life = "Active", !.scopes = x] \in StateType
  BY <1>1, ZenonT(30) DEF StateType
<1>5. From([s EXCEPT !.life = "Active", !.scopes = x]) = [From(s) EXCEPT !.scopes = x]
  BY DEF From, StateType
<1> QED BY <1>2, <1>3, <1>4, <1>5

(* *TaskCompleted is complete_task when a token is there: saturating_sub
   subtracts. *)
LEMMA TaskCompleted ==
    ASSUME NEW s \in StateType, NEW n \in Node, s.tokens[n] > 0, NEW out,
           \A v \in DOMAIN out : out[v] \in Value
    PROVE  /\ OnTaskCompleted(s, n, out) \in StateType
           /\ From(OnTaskCompleted(s, n, out)) = CompleteTask(From(s), n)
<1> DEFINE t == [s.tokens EXCEPT ![n] = @ - 1]
           o == Overlay(s.vars, out)
<1>1. t \in Tokens
  BY DEF StateType, Tokens
<1>2. o \in [Var -> Value \cup {Unset}]
  BY DEF StateType, Overlay
<1>3. OnTaskCompleted(s, n, out)
        = [s EXCEPT !.life = "Active", !.vars = o, !.tokens = t]
  <2>1. s.tokens[n] # 0
    BY DEF StateType, Tokens
  <2> HIDE DEF o
  <2> QED BY <2>1 DEF OnTaskCompleted, o
<1>4. CompleteTask(From(s), n) = [From(s) EXCEPT !.tokens = t]
  BY DEF CompleteTask, From
<1> HIDE DEF t, o
<1>5. [s EXCEPT !.life = "Active", !.vars = o, !.tokens = t] \in StateType
  BY <1>1, <1>2, ZenonT(30) DEF StateType
<1>6. From([s EXCEPT !.life = "Active", !.vars = o, !.tokens = t])
        = [From(s) EXCEPT !.tokens = t]
  BY DEF From, StateType
<1> QED BY <1>3, <1>4, <1>5, <1>6

(* DecisionTaskEvaluated changes variables only. *)
LEMMA EvaluatedEvent ==
    ASSUME NEW s \in StateType, NEW out, \A v \in DOMAIN out : out[v] \in Value
    PROVE  OnEvaluated(s, out) \in StateType /\ From(OnEvaluated(s, out)) = From(s)
<1>1. Overlay(s.vars, out) \in [Var -> Value \cup {Unset}]
  BY DEF StateType, Overlay
<1> QED BY <1>1 DEF OnEvaluated, From, StateType

(* WorkflowStarted and WorkflowBranchCompleted change the lifecycle only. *)
LEMMA LifeEvents ==
    ASSUME NEW s \in StateType
    PROVE  /\ OnStarted(s) \in StateType /\ From(OnStarted(s)) = From(s)
           /\ OnBranchCompleted(s) \in StateType /\ From(OnBranchCompleted(s)) = From(s)
  BY DEF OnStarted, OnBranchCompleted, From, StateType

(* BoundaryEventsDisarmed names the boundaries that are armed: disarm_boundaries,
   and no event when there are none. *)
LEMMA DisarmedEvent ==
    ASSUME NEW s \in StateType, NEW n, NEW a, a \cap s.armed = Boundaries(n) \cap s.armed
    PROVE  /\ Disarm(s, a) \in StateType
           /\ From(Disarm(s, a)) = DisarmBoundaries(From(s), n)
<1> DEFINE x == s.armed \ Boundaries(n)
<1>1. x = s.armed \ a /\ x \in SUBSET Boundary
  BY DEF StateType
<1>2. DisarmBoundaries(From(s), n) = [From(s) EXCEPT !.armed = x]
  BY DEF DisarmBoundaries, From
<1>3. Disarm(s, a) = [s EXCEPT !.armed = x]
  BY <1>1, ZenonT(30) DEF Disarm, OnDisarmed, StateType
<1> HIDE DEF x
<1>4. [s EXCEPT !.armed = x] \in StateType
  BY <1>1 DEF StateType
<1>5. From([s EXCEPT !.armed = x]) = [From(s) EXCEPT !.armed = x]
  BY DEF From, StateType
<1> QED BY <1>2, <1>3, <1>4, <1>5

(* ScopeEntered, with the call number decide gave it, is enter_scope. *)
LEMMA ScopeEnteredEvent ==
    ASSUME NEW s \in StateType, NEW n \in Node, NEW p \in ScopeIds
    PROVE  /\ OnScopeEntered(s, ScopeOf(n, From(s), p)) \in StateType
           /\ From(OnScopeEntered(s, ScopeOf(n, From(s), p))) = EnterScope(From(s), n, p)
<1> DEFINE sc == ScopeOf(n, From(s), p)
           x == [s.calls EXCEPT ![n] = @ + 1]
           y == s.scopes \cup {sc}
<1>1. sc = [node |-> n, call |-> s.calls[n] + 1, parent |-> p] /\ s.calls[n] \in Nat
  BY DEF ScopeOf, From, StateType
<1>2. x \in [Node -> Nat] /\ y \in Scopes
  BY <1>1 DEF StateType, Scopes
<1>3. OnScopeEntered(s, sc) = [s EXCEPT !.life = "Active", !.calls = x, !.scopes = y]
  <2>1. sc.node = n /\ sc.call = s.calls[n] + 1
    BY <1>1
  <2>2. ~(s.calls[n] > s.calls[n] + 1)
    BY <1>1
  <2> HIDE DEF sc
  <2> QED BY <2>1, <2>2, ZenonT(30) DEF OnScopeEntered
<1>4. EnterScope(From(s), n, p) = [From(s) EXCEPT !.calls = x, !.scopes = y]
  BY DEF EnterScope, From
<1> HIDE DEF x, y, sc
<1>5. [s EXCEPT !.life = "Active", !.calls = x, !.scopes = y] \in StateType
  BY <1>2, ZenonT(30) DEF StateType
<1>6. From([s EXCEPT !.life = "Active", !.calls = x, !.scopes = y])
        = [From(s) EXCEPT !.calls = x, !.scopes = y]
  <2> DEFINE z == [s EXCEPT !.life = "Active", !.calls = x, !.scopes = y]
  <2>1. /\ z.tokens = s.tokens /\ z.joins = s.joins /\ z.multi = s.multi
        /\ z.armed = s.armed /\ z.scopes = y /\ z.calls = x
    BY DEF StateType
  <2> HIDE DEF z
  <2>2. /\ From(z) \in RoutingType
        /\ From(z).tokens = s.tokens /\ From(z).joins = s.joins
        /\ From(z).multi = s.multi /\ From(z).armed = s.armed
        /\ From(z).scopes = y /\ From(z).calls = x
    BY <1>5, <2>1, FromType, FromFields, ZenonT(30) DEF z
  <2> DEFINE r == From(s)
  <2>3. /\ r \in RoutingType
        /\ r.tokens = s.tokens /\ r.joins = s.joins /\ r.multi = s.multi
        /\ r.armed = s.armed
    BY FromType, FromFields
  <2> HIDE DEF r
  <2> DEFINE q == [r EXCEPT !.calls = x, !.scopes = y]
  <2>4. /\ q \in RoutingType
        /\ q.tokens = r.tokens /\ q.joins = r.joins /\ q.multi = r.multi
        /\ q.armed = r.armed /\ q.scopes = y /\ q.calls = x
    BY <1>2, <2>3, ZenonT(30) DEF RoutingType
  <2> HIDE DEF q
  <2>5. From(z) = q
    BY <2>2, <2>3, <2>4, SameFields
  <2> QED BY <2>5 DEF q, r, z
<1> QED BY <1>3, <1>4, <1>5, <1>6 DEF sc

(* BoundaryEventTriggered of an interrupting boundary is cancel_activity. *)
LEMMA TriggeredEvent ==
    ASSUME NEW s \in StateType, NEW b \in Interrupting, NEW n \in Node, Attached[b] = n,
           NEW c \in Nat, c <= s.tokens[n]
    PROVE  /\ OnTriggered(s, b, c) \in StateType
           /\ From(OnTriggered(s, b, c)) = CancelActivity(From(s), n, c)
<1> DEFINE x == [s.multi EXCEPT ![n] = NoMulti]
           y == s.armed \ Boundaries(n)
           t == [s.tokens EXCEPT ![n] = @ - c]
           z == [s EXCEPT !.life = "Active", !.multi = x, !.armed = y, !.tokens = t]
<1>1. x \in Multis /\ y \in SUBSET Boundary /\ t \in Tokens /\ ~(s.tokens[n] < c)
  BY DEF StateType, Multis, NoMulti, Tokens
<1>2. OnTriggered(s, b, c) = z
  <2> HIDE DEF y
  <2> QED BY <1>1 DEF OnTriggered, y
<1> DEFINE r == From(s)
           q == [r EXCEPT !.multi = x, !.armed = y, !.tokens = t]
<1>3. /\ r \in RoutingType /\ r.tokens = s.tokens /\ r.multi = s.multi
      /\ r.armed = s.armed /\ r.joins = s.joins /\ r.scopes = s.scopes /\ r.calls = s.calls
  BY FromType, FromFields
<1> HIDE DEF r
<1>4. CancelActivity(r, n, c) = q
  BY <1>3, ZenonT(30) DEF CancelActivity
<1> HIDE DEF x, y, t
<1>5. /\ z \in StateType
      /\ z.tokens = t /\ z.joins = s.joins /\ z.multi = x
      /\ z.armed = y /\ z.scopes = s.scopes /\ z.calls = s.calls
  BY <1>1, ZenonT(30) DEF StateType
<1>6. /\ q \in RoutingType
      /\ q.tokens = t /\ q.joins = r.joins /\ q.multi = x
      /\ q.armed = y /\ q.scopes = r.scopes /\ q.calls = r.calls
  BY <1>1, <1>3, ZenonT(30) DEF RoutingType
<1> HIDE DEF q, z
<1>7. /\ From(z) \in RoutingType
      /\ From(z).tokens = t /\ From(z).joins = s.joins /\ From(z).multi = x
      /\ From(z).armed = y /\ From(z).scopes = s.scopes /\ From(z).calls = s.calls
  BY <1>5, FromType, FromFields
<1>8. From(z) = q
  BY <1>3, <1>6, <1>7, SameFields
<1> QED BY <1>2, <1>4, <1>5, <1>8 DEF r

(* WorkflowCompleted clears nothing when no work is outstanding, and a cleared
   state is sound. *)
LEMMA ClearedEvent ==
    ASSUME NEW s \in StateType, NEW l \in {"Completed", "Terminated"}
    PROVE  /\ Cleared(s, l) \in StateType
           /\ Sound(From(Cleared(s, l)))
           /\ ~Outstanding(From(s)) => From(Cleared(s, l)) = From(s)
<1> DEFINE t == [n \in Node |-> 0]
           x == [n \in Node |-> NoJoin]
           y == [n \in Node |-> NoMulti]
           z == [s EXCEPT !.life = l, !.tokens = t, !.joins = x, !.multi = y,
                          !.armed = {}, !.scopes = {}]
<1>1. t \in Tokens /\ x \in Joins /\ y \in Multis
  BY DEF Tokens, Joins, Multis, NoJoin, NoMulti
<1>2. Cleared(s, l) = z
  BY DEF Cleared
<1>3. ~Outstanding(From(s)) => /\ s.tokens = t /\ s.joins = x /\ s.multi = y
                               /\ s.armed = {} /\ s.scopes = {}
  <2> SUFFICES ASSUME ~Outstanding(From(s))
               PROVE  /\ s.tokens = t /\ s.joins = x /\ s.multi = y
                      /\ s.armed = {} /\ s.scopes = {}
    OBVIOUS
  <2>1. /\ \A n \in Node : ~(s.tokens[n] > 0)
        /\ \A n \in Node : s.joins[n] = NoJoin
        /\ \A n \in Node : s.multi[n] = NoMulti
        /\ s.armed = {} /\ s.scopes = {}
    BY FromFields DEF Outstanding
  <2>2. s.tokens = t
    BY <2>1 DEF StateType, Tokens
  <2>3. s.joins = x /\ s.multi = y
    BY <2>1 DEF StateType, Joins, Multis
  <2> QED BY <2>1, <2>2, <2>3
<1>4. \A j \in Node : x[j] = NoJoin
  OBVIOUS
<1> HIDE DEF t, x, y
<1>5. /\ z \in StateType
      /\ z.tokens = t /\ z.joins = x /\ z.multi = y
      /\ z.armed = {} /\ z.scopes = {} /\ z.calls = s.calls
  BY <1>1, ZenonT(30) DEF StateType, Scopes
<1> HIDE DEF z
<1>6. /\ From(z) \in RoutingType
      /\ From(z).tokens = t /\ From(z).joins = x /\ From(z).multi = y
      /\ From(z).armed = {} /\ From(z).scopes = {} /\ From(z).calls = s.calls
  BY <1>5, FromType, FromFields
<1>7. Sound(From(z))
  BY <1>4, <1>6 DEF Sound
<1>8. ~Outstanding(From(s)) => From(z) = From(s)
  <2> DEFINE r == From(s)
             q == From(z)
  <2>1. /\ r \in RoutingType
        /\ r.tokens = s.tokens /\ r.joins = s.joins /\ r.multi = s.multi
        /\ r.armed = s.armed /\ r.scopes = s.scopes /\ r.calls = s.calls
    BY FromType, FromFields
  <2> HIDE DEF r, q
  <2>2. ~Outstanding(r) => q = r
    BY <1>3, <1>6, <2>1, SameFields, ZenonT(30) DEF r, q
  <2> QED BY <2>2 DEF r, q
<1> QED BY <1>2, <1>5, <1>7, <1>8

-----------------------------------------------------------------------------
(***************************************************************************)
(* The methods keep ArmedHasOwner and JoinsWait.                           *)
(***************************************************************************)
(* A method that works on one activity keeps a routing state sound if the
   activity is live afterwards or has no armed boundary any more. *)
LEMMA OneActivity ==
    ASSUME NEW r \in RoutingType, Sound(r), NEW n \in Node, NEW q \in RoutingType,
           \A m \in Node : m # n /\ ActiveOwner(r, m) => ActiveOwner(q, m),
           q.armed \subseteq r.armed \cup Boundaries(n),
           ActiveOwner(q, n) \/ q.armed \cap Boundaries(n) = {},
           q.joins = r.joins
    PROVE  Sound(q)
<1>1. ASSUME NEW b \in q.armed PROVE ActiveOwner(q, Attached[b])
  <2>1. b \in Boundary /\ Attached[b] \in Node
    BY <1>1, Definition DEF RoutingType
  <2>2. CASE b \in Boundaries(n)
    <3>1. Attached[b] = n
      BY <2>2 DEF Boundaries
    <3> QED BY <1>1, <2>2, <3>1
  <2>3. CASE b \notin Boundaries(n)
    <3>1. Attached[b] # n /\ b \in r.armed
      BY <1>1, <2>1, <2>3 DEF Boundaries
    <3> QED BY <2>1, <3>1 DEF Sound
  <2> QED BY <2>2, <2>3
<1>2. \A j \in Node : q.joins[j] # NoJoin => q.joins[j].arrived < q.joins[j].expected
  BY DEF Sound
<1> QED BY <1>1, <1>2 DEF Sound

(* A task that is activated owns the boundaries armed with it. *)
LEMMA ActivateSound ==
    ASSUME NEW r \in RoutingType, Sound(r), NEW n \in Node,
           ArmBoundaries(ActivateTask(r, n), n) \in RoutingType
    PROVE  Sound(ArmBoundaries(ActivateTask(r, n), n))
<1> DEFINE q == ArmBoundaries(ActivateTask(r, n), n)
<1>1. /\ q.armed = r.armed \cup Boundaries(n)
      /\ q.tokens = [r.tokens EXCEPT ![n] = @ + 1]
      /\ q.joins = r.joins /\ q.multi = r.multi /\ q.scopes = r.scopes
  BY DEF ArmBoundaries, ActivateTask, RoutingType
<1> HIDE DEF q
<1>2. q.tokens[n] > 0 /\ \A m \in Node : m # n => q.tokens[m] = r.tokens[m]
  BY <1>1 DEF RoutingType, Tokens
<1>3. /\ ActiveOwner(q, n)
      /\ \A m \in Node : m # n /\ ActiveOwner(r, m) => ActiveOwner(q, m)
  BY <1>1, <1>2 DEF ActiveOwner
<1>4. q \in RoutingType
  BY DEF q
<1>5. Sound(q)
  BY <1>1, <1>3, <1>4, OneActivity
<1> QED BY <1>5 DEF q

(* A task that completes takes its boundaries with it. *)
LEMMA CompleteSound ==
    ASSUME NEW r \in RoutingType, Sound(r), NEW n \in Node,
           DisarmBoundaries(CompleteTask(r, n), n) \in RoutingType
    PROVE  Sound(DisarmBoundaries(CompleteTask(r, n), n))
<1> DEFINE q == DisarmBoundaries(CompleteTask(r, n), n)
<1>1. /\ q.armed = r.armed \ Boundaries(n)
      /\ q.tokens = [r.tokens EXCEPT ![n] = @ - 1]
      /\ q.joins = r.joins /\ q.multi = r.multi /\ q.scopes = r.scopes
  BY DEF DisarmBoundaries, CompleteTask, RoutingType
<1> HIDE DEF q
<1>2. \A m \in Node : m # n => q.tokens[m] = r.tokens[m]
  BY <1>1 DEF RoutingType, Tokens
<1>3. \A m \in Node : m # n /\ ActiveOwner(r, m) => ActiveOwner(q, m)
  BY <1>1, <1>2 DEF ActiveOwner
<1>4. q \in RoutingType
  BY DEF q
<1>5. Sound(q)
  BY <1>1, <1>3, <1>4, OneActivity
<1> QED BY <1>5 DEF q

(* So does an activity that is cancelled. *)
LEMMA CancelSound ==
    ASSUME NEW r \in RoutingType, Sound(r), NEW n \in Node, NEW c,
           CancelActivity(r, n, c) \in RoutingType
    PROVE  Sound(CancelActivity(r, n, c))
<1> DEFINE q == CancelActivity(r, n, c)
<1>1. /\ q.armed = r.armed \ Boundaries(n)
      /\ q.tokens = [r.tokens EXCEPT ![n] = @ - c]
      /\ q.multi = [r.multi EXCEPT ![n] = NoMulti]
      /\ q.joins = r.joins /\ q.scopes = r.scopes
  BY DEF CancelActivity, RoutingType
<1> HIDE DEF q
<1>2. \A m \in Node : m # n => q.tokens[m] = r.tokens[m] /\ q.multi[m] = r.multi[m]
  BY <1>1 DEF RoutingType, Tokens, Multis
<1>3. \A m \in Node : m # n /\ ActiveOwner(r, m) => ActiveOwner(q, m)
  BY <1>1, <1>2 DEF ActiveOwner
<1>4. q \in RoutingType
  BY DEF q
<1>5. Sound(q)
  BY <1>1, <1>3, <1>4, OneActivity
<1> QED BY <1>5 DEF q
(* A multi-instance that is running owns its boundaries; one that ends takes
   them with it. *)
LEMMA MultiSound ==
    ASSUME NEW r \in RoutingType, Sound(r), NEW n \in Node, NEW q \in RoutingType,
           q.tokens = r.tokens, q.scopes = r.scopes, q.joins = r.joins,
           \A m \in Node : m # n => q.multi[m] = r.multi[m],
           \/ q.multi[n] # NoMulti /\ q.armed \subseteq r.armed \cup Boundaries(n)
           \/ q.armed = r.armed \ Boundaries(n)
    PROVE  Sound(q)
<1>1. \A m \in Node : m # n /\ ActiveOwner(r, m) => ActiveOwner(q, m)
  BY DEF ActiveOwner
<1>2. ActiveOwner(q, n) \/ q.armed \cap Boundaries(n) = {}
  BY DEF ActiveOwner
<1>3. q.armed \subseteq r.armed \cup Boundaries(n)
  OBVIOUS
<1> QED BY <1>1, <1>2, <1>3, OneActivity

(* A join that is opened, reached or closed disturbs no subscription. *)
LEMMA JoinSound ==
    ASSUME NEW r \in RoutingType, Sound(r), NEW j \in Node, NEW q \in RoutingType,
           q.tokens = r.tokens, q.scopes = r.scopes, q.multi = r.multi,
           q.armed = r.armed,
           \A m \in Node : m # j => q.joins[m] = r.joins[m],
           q.joins[j] # NoJoin => q.joins[j].arrived < q.joins[j].expected
    PROVE  Sound(q)
<1>1. \A b \in q.armed : ActiveOwner(q, Attached[b])
  BY DEF Sound, ActiveOwner
<1>2. ASSUME NEW m \in Node, q.joins[m] # NoJoin
      PROVE  q.joins[m].arrived < q.joins[m].expected
  BY <1>2 DEF Sound
<1> QED BY <1>1, <1>2 DEF Sound

(* A scope that is entered owns its boundaries; when it completes they are
   disarmed. *)
LEMMA ScopeSound ==
    ASSUME NEW r \in RoutingType, Sound(r), NEW n \in Node, NEW q \in RoutingType,
           q.tokens = r.tokens, q.multi = r.multi, q.joins = r.joins,
           NEW sc, sc.node = n,
           \/ q.scopes = r.scopes \cup {sc} /\ q.armed \subseteq r.armed \cup Boundaries(n)
           \/ q.scopes = r.scopes \ {sc} /\ q.armed = r.armed \ Boundaries(n)
    PROVE  Sound(q)
<1>1. \A m \in Node : m # n /\ ActiveOwner(r, m) => ActiveOwner(q, m)
  BY DEF ActiveOwner
<1>2. ActiveOwner(q, n) \/ q.armed \cap Boundaries(n) = {}
  BY DEF ActiveOwner
<1>3. q.armed \subseteq r.armed \cup Boundaries(n)
  OBVIOUS
<1> QED BY <1>1, <1>2, <1>3, OneActivity

-----------------------------------------------------------------------------
(***************************************************************************)
(* Multi-instance activities: the slots.                                   *)
(***************************************************************************)
(* FanIn of one running multi-instance. *)
Slots(m) ==
    /\ m.active \cap m.done = {}
    /\ m.active \cup m.done = 0..(m.next - 1)
    /\ Cardinality(m.active) =
         IF m.par < m.total - Cardinality(m.done)
         THEN m.par ELSE m.total - Cardinality(m.done)
    /\ m.active # {}

Iterates(multi) == \A n \in Node : multi[n] # NoMulti => Slots(multi[n])

(* The slots while a command is decided, and in the state it may go back to. *)
FInv == Iterates(replay.multi) /\ Iterates(state.multi)

Multiple == [total : Nat, next : Nat, par : Nat, active : SUBSET Nat, done : SUBSET Nat]

(* What is used about finite sets. *)
CardIsNat == \A S : IsFiniteSet(S) => Cardinality(S) \in Nat
CardOfEmpty == Cardinality({}) = 0 /\ \A S : IsFiniteSet(S) => (Cardinality(S) = 0 <=> S = {})
CardAdd ==
    \A S, x : IsFiniteSet(S) =>
        /\ IsFiniteSet(S \cup {x})
        /\ Cardinality(S \cup {x}) = IF x \in S THEN Cardinality(S) ELSE Cardinality(S) + 1
CardRemove ==
    \A S, x : IsFiniteSet(S) =>
        /\ IsFiniteSet(S \ {x})
        /\ Cardinality(S \ {x}) = IF x \in S THEN Cardinality(S) - 1 ELSE Cardinality(S)
CardOfSubset == \A S, T : IsFiniteSet(S) /\ T \subseteq S => IsFiniteSet(T)
CardOfInterval ==
    \A a, b \in Int : /\ IsFiniteSet(a..b)
                     /\ Cardinality(a..b) = IF a > b THEN 0 ELSE b - a + 1
CardOfUnion ==
    \A S, T : IsFiniteSet(S) /\ IsFiniteSet(T) =>
        Cardinality(S \cup T) = Cardinality(S) + Cardinality(T) - Cardinality(S \cap T)

Counting ==
    /\ CardIsNat /\ CardOfEmpty /\ CardAdd /\ CardRemove
    /\ CardOfSubset /\ CardOfInterval /\ CardOfUnion

(* A set with one more element. *)
LEMMA OneMore ==
    ASSUME Counting, NEW S, IsFiniteSet(S), NEW x, x \notin S
    PROVE  Cardinality(S \cup {x}) = Cardinality(S) + 1
  BY DEF Counting, CardAdd

(* The counts of a running multi-instance: its iterations are active or done. *)
LEMMA Counts ==
    ASSUME Counting, NEW m \in Multiple, Slots(m)
    PROVE  /\ IsFiniteSet(m.active) /\ IsFiniteSet(m.done)
           /\ Cardinality(m.active) \in Nat /\ Cardinality(m.done) \in Nat
           /\ Cardinality(m.active) + Cardinality(m.done) = m.next
           /\ Cardinality(m.active) # 0
<1>1. m.next \in Nat /\ IsFiniteSet(0..(m.next - 1)) /\ Cardinality(0..(m.next - 1)) = m.next
  <2>1. m.next \in Nat
    BY DEF Multiple
  <2> DEFINE k == m.next
  <2> HIDE DEF k
  <2>2. k \in Nat => IsFiniteSet(0..(k - 1)) /\ Cardinality(0..(k - 1)) = k
    BY DEF Counting, CardOfInterval
  <2> QED BY <2>1, <2>2 DEF k
<1>2. m.active \subseteq 0..(m.next - 1) /\ m.done \subseteq 0..(m.next - 1)
  BY DEF Slots
<1>3. IsFiniteSet(m.active) /\ IsFiniteSet(m.done)
  BY <1>1, <1>2 DEF Counting, CardOfSubset
<1>4. Cardinality(m.active) \in Nat /\ Cardinality(m.done) \in Nat
  BY <1>3 DEF Counting, CardIsNat
<1>5. Cardinality(m.active \cup m.done) =
        Cardinality(m.active) + Cardinality(m.done) - Cardinality(m.active \cap m.done)
  BY <1>3 DEF Counting, CardOfUnion
<1>6. Cardinality(m.active \cap m.done) = 0
  BY DEF Counting, CardOfEmpty, Slots
<1>7. Cardinality(m.active) + Cardinality(m.done) = m.next
  <2>1. Cardinality(m.active \cup m.done) = m.next
    BY <1>1, ZenonT(30) DEF Slots
  <2> QED BY <1>4, <1>5, <1>6, <2>1
<1>8. Cardinality(m.active) # 0
  BY <1>3 DEF Counting, CardOfEmpty, Slots
<1> QED BY <1>3, <1>4, <1>7, <1>8

(* A multi-instance starts with as many slots as it has iterations, or fewer. *)
LEMMA SlotsOpen ==
    ASSUME Counting, NEW k \in Nat, NEW w \in Nat \ {0}, w <= k,
           NEW m \in Multiple, m.total = k, m.par = w, m.next = w, m.done = {}, m.active = 0..(w - 1)
    PROVE  Slots(m)
<1>1. Cardinality({}) = 0
  BY DEF Counting, CardOfEmpty
<1>2. Cardinality(0..(w - 1)) = w
  BY DEF Counting, CardOfInterval
<1>3. 0 \in 0..(w - 1)
  OBVIOUS
<1> QED BY <1>1, <1>2, <1>3 DEF Slots

(* An iteration is done and the next one takes its slot. *)
LEMMA SlotRefilled ==
    ASSUME Counting, NEW m \in Multiple, Slots(m), NEW i \in m.active, m.next < m.total,
           NEW q \in Multiple, q.total = m.total, q.par = m.par, q.next = m.next + 1,
           q.active = (m.active \ {i}) \cup {m.next}, q.done = m.done \cup {i}
    PROVE  Slots(q)
<1> DEFINE a == Cardinality(m.active)
           d == Cardinality(m.done)
<1>1. /\ IsFiniteSet(m.active) /\ IsFiniteSet(m.done)
      /\ a \in Nat /\ d \in Nat /\ a + d = m.next /\ a # 0
  BY Counts
<1>2. m.total \in Nat /\ m.par \in Nat /\ m.next \in Nat
  BY DEF Multiple
<1>3. i \notin m.done /\ i \in 0..(m.next - 1) /\ m.next \notin 0..(m.next - 1)
  BY <1>2 DEF Slots
<1>4. m.next \notin m.active /\ m.next \notin m.done
  BY <1>3 DEF Slots
<1>5. Cardinality(m.active \ {i}) = a - 1 /\ IsFiniteSet(m.active \ {i})
  BY <1>1 DEF Counting, CardRemove
<1>6. Cardinality(q.active) = a
  <2>1. m.next \notin m.active \ {i}
    BY <1>4
  <2>2. Cardinality((m.active \ {i}) \cup {m.next}) = (a - 1) + 1
    BY <1>5, <2>1, OneMore
  <2> QED BY <1>1, <2>2
<1>7. Cardinality(q.done) = d + 1
  BY <1>1, <1>3, OneMore
<1>8. a = IF m.par < m.total - d THEN m.par ELSE m.total - d
  BY DEF Slots
<1> HIDE DEF a, d
<1>9. a = IF m.par < m.total - (d + 1) THEN m.par ELSE m.total - (d + 1)
  BY <1>1, <1>2, <1>8
<1>10. q.active \cap q.done = {}
  BY <1>3, <1>4 DEF Slots
<1>11. q.active \cup q.done = 0..(q.next - 1)
  <2>1. q.active \cup q.done = (0..(m.next - 1)) \cup {m.next}
    BY DEF Slots
  <2>2. 0..(m.next + 1 - 1) = (0..(m.next - 1)) \cup {m.next}
    BY <1>2
  <2> QED BY <2>1, <2>2
<1> QED BY <1>6, <1>7, <1>9, <1>10, <1>11 DEF Slots

(* An iteration is done, none is left to take its slot, others are active. *)
LEMMA SlotClosed ==
    ASSUME Counting, NEW m \in Multiple, Slots(m), NEW i \in m.active, ~(m.next < m.total),
           NEW q \in Multiple, q.total = m.total, q.par = m.par, q.next = m.next,
           q.active = m.active \ {i}, q.done = m.done \cup {i}, Cardinality(q.done) # q.total
    PROVE  Slots(q)
<1> DEFINE a == Cardinality(m.active)
           d == Cardinality(m.done)
<1>1. /\ IsFiniteSet(m.active) /\ IsFiniteSet(m.done)
      /\ a \in Nat /\ d \in Nat /\ a + d = m.next /\ a # 0
  BY Counts
<1>2. m.total \in Nat /\ m.par \in Nat /\ m.next \in Nat
  BY DEF Multiple
<1>3. i \notin m.done
  BY DEF Slots
<1>4. Cardinality(q.active) = a - 1 /\ IsFiniteSet(q.active)
  BY <1>1, SMTT(30) DEF Counting, CardRemove
<1>5. Cardinality(q.done) = d + 1
  BY <1>1, <1>3, OneMore
<1>6. a = IF m.par < m.total - d THEN m.par ELSE m.total - d
  BY DEF Slots
<1> HIDE DEF a, d
<1>7. /\ a - 1 = IF m.par < m.total - (d + 1) THEN m.par ELSE m.total - (d + 1)
      /\ a - 1 # 0
  BY <1>1, <1>2, <1>5, <1>6
<1>8. q.active # {}
  BY <1>4, <1>7, ZenonT(30) DEF Counting, CardOfEmpty
<1>9. q.active \cap q.done = {} /\ q.active \cup q.done = 0..(q.next - 1)
  BY DEF Slots
<1> QED BY <1>4, <1>5, <1>7, <1>8, <1>9 DEF Slots
-----------------------------------------------------------------------------
(* A task and its boundaries. *)
LEMMA TaskRow ==
    ASSUME NEW s \in StateType, Sound(From(s)), NEW n \in Node
    PROVE  LET q == ArmBoundaries(ActivateTask(From(s), n), n)
               t == OnArmed(OnTaskActivated(s, n), n)
           IN t \in StateType /\ From(t) = q /\ Sound(q)
<1> DEFINE u == OnTaskActivated(s, n)
           t == OnArmed(u, n)
<1>1. u \in StateType /\ From(u) = ActivateTask(From(s), n)
  BY TaskActivated
<1> HIDE DEF u
<1>2. t \in StateType /\ From(t) = ArmBoundaries(From(u), n)
  BY <1>1, ArmedEvent
<1>3. From(t) \in RoutingType /\ From(s) \in RoutingType
  BY <1>2, FromType
<1>4. Sound(ArmBoundaries(ActivateTask(From(s), n), n))
  BY <1>1, <1>2, <1>3, ActivateSound
<1> QED BY <1>1, <1>2, <1>4 DEF u

(* A multi-instance of k iterations, the first w of them active. *)
LEMMA MultiRow ==
    ASSUME NEW s \in StateType, Sound(From(s)), NEW n \in Node,
           NEW k \in Nat \ {0}, NEW w \in Nat \ {0}
    PROVE  LET q == ArmBoundaries(ActivateNext(StartMulti(From(s), n, k, w), n, w), n)
               t == OnArmed(OnIterationsActivated(OnMultiStarted(s, n, k, w), n, 0, w), n)
           IN t \in StateType /\ From(t) = q /\ Sound(q)
<1> DEFINE u == OnMultiStarted(s, n, k, w)
           v == OnIterationsActivated(u, n, 0, w)
           t == OnArmed(v, n)
           r == From(s)
<1>1. u \in StateType /\ From(u) = StartMulti(r, n, k, w)
  BY MultiStarted
<1>2. /\ u.multi = [s.multi EXCEPT ![n] =
                       [total |-> k, next |-> 0, par |-> w, active |-> {}, done |-> {}]]
      /\ u.tokens = s.tokens /\ u.scopes = s.scopes /\ u.joins = s.joins
      /\ u.armed = s.armed
  BY DEF OnMultiStarted, StateType
<1>3. /\ u.multi[n].next = 0 /\ u.multi[n].total = k /\ u.multi[n] # NoMulti
      /\ \A m \in Node : m # n => u.multi[m] = s.multi[m]
  BY <1>2 DEF StateType, Multis, NoMulti
<1> HIDE DEF u
<1>4. v \in StateType /\ From(v) = ActivateNext(From(u), n, w)
  BY <1>1, <1>3, IterationsActivated
<1>5. /\ v.tokens = u.tokens /\ v.scopes = u.scopes /\ v.joins = u.joins
      /\ v.armed = u.armed
      /\ v.multi[n].total = k
      /\ \A m \in Node : m # n => v.multi[m] = u.multi[m]
  BY <1>1, <1>3 DEF OnIterationsActivated, StateType, Multis
<1> HIDE DEF v
<1>6. t \in StateType /\ From(t) = ArmBoundaries(From(v), n)
  BY <1>4, ArmedEvent
<1>7. /\ t.tokens = v.tokens /\ t.scopes = v.scopes /\ t.joins = v.joins
      /\ t.armed = v.armed \cup Boundaries(n) /\ t.multi = v.multi
  BY <1>4 DEF OnArmed, StateType
<1> HIDE DEF t
<1>8. Sound(From(t))
  <2>1. t.multi[n] # NoMulti
    BY <1>5, <1>7 DEF NoMulti
  <2>2. From(t) \in RoutingType /\ r \in RoutingType
    BY <1>6, FromType
  <2>3. \A m \in Node : m # n => t.multi[m] = s.multi[m]
    BY <1>3, <1>5, <1>7
  <2> QED BY <1>2, <1>5, <1>7, <2>1, <2>2, <2>3, FromFields, MultiSound
<1> QED BY <1>1, <1>4, <1>6, <1>8 DEF t, u, v
(* A multi-instance without iterations starts and completes at once. *)
LEMMA EmptyMultiRow ==
    ASSUME NEW s \in StateType, Sound(From(s)), NEW n \in Node, s.multi[n] = NoMulti
    PROVE  LET q == FinishMulti(StartMulti(From(s), n, 0, 1), n)
               t == OnMultiCompleted(OnMultiStarted(s, n, 0, 1), n)
           IN t \in StateType /\ From(t) = q /\ Sound(q)
<1> DEFINE u == OnMultiStarted(s, n, 0, 1)
           t == OnMultiCompleted(u, n)
<1>1. u \in StateType /\ From(u) = StartMulti(From(s), n, 0, 1)
  BY MultiStarted
<1>2. /\ u.multi = [s.multi EXCEPT ![n] =
                       [total |-> 0, next |-> 0, par |-> 1, active |-> {}, done |-> {}]]
      /\ u.tokens = s.tokens /\ u.scopes = s.scopes /\ u.joins = s.joins
      /\ u.armed = s.armed /\ u.calls = s.calls
  BY DEF OnMultiStarted, StateType
<1> HIDE DEF u
<1>3. t \in StateType /\ From(t) = FinishMulti(From(u), n)
  BY <1>1, MultiCompleted
<1>4. /\ t.multi = [u.multi EXCEPT ![n] = NoMulti]
      /\ t.tokens = u.tokens /\ t.scopes = u.scopes /\ t.joins = u.joins
      /\ t.armed = u.armed /\ t.calls = u.calls
  BY <1>1 DEF OnMultiCompleted, StateType
<1> HIDE DEF t
<1>5. t.multi = s.multi
  BY <1>2, <1>4 DEF StateType, Multis
<1>6. From(t) = From(s)
  BY <1>2, <1>4, <1>5 DEF From
<1> QED BY <1>1, <1>3, <1>6 DEF t, u

(* A split opens its join for at least one token. *)
LEMMA SplitRow ==
    ASSUME NEW s \in StateType, Sound(From(s)), NEW j \in Node, NEW k \in Nat \ {0}
    PROVE  /\ OnSplit(s, j, k) \in StateType
           /\ From(OnSplit(s, j, k)) = OpenJoin(From(s), j, k)
           /\ Sound(OpenJoin(From(s), j, k))
<1> DEFINE t == OnSplit(s, j, k)
<1>1. t \in StateType /\ From(t) = OpenJoin(From(s), j, k)
  BY SplitEvent
<1>2. /\ t.joins = [s.joins EXCEPT ![j] = [expected |-> k, arrived |-> 0]]
      /\ t.tokens = s.tokens /\ t.scopes = s.scopes /\ t.multi = s.multi
      /\ t.armed = s.armed
  BY DEF OnSplit, StateType
<1> HIDE DEF t
<1>3. /\ t.joins[j].arrived < t.joins[j].expected
      /\ \A m \in Node : m # j => t.joins[m] = s.joins[m]
  BY <1>2 DEF StateType, Joins
<1>4. Sound(From(t))
  <2> DEFINE r == From(s)
             q == From(t)
  <2>1. /\ r \in RoutingType /\ q \in RoutingType
        /\ q.tokens = r.tokens /\ q.scopes = r.scopes /\ q.multi = r.multi
        /\ q.armed = r.armed /\ q.joins = t.joins /\ r.joins = s.joins
    BY <1>1, <1>2, FromType, FromFields
  <2> HIDE DEF r, q
  <2>2. Sound(r) => Sound(q)
    BY <1>3, <2>1, JoinSound
  <2> QED BY <2>2 DEF r, q
<1> QED BY <1>1, <1>4 DEF t

(* A token arrives; decide closes the join when it was the last. *)
LEMMA ArriveRow ==
    ASSUME NEW s \in StateType, Sound(From(s)), NEW j \in Node, s.joins[j] # NoJoin
    PROVE  LET q == Arrive(From(s), j)
               t == OnArrived(s, j)
           IN /\ t \in StateType /\ From(t) = q
              /\ q.joins[j].arrived # q.joins[j].expected => Sound(q)
              /\ /\ OnJoined(t, j) \in StateType
                 /\ From(OnJoined(t, j)) = CloseJoin(q, j)
                 /\ Sound(CloseJoin(q, j))
<1> DEFINE t == OnArrived(s, j)
           u == OnJoined(t, j)
<1>1. t \in StateType /\ From(t) = Arrive(From(s), j)
  BY ArrivedEvent
<1>2. /\ t.joins = [s.joins EXCEPT ![j] = [s.joins[j] EXCEPT !.arrived = s.joins[j].arrived + 1]]
      /\ t.tokens = s.tokens /\ t.scopes = s.scopes /\ t.multi = s.multi
      /\ t.armed = s.armed
  BY DEF OnArrived, StateType
<1>3. s.joins[j] \in [expected : Nat, arrived : Nat] /\ s.joins[j].arrived < s.joins[j].expected
  BY FromFields DEF StateType, Joins, Sound
<1> HIDE DEF t
<1>4. /\ t.joins[j].arrived = s.joins[j].arrived + 1 /\ t.joins[j].expected = s.joins[j].expected
      /\ \A m \in Node : m # j => t.joins[m] = s.joins[m]
  BY <1>2, <1>3 DEF StateType, Joins
<1>5. ASSUME t.joins[j].arrived # t.joins[j].expected PROVE Sound(From(t))
  <2>1. t.joins[j].arrived < t.joins[j].expected
    BY <1>3, <1>4, <1>5
  <2> DEFINE r == From(s)
             q == From(t)
  <2>2. /\ r \in RoutingType /\ q \in RoutingType
        /\ q.tokens = r.tokens /\ q.scopes = r.scopes /\ q.multi = r.multi
        /\ q.armed = r.armed /\ q.joins = t.joins /\ r.joins = s.joins
    BY <1>1, <1>2, FromType, FromFields
  <2> HIDE DEF r, q
  <2>3. Sound(r) => Sound(q)
    BY <1>4, <2>1, <2>2, JoinSound
  <2> QED BY <2>3 DEF r, q
<1>6. u \in StateType /\ From(u) = CloseJoin(From(t), j)
  BY <1>1, JoinedEvent
<1>7. /\ u.joins = [t.joins EXCEPT ![j] = NoJoin]
      /\ u.tokens = t.tokens /\ u.scopes = t.scopes /\ u.multi = t.multi
      /\ u.armed = t.armed
  BY <1>1 DEF OnJoined, StateType
<1> HIDE DEF u
<1>8. u.joins[j] = NoJoin /\ \A m \in Node : m # j => u.joins[m] = s.joins[m]
  BY <1>1, <1>4, <1>7 DEF StateType, Joins
<1>9. Sound(From(u))
  BY <1>2, <1>6, <1>7, <1>8, FromType, FromFields, JoinSound, SMTT(30)
<1>10. Arrive(From(s), j).joins = t.joins
  BY <1>1, FromFields
<1> QED BY <1>1, <1>5, <1>6, <1>9, <1>10 DEF t, u

(* A scope and its boundaries. *)
LEMMA EnterRow ==
    ASSUME NEW s \in StateType, Sound(From(s)), NEW n \in Node, NEW p \in ScopeIds
    PROVE  LET q == ArmBoundaries(EnterScope(From(s), n, p), n)
               t == OnArmed(OnScopeEntered(s, ScopeOf(n, From(s), p)), n)
           IN t \in StateType /\ From(t) = q /\ Sound(q)
<1> DEFINE sc == ScopeOf(n, From(s), p)
           u == OnScopeEntered(s, sc)
           t == OnArmed(u, n)
<1>1. u \in StateType /\ From(u) = EnterScope(From(s), n, p)
  BY ScopeEnteredEvent
<1>2. sc.node = n
  BY DEF ScopeOf
<1> HIDE DEF sc
<1>3. /\ u.scopes = s.scopes \cup {sc}
      /\ u.tokens = s.tokens /\ u.joins = s.joins /\ u.multi = s.multi
      /\ u.armed = s.armed
  BY DEF OnScopeEntered, StateType
<1> HIDE DEF u
<1>4. t \in StateType /\ From(t) = ArmBoundaries(From(u), n)
  BY <1>1, ArmedEvent
<1>5. /\ t.scopes = u.scopes /\ t.armed = u.armed \cup Boundaries(n)
      /\ t.tokens = u.tokens /\ t.joins = u.joins /\ t.multi = u.multi
  BY <1>1 DEF OnArmed, StateType
<1> HIDE DEF t
<1>6. Sound(From(t))
  BY <1>2, <1>3, <1>4, <1>5, FromType, FromFields, ScopeSound, SMTT(30)
<1> QED BY <1>1, <1>4, <1>6 DEF t, u, sc
(* A scope completes and its boundaries are disarmed. *)
LEMMA ScopeEndRow ==
    ASSUME NEW s \in StateType, Sound(From(s)), NEW sc \in s.scopes
    PROVE  LET q == DisarmBoundaries(CompleteScope(From(s), sc), sc.node)
               t == Disarm(OnScopeCompleted(s, sc), Boundaries(sc.node) \cap s.armed)
           IN t \in StateType /\ From(t) = q /\ Sound(q)
<1> DEFINE n == sc.node
           a == Boundaries(n) \cap s.armed
           u == OnScopeCompleted(s, sc)
           t == Disarm(u, a)
<1>1. u \in StateType /\ From(u) = CompleteScope(From(s), sc)
  BY ScopeCompletedEvent
<1>2. /\ u.scopes = s.scopes \ {sc}
      /\ u.tokens = s.tokens /\ u.joins = s.joins /\ u.multi = s.multi
      /\ u.armed = s.armed
  BY DEF OnScopeCompleted, StateType
<1>3. n \in Node
  BY DEF StateType, Scopes
<1> HIDE DEF u
<1>4. a \cap u.armed = Boundaries(n) \cap u.armed
  BY <1>2
<1> HIDE DEF a, n
<1>5. t \in StateType /\ From(t) = DisarmBoundaries(From(u), n)
  BY <1>1, <1>4, DisarmedEvent
<1> HIDE DEF t
<1>6. /\ From(t).scopes = u.scopes /\ From(t).armed = u.armed \ Boundaries(n)
      /\ From(t).tokens = u.tokens /\ From(t).joins = u.joins /\ From(t).multi = u.multi
  <2> DEFINE r == From(u)
  <2>1. /\ r \in RoutingType /\ r.tokens = u.tokens /\ r.multi = u.multi
        /\ r.armed = u.armed /\ r.joins = u.joins /\ r.scopes = u.scopes
    BY <1>1, FromType, FromFields
  <2> HIDE DEF r
  <2> QED BY <1>5, <2>1 DEF DisarmBoundaries, RoutingType, r
<1>7. Sound(From(t))
  <2> DEFINE r == From(s)
             q == From(t)
  <2>1. /\ r \in RoutingType /\ q \in RoutingType
        /\ q.tokens = r.tokens /\ q.joins = r.joins /\ q.multi = r.multi
        /\ q.armed = r.armed \ Boundaries(n) /\ q.scopes = r.scopes \ {sc}
    BY <1>2, <1>5, <1>6, FromType, FromFields
  <2> HIDE DEF r, q
  <2>2. Sound(r) => Sound(q)
    BY <1>3, <2>1, ScopeSound DEF n
  <2> QED BY <2>2 DEF r, q
<1> QED BY <1>1, <1>5, <1>7 DEF t, u, a, n

(* A task completes and its boundaries are disarmed. *)
LEMMA CompleteRow ==
    ASSUME NEW s \in StateType, Sound(From(s)), NEW n \in Node, s.tokens[n] > 0,
           NEW out, \A v \in DOMAIN out : out[v] \in Value
    PROVE  LET q == DisarmBoundaries(CompleteTask(From(s), n), n)
               t == Disarm(OnTaskCompleted(s, n, out), Boundaries(n) \cap s.armed)
           IN t \in StateType /\ From(t) = q /\ Sound(q)
<1> DEFINE a == Boundaries(n) \cap s.armed
           u == OnTaskCompleted(s, n, out)
           t == Disarm(u, a)
<1>1. u \in StateType /\ From(u) = CompleteTask(From(s), n)
  BY TaskCompleted
<1>2. u.armed = s.armed
  BY DEF OnTaskCompleted, StateType
<1> HIDE DEF u
<1>3. a \cap u.armed = Boundaries(n) \cap u.armed
  BY <1>2
<1> HIDE DEF a
<1>4. t \in StateType /\ From(t) = DisarmBoundaries(From(u), n)
  BY <1>1, <1>3, DisarmedEvent
<1> HIDE DEF t
<1>5. From(t) \in RoutingType /\ From(s) \in RoutingType
  BY <1>4, FromType
<1>6. Sound(DisarmBoundaries(CompleteTask(From(s), n), n))
  BY <1>1, <1>4, <1>5, CompleteSound
<1> QED BY <1>1, <1>4, <1>6 DEF t, u, a
(* An iteration completes, and the next one may take its slot: the
   multi-instance goes on. *)
LEMMA IterationRow ==
    ASSUME NEW s \in StateType, Sound(From(s)), NEW n \in Node, NEW i \in Nat,
           s.multi[n] # NoMulti
    PROVE  LET q == CompleteIteration(From(s), n, i)
               t == OnIterationCompleted(s, n, i)
               u == OnIterationsActivated(t, n, q.multi[n].next, 1)
           IN /\ t \in StateType /\ From(t) = q /\ Sound(q)
              /\ u \in StateType /\ From(u) = ActivateNext(q, n, 1)
              /\ Sound(ActivateNext(q, n, 1))
<1> DEFINE t == OnIterationCompleted(s, n, i)
           u == OnIterationsActivated(t, n, t.multi[n].next, 1)
           r == From(s)
<1>1. t \in StateType /\ From(t) = CompleteIteration(r, n, i)
  BY IterationCompleted
<1>2. /\ t.tokens = s.tokens /\ t.scopes = s.scopes /\ t.joins = s.joins
      /\ t.armed = s.armed /\ i \in t.multi[n].done
      /\ \A m \in Node : m # n => t.multi[m] = s.multi[m]
  BY DEF OnIterationCompleted, StateType, Multis
<1> HIDE DEF t
<1>3. t.multi[n] # NoMulti
  BY <1>2 DEF NoMulti
<1>4. u \in StateType /\ From(u) = ActivateNext(From(t), n, 1)
  BY <1>1, <1>3, IterationsActivated
<1>5. /\ u.tokens = t.tokens /\ u.scopes = t.scopes /\ u.joins = t.joins
      /\ u.armed = t.armed /\ u.multi[n].done = t.multi[n].done
      /\ \A m \in Node : m # n => u.multi[m] = t.multi[m]
  BY <1>1, <1>3 DEF OnIterationsActivated, StateType, Multis
<1> HIDE DEF u
<1>6. u.multi[n] # NoMulti
  BY <1>2, <1>5 DEF NoMulti
<1>7. /\ r \in RoutingType /\ r.tokens = s.tokens /\ r.multi = s.multi
      /\ r.armed = s.armed /\ r.joins = s.joins /\ r.scopes = s.scopes /\ Sound(r)
  BY FromType, FromFields
<1> HIDE DEF r
<1>8. Sound(From(t))
  BY <1>1, <1>2, <1>3, <1>7, FromType, FromFields, MultiSound, SMTT(30)
<1>9. Sound(From(u))
  BY <1>2, <1>4, <1>5, <1>6, <1>7, FromType, FromFields, MultiSound, SMTT(30)
<1>10. CompleteIteration(r, n, i).multi = t.multi
  BY <1>1, FromFields
<1> QED BY <1>1, <1>4, <1>8, <1>9, <1>10 DEF t, u, r

(* The last iteration completes, the multi-instance ends and its boundaries
   are disarmed. *)
LEMMA LastRow ==
    ASSUME NEW s \in StateType, Sound(From(s)), NEW n \in Node, NEW i \in Nat,
           s.multi[n] # NoMulti
    PROVE  LET q == DisarmBoundaries(FinishMulti(CompleteIteration(From(s), n, i), n), n)
               t == Disarm(OnMultiCompleted(OnIterationCompleted(s, n, i), n),
                           Boundaries(n) \cap s.armed)
           IN t \in StateType /\ From(t) = q /\ Sound(q)
<1> DEFINE a == Boundaries(n) \cap s.armed
           v == OnIterationCompleted(s, n, i)
           u == OnMultiCompleted(v, n)
           t == Disarm(u, a)
           r == From(s)
<1>1. v \in StateType /\ From(v) = CompleteIteration(r, n, i)
  BY IterationCompleted
<1>2. /\ v.tokens = s.tokens /\ v.scopes = s.scopes /\ v.joins = s.joins
      /\ v.armed = s.armed
      /\ \A m \in Node : m # n => v.multi[m] = s.multi[m]
  BY DEF OnIterationCompleted, StateType, Multis
<1> HIDE DEF v
<1>3. u \in StateType /\ From(u) = FinishMulti(From(v), n)
  BY <1>1, MultiCompleted
<1>4. /\ u.tokens = v.tokens /\ u.scopes = v.scopes /\ u.joins = v.joins
      /\ u.armed = v.armed
      /\ \A m \in Node : m # n => u.multi[m] = v.multi[m]
  BY <1>1 DEF OnMultiCompleted, StateType, Multis
<1> HIDE DEF u
<1>5. a \cap u.armed = Boundaries(n) \cap u.armed
  BY <1>2, <1>4
<1> HIDE DEF a
<1>6. t \in StateType /\ From(t) = DisarmBoundaries(From(u), n)
  BY <1>3, <1>5, DisarmedEvent
<1> HIDE DEF t
<1>7. /\ From(t).scopes = u.scopes /\ From(t).armed = u.armed \ Boundaries(n)
      /\ From(t).tokens = u.tokens /\ From(t).joins = u.joins /\ From(t).multi = u.multi
  <2> DEFINE p == From(u)
  <2>1. /\ p \in RoutingType /\ p.tokens = u.tokens /\ p.multi = u.multi
        /\ p.armed = u.armed /\ p.joins = u.joins /\ p.scopes = u.scopes
    BY <1>3, FromType, FromFields, SMTT(30)
  <2> HIDE DEF p
  <2> QED BY <1>6, <2>1 DEF DisarmBoundaries, RoutingType, p
<1>8. /\ r \in RoutingType /\ r.tokens = s.tokens /\ r.multi = s.multi
      /\ r.armed = s.armed /\ r.joins = s.joins /\ r.scopes = s.scopes /\ Sound(r)
  BY FromType, FromFields
<1> HIDE DEF r
<1>9. Sound(From(t))
  BY <1>2, <1>4, <1>6, <1>7, <1>8, FromType, MultiSound, SMTT(30)
<1> QED BY <1>1, <1>3, <1>6, <1>9 DEF t, u, v, a, r

(* A boundary is triggered: an interrupting one cancels its activity. *)
LEMMA TriggerRow ==
    ASSUME NEW s \in StateType, Sound(From(s)), NEW b \in Boundary, NEW c \in Nat,
           c <= s.tokens[Attached[b]]
    PROVE  LET q == IF b \in Interrupting THEN CancelActivity(From(s), Attached[b], c)
                    ELSE From(s)
               t == OnTriggered(s, b, c)
           IN t \in StateType /\ From(t) = q /\ Sound(q)
<1> DEFINE n == Attached[b]
           t == OnTriggered(s, b, c)
<1>1. n \in Node
  BY Definition
<1>2. CASE b \in Interrupting
  <2>1. t \in StateType /\ From(t) = CancelActivity(From(s), n, c)
    BY <1>1, <1>2, TriggeredEvent
  <2>2. From(t) \in RoutingType /\ From(s) \in RoutingType
    BY <2>1, FromType
  <2>3. Sound(CancelActivity(From(s), n, c))
    BY <1>1, <2>1, <2>2, CancelSound
  <2> QED BY <1>2, <2>1, <2>3
<1>3. CASE b \notin Interrupting
  <2>1. t = [s EXCEPT !.life = "Active"]
    BY <1>3 DEF OnTriggered
  <2>2. t \in StateType /\ From(t) = From(s)
    BY <2>1 DEF StateType, From
  <2> QED BY <1>3, <2>2
<1> QED BY <1>2, <1>3

-----------------------------------------------------------------------------
(* The entry of a node in the multi-instance table. *)
LEMMA MultiplesAre ==
    ASSUME NEW s \in StateType, NEW n \in Node PROVE s.multi[n] \in Multiple
  BY DEF StateType, Multis, Multiple

(* A state whose multi-instances differ at one node, where the slots are right. *)
LEMMA OneMulti ==
    ASSUME NEW f, Iterates(f), NEW n \in Node, NEW g, \A m \in Node : m # n => g[m] = f[m],
           g[n] = NoMulti \/ Slots(g[n])
    PROVE  Iterates(g)
  BY DEF Iterates

(* A cleared state has no multi-instance. *)
LEMMA ClearedMulti ==
    ASSUME NEW s \in StateType, NEW l
    PROVE  \A n \in Node : Cleared(s, l).multi[n] = NoMulti
<1> DEFINE t == [n \in Node |-> 0]
           x == [n \in Node |-> NoJoin]
           y == [n \in Node |-> NoMulti]
<1>1. \A n \in Node : y[n] = NoMulti
  OBVIOUS
<1> HIDE DEF t, x, y
<1>2. [s EXCEPT !.life = l, !.tokens = t, !.joins = x, !.multi = y, !.armed = {}, !.scopes = {}].multi = y
  BY DEF StateType
<1> QED BY <1>1, <1>2 DEF Cleared, t, x, y

(* A completed iteration leaves the slots right, unless it was the last. *)
LEMMA IterationSlots ==
    ASSUME Counting, NEW s \in StateType, Iterates(s.multi), NEW n \in Node, NEW i \in s.multi[n].active, i \in Nat,
           s.multi[n] # NoMulti, Cardinality(s.multi[n].done \cup {i}) # s.multi[n].total
    PROVE  LET t == OnIterationCompleted(s, n, i)
               u == OnIterationsActivated(t, n, t.multi[n].next, 1)
           IN IF t.multi[n].next < t.multi[n].total THEN Iterates(u.multi) ELSE Iterates(t.multi)
<1> DEFINE t == OnIterationCompleted(s, n, i)
           u == OnIterationsActivated(t, n, t.multi[n].next, 1)
           m == s.multi[n]
           q == [m EXCEPT !.active = m.active \ {i}, !.done = m.done \cup {i}]
<1>1. m \in Multiple /\ Slots(m)
  BY MultiplesAre DEF Iterates
<1>2. t \in StateType
  BY IterationCompleted
<1>3. t.multi = [s.multi EXCEPT ![n] = IF m = NoMulti THEN m ELSE q]
  BY DEF OnIterationCompleted, StateType
<1>4. t.multi[n] = q /\ \A x \in Node : x # n => t.multi[x] = s.multi[x]
  <2> HIDE DEF q
  <2> QED BY <1>3 DEF StateType, Multis
<1> HIDE DEF t, m
<1>5. /\ q.total = m.total /\ q.par = m.par /\ q.next = m.next
      /\ q.active = m.active \ {i} /\ q.done = m.done \cup {i}
  BY <1>1 DEF Multiple
<1>6. q \in Multiple
  BY <1>2, <1>4, MultiplesAre, SMTT(30)
<1> HIDE DEF q
<1>7. CASE ~(q.next < q.total)
  <2>1. Slots(q)
    BY <1>1, <1>5, <1>6, <1>7, SlotClosed, ZenonT(30) DEF m
  <2>2. Iterates(t.multi)
    BY <1>4, <2>1, OneMulti
  <2> QED BY <1>4, <1>7, <2>2 DEF t, u
<1>8. CASE q.next < q.total
  <2> DEFINE e == [q EXCEPT !.active = q.active \cup q.next..(q.next + 1 - 1),
                            !.next = IF q.next > q.next + 1 THEN q.next ELSE q.next + 1]
  <2>1. q.next \in Nat /\ q # NoMulti
    BY <1>6, <1>8 DEF Multiple, NoMulti
  <2>2. u \in StateType
    BY <1>2, <1>4, <2>1, IterationsActivated, SMTT(30)
  <2>3. u.multi = [t.multi EXCEPT ![n] = IF q = NoMulti \/ 1 = 0 THEN q ELSE e]
    BY <1>2, <1>4, SMTT(30) DEF OnIterationsActivated, StateType
  <2>4. u.multi[n] = e /\ \A x \in Node : x # n => u.multi[x] = s.multi[x]
    <3> HIDE DEF e
    <3> QED BY <1>2, <1>4, <2>1, <2>3, SMTT(30) DEF StateType, Multis
  <2>5. /\ e.total = q.total /\ e.par = q.par /\ e.done = q.done
        /\ e.active = q.active \cup q.next..(q.next + 1 - 1)
        /\ e.next = IF q.next > q.next + 1 THEN q.next ELSE q.next + 1
    BY <1>6 DEF Multiple
  <2> HIDE DEF e, u
  <2>6. e.next = q.next + 1 /\ q.next..(q.next + 1 - 1) = {q.next}
    BY <2>1, <2>5
  <2>7. e \in Multiple
    BY <2>2, <2>4, MultiplesAre, SMTT(30)
  <2>8. Slots(e)
    <3>1. e.active = (m.active \ {i}) \cup {m.next}
      BY <1>5, <2>5, <2>6, SMTT(30)
    <3> QED BY <1>1, <1>5, <1>8, <2>5, <2>6, <2>7, <3>1, SlotRefilled, SMTT(30) DEF m
  <2>9. Iterates(u.multi)
    BY <2>4, <2>8, OneMulti
  <2> QED BY <1>4, <1>8, <2>9 DEF t, u
<1> QED BY <1>7, <1>8
-----------------------------------------------------------------------------
(* The entry activation_events pops. *)
LEMMA HeadEntry ==
    ASSUME TypeOK, Deciding
    PROVE  here \in Node /\ head.scope \in ScopeIds /\ rest \in Seq(Entries)
<1>1. todo \in Seq(Entries) /\ todo # <<>>
  BY DEF TypeOK, Deciding, Entries
<1>2. Head(todo) \in Entries /\ Tail(todo) \in Seq(Entries)
  BY <1>1
<1> QED BY <1>2 DEF here, head, rest, Entries

(* An entry on its own is a worklist. *)
LEMMA OneEntry ==
    ASSUME NEW n \in Node, NEW sc \in ScopeIds
    PROVE  <<Entry(n, sc)>> \in Seq(Entries)
  BY DEF Entry, Entries

(* One round of the loop keeps the invariant if its row of events does. *)
LEMMA AdvanceKeeps ==
    ASSUME IInv, Deciding, NEW r, NEW s, NEW k, NEW vs, NEW new, Advance(r, s, k, vs, new),
           s \in StateType, r = From(s), Sound(r), new \in Seq(Entries)
    PROVE  IInv'
<1>1. TypeOK'
  <2>1. new \o rest \in Seq(Entries)
    BY HeadEntry DEF IInv
  <2>2. todo' \in Seq(Entries)
    BY <2>1 DEF Advance
  <2> QED BY <2>2, FromType DEF Advance, IInv, TypeOK, Entries
<1>2. RoutingMatchesReplay'
  BY DEF Advance, RoutingMatchesReplay
<1>3. Sound(routing)' /\ Sound(From(state))'
  <2>1. routing' = r /\ state' = state
    BY DEF Advance
  <2>2. Sound(routing')
    BY <2>1
  <2>3. Sound(From(state'))
    BY <2>1 DEF IInv
  <2> QED BY <2>2, <2>3
<1> QED BY <1>1, <1>2, <1>3 DEF IInv

(* So does a command that is accepted ... *)
LEMMA BeginKeeps ==
    ASSUME IInv, NEW r, NEW s, NEW k, NEW vs, NEW ctx, NEW new, Begin(r, s, k, vs, ctx, new),
           s \in StateType, r = From(s), Sound(r), new \in Seq(Entries)
    PROVE  IInv'
<1>1. TypeOK'
  BY FromType DEF Begin, IInv, TypeOK, Entries
<1>2. RoutingMatchesReplay'
  BY DEF Begin, RoutingMatchesReplay
<1>3. Sound(routing)' /\ Sound(From(state))'
  <2>1. routing' = r /\ state' = state
    BY DEF Begin
  <2>2. Sound(routing')
    BY <2>1
  <2>3. Sound(From(state'))
    BY <2>1 DEF IInv
  <2> QED BY <2>2, <2>3
<1> QED BY <1>1, <1>2, <1>3 DEF IInv

(* ... and one that is over. *)
LEMMA SettleKeeps ==
    ASSUME IInv, NEW s \in StateType, Settle(s), Sound(From(s))
    PROVE  IInv'
<1>1. TypeOK'
  <2>1. todo' \in Seq(Entries)
    BY DEF Settle
  <2> QED BY <2>1, FromType DEF Settle, TypeOK, Entries
<1>2. RoutingMatchesReplay'
  BY DEF Settle, RoutingMatchesReplay
<1>3. Sound(routing)' /\ Sound(From(state))'
  <2>1. routing' = From(s) /\ state' = s
    BY DEF Settle
  <2>2. Sound(routing') /\ Sound(From(state'))
    BY <2>1
  <2> QED BY <2>2
<1> QED BY <1>1, <1>2, <1>3 DEF IInv

(* The scope a command resumes in. *)
LEMMA ScopeForType ==
    ASSUME Counting, TypeOK, NEW n \in Node, HasScope(n)
    PROVE  ScopeFor(n) \in ScopeIds
<1>1. CASE Owner[n] = NoNode
  BY <1>1 DEF ScopeFor, ScopeIds
<1>2. CASE Owner[n] # NoNode
  <2>1. Cardinality(ScopesFor(n)) = 1
    BY <1>2 DEF HasScope
  <2>2. ScopesFor(n) # {}
    BY <2>1 DEF Counting, CardOfEmpty
  <2> DEFINE sc == CHOOSE x \in ScopesFor(n) : TRUE
  <2>3. sc \in state.scopes
    BY <2>2 DEF ScopesFor
  <2> HIDE DEF sc
  <2>4. sc.node \in Node /\ sc.call \in Nat
    BY <2>3 DEF TypeOK, StateType, Scopes
  <2> QED BY <1>2, <2>4 DEF ScopeFor, ScopeIds, sc
<1> QED BY <1>1, <1>2
(* What every step starts from. *)
LEMMA Facts ==
    ASSUME IInv
    PROVE  /\ state \in StateType /\ replay \in StateType /\ routing = From(replay)
           /\ Sound(From(replay)) /\ Sound(From(state)) /\ <<>> \in Seq(Entries)
           /\ routing.multi = replay.multi /\ routing.joins = replay.joins
           /\ routing.armed = replay.armed /\ routing.scopes = replay.scopes
  BY FromFields DEF IInv, TypeOK, RoutingMatchesReplay

(* The branches a split takes: at least one, each to a node. *)
LEMMA Branching ==
    ASSUME Counting, NEW n \in Node, Def[n].kind \in {"Parallel", "Inclusive"}, Splittable(n),
           NEW br \in InOrder(Chosen(n, vars)), NEW sc \in ScopeIds
    PROVE  /\ Cardinality(Chosen(n, vars)) \in Nat \ {0}
           /\ [i \in DOMAIN br |-> Entry(Def[n].flows[br[i]].to, sc)] \in Seq(Entries)
<1> DEFINE S == Chosen(n, vars)
           D == DOMAIN Def[n].flows
           k == Cardinality(S)
           f == [i \in DOMAIN br |-> Entry(Def[n].flows[br[i]].to, sc)]
<1>1. /\ Len(Def[n].flows) \in Nat \ {0} /\ D = 1..Len(Def[n].flows)
      /\ \A i \in D : Def[n].flows[i].to \in Node
  BY ValidDefinition, SMTT(30)
<1>2. S \subseteq D
  BY DEF Chosen, Selected, Taken, DefaultFlow
<1>3. S # {}
  <2>1. CASE Def[n].kind = "Parallel"
    <3>1. 1 \in 1..Len(Def[n].flows)
      BY <1>1
    <3> QED BY <1>1, <2>1, <3>1 DEF Chosen
  <2>2. CASE Def[n].kind = "Inclusive"
    BY <2>2 DEF Chosen, Splittable
  <2> QED BY <2>1, <2>2
<1>4. IsFiniteSet(D)
  BY <1>1 DEF Counting, CardOfInterval
<1>5. IsFiniteSet(S)
  BY <1>2, <1>4 DEF Counting, CardOfSubset
<1>6. k \in Nat \ {0}
  BY <1>3, <1>5 DEF Counting, CardIsNat, CardOfEmpty
<1>7. br \in [1..k -> S]
  BY DEF InOrder
<1> HIDE DEF S, D, k
<1>8. f \in [1..k -> Entries]
  BY <1>1, <1>2, <1>7 DEF Entry, Entries, D
<1> HIDE DEF f
<1>9. f \in Seq(Entries)
  BY <1>6, <1>8
<1> QED BY <1>6, <1>9 DEF f, k, S
=============================================================================
