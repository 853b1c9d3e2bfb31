------------------------------ MODULE Snapshots ------------------------------
(***************************************************************************)
(* The snapshots of an instance.  handle folds the events of a decision    *)
(* one by one and keeps the state after the last one whose sequence is a   *)
(* multiple of snapshot_interval_events; the commit stores it beside the   *)
(* events, and the next command loads it and replays what follows.  A      *)
(* stored snapshot that cannot be decoded fails the load, and with it      *)
(* every later command of the instance.                                    *)
(*                                                                         *)
(* WorkflowTokens folds the events of a worklist entry in one step.  Here  *)
(* each step also says which states evolve passes on the way.              *)
(***************************************************************************)
EXTENDS SnapshotCodec, TLC
LOCAL INSTANCE SequencesExt

CONSTANTS Interval,   \* snapshot_interval_events, at least 1
          NoSnapshot

VARIABLES
    sequence,   \* the version of the stream
    latest,     \* the snapshot the decision under way has made, or NoSnapshot
    stored      \* the snapshot in the store and the state it is of, or NoSnapshot

snapVars == <<sequence, latest, stored>>

(***************************************************************************)
(* The states evolve passes in one step, but for the last.                 *)
(***************************************************************************)
Arming(s, n) ==
    LET bs == SetToSeq(Boundaries(n))
    IN [i \in DOMAIN bs |-> [s EXCEPT !.armed = @ \cup {bs[j] : j \in 1..i}]]

PassedByTask ==
    LET s == OnTaskActivated(replay, here) IN <<s>> \o Arming(s, here)

PassedByMulti(k) ==
    LET s == OnMultiStarted(replay, here, k, Width(here, k))
        act == [i \in 1..Width(here, k) |-> OnIterationsActivated(s, here, 0, i)]
    IN <<s>> \o act \o Arming(act[Len(act)], here)

PassedByScope ==
    LET s == OnScopeEntered(replay, ScopeOf(here, routing, head.scope))
    IN <<s>> \o Arming(s, here)

PassedByScopeEnd ==
    LET sc == CHOOSE x \in Entered(head.scope) : TRUE IN <<OnScopeCompleted(replay, sc)>>

\* snapshot_at_latest_boundary: of the events of the step, of which `before`
\* came first, the last one at a multiple of the interval.
Fold(base, old, before) ==
    LET k == count' - base
        at == {i \in 1..k : (sequence + base + i) % Interval = 0}
        i == CHOOSE x \in at : \A y \in at : y <= x
    IN latest' = IF at = {} THEN old
                 ELSE [at |-> sequence + base + i,
                       state |-> IF i = k THEN replay' ELSE before[i]]

Further(before) == Fold(count, latest, before) /\ UNCHANGED <<sequence, stored>>

SnapshotsVisit ==
    \/ VisitTask /\ Further(PassedByTask)
    \/ \E k \in 1..MaxCardinality : VisitMulti(k) /\ Further(PassedByMulti(k))
    \/ VisitMultiEmpty /\ Further(<<OnMultiStarted(replay, here, 0, 1)>>)
    \/ (VisitDecision \/ VisitExclusive \/ VisitSplit \/ VisitStart \/ VisitEnd) /\ Further(<<>>)
    \/ VisitJoin /\ Further(<<OnArrived(replay, here)>>)
    \/ VisitSubProcess /\ Further(PassedByScope)
    \/ VisitScopeEnd /\ Further(PassedByScopeEnd)

\* load and rehydrate: the state is the snapshot's with the tail folded in.
Loads == stored # NoSnapshot => FromWire(stored.wire) # Unreadable

First(before) == Loads /\ Fold(0, NoSnapshot, before) /\ UNCHANGED <<sequence, stored>>

SnapshotsCommand ==
    \E ctx \in Inputs :
        \/ StartWorkflow(ctx) /\ First(<<>>)
        \/ \E n \in Activities :
              \/ \E out \in Outputs(n) :
                    CompleteActivity(n, out, ctx) /\ First(<<OnTaskCompleted(state, n, out)>>)
              \/ \E i \in 0..MaxCardinality :
                    LET s == OnIterationCompleted(state, n, i)
                    IN CompleteMultiInstanceIteration(n, i, ctx)
                       /\ First(<<s, OnMultiCompleted(s, n)>>)
        \/ \E b \in Boundary :
              TriggerBoundaryEvent(b, ctx) /\ First(<<replay'>>)

SnapshotsCommit ==
    /\ Commit
    /\ sequence' = sequence + count
    /\ stored' = IF latest = NoSnapshot THEN stored
                 ELSE [at |-> latest.at, wire |-> ToWire(latest.state), of |-> latest.state]
    /\ latest' = NoSnapshot

SnapshotsReject == Reject /\ latest' = NoSnapshot /\ UNCHANGED <<sequence, stored>>

\* A termination stores a snapshot of its own, whatever the interval.
SnapshotsTerminate ==
    /\ Terminate /\ Loads
    /\ sequence' = sequence + 1
    /\ stored' = [at |-> sequence + 1, wire |-> ToWire(state'), of |-> state']
    /\ UNCHANGED latest

SnapshotsInit == Init /\ sequence = 0 /\ latest = NoSnapshot /\ stored = NoSnapshot

SnapshotsNext ==
    \/ SnapshotsVisit \/ SnapshotsCommand \/ SnapshotsCommit \/ SnapshotsReject
    \/ SnapshotsTerminate

SnapshotsSpec == SnapshotsInit /\ [][SnapshotsNext]_<<all, snapVars>>

-----------------------------------------------------------------------------
(* Whatever the interval, the stored snapshot decodes to the state it was
   taken of, so that replay from it equals replay from the first event:
   "For any event sequence of an instance (with or without a snapshot) ...
   rehydrate_runtime SHALL always give the same result".  The code does not
   establish it: see the README. *)
SnapshotsReadBack == stored # NoSnapshot => FromWire(stored.wire) = stored.of

-----------------------------------------------------------------------------
(* A definition to take snapshots of: two tasks in parallel and one after     *)
(* them.                                                                      *)
Task(n) == [kind |-> "Service", next |-> n]
To(n) == [to |-> n, var |-> NoNode, when |-> {}]
ForkDef ==
    "start" :> [kind |-> "Start", next |-> "fork"]
    @@ "fork" :> [kind |-> "Parallel", flows |-> <<To("pack"), To("bill")>>, join |-> "sync"]
    @@ "pack" :> Task("sync") @@ "bill" :> Task("sync")
    @@ "sync" :> [kind |-> "Join", next |-> "ship"] @@ "ship" :> Task("stop")
    @@ "stop" :> [kind |-> "End"]
ForkNodes == DOMAIN ForkDef
NoOwner == [n \in ForkNodes |-> NoNode]
NoInput == {<<>>}
NoEvents == <<>>
=============================================================================
