-------------------------- MODULE MCWorkflowTokens --------------------------
(***************************************************************************)
(* Definitions for WorkflowTokens.  Each passes the validation of    *)
(* WorkflowDefinition::new_with_execution_contracts.                       *)
(***************************************************************************)
EXTENDS SnapshotCodec, TLC

StartAt(n) == [kind |-> "Start", next |-> n]
Service(n) == [kind |-> "Service", next |-> n]
User(n, v) == [kind |-> "User", next |-> n, result |-> v]
Script(n) == [kind |-> "Script", next |-> n]
Many(n, par, cond) == [kind |-> "Service", next |-> n, par |-> par, condition |-> cond]
Flow(n, v, vals) == [to |-> n, var |-> v, when |-> vals]
Else(n) == [to |-> n, var |-> NoNode, when |-> {}]
Exclusive(fs) == [kind |-> "Exclusive", flows |-> fs]
Parallel(fs, j) == [kind |-> "Parallel", flows |-> fs, join |-> j]
Inclusive(fs, j) == [kind |-> "Inclusive", flows |-> fs, join |-> j]
JoinTo(n) == [kind |-> "Join", next |-> n]
Sub(s, n) == [kind |-> "SubProcess", start |-> s, next |-> n]
End == [kind |-> "End"]
Table(n, i, o, rs) ==
    [kind |-> "Decision", next |-> n, input |-> i, output |-> o, rules |-> rs,
     policy |-> "First"]
When(vals, v) == [when |-> vals, then |-> v]
Vars == {"v", "u"}
Values == {"yes", "no"}
Contexts == {<<>>, [v |-> "yes"], [u |-> "no"]}
NoContext == {<<>>}

(* Two user tasks choose one of three bodies.

   Block: a decision, a multi-instance that a timer may interrupt, a retained
   sub-process with a non-interrupting boundary, and a user task whose decision
   may run the block again.

   Fan: a decision table feeds an inclusive block with a multi-instance branch
   that a non-interrupting message may leave any number of times, beside a
   task that a timer may interrupt.

   Nest: a retained sub-process that runs a nested one beside a task, entered
   again by a loop; the outer one has a non-interrupting boundary. *)
Choice ==
    "start" :> StartAt("triage") @@ "triage" :> User("pick", "v")
    @@ "pick" :> Exclusive(<<Flow("block", "v", {"yes"}), Else("sort")>>)
    @@ "sort" :> User("pick2", "u")
    @@ "pick2" :> Exclusive(<<Flow("rank", "u", {"yes"}), Else("draft")>>)
    @@ "stop" :> End @@ "done" :> End
Block ==
    "block" :> Parallel(<<Else("rate"), Else("each"), Else("outer"), Else("ask")>>, "sync")
    @@ "rate" :> Table("sync", "v", "u", <<When({"yes"}, "yes"), When({"yes", "no"}, "no")>>)
    @@ "each" :> Many("sync", 2, FALSE) @@ "recover" :> Service("sync")
    @@ "outer" :> Sub("s1", "sync") @@ "s1" :> StartAt("sign") @@ "sign" :> Script("e1")
    @@ "e1" :> End @@ "remind" :> Service("done")
    @@ "ask" :> User("sync", "v") @@ "sync" :> JoinTo("route")
    @@ "route" :> Exclusive(<<Flow("block", "v", {"no"}), Else("stop")>>)
Fan ==
    "rank" :> Table("fork", "v", "u", <<When({"yes"}, "yes"), When({"yes", "no"}, "no")>>)
    @@ "fork" :> Inclusive(<<Flow("all", "v", {"yes", "no"}), Flow("check", "u", {"yes"})>>, "meet")
    @@ "all" :> Many("meet", 2, TRUE) @@ "check" :> Service("meet")
    @@ "meet" :> JoinTo("stop") @@ "notify" :> Service("done")
Nest ==
    "draft" :> User("book", "v")
    @@ "book" :> Sub("s2", "again") @@ "s2" :> StartAt("both")
    @@ "both" :> Parallel(<<Else("inner"), Else("read")>>, "close")
    @@ "read" :> Script("close") @@ "close" :> JoinTo("e2")
    @@ "inner" :> Sub("s3", "close") @@ "s3" :> StartAt("seal") @@ "seal" :> Service("e3")
    @@ "e3" :> End @@ "e2" :> End
    @@ "again" :> Exclusive(<<Flow("draft", "v", {"no"}), Flow("stop", "v", {"yes"})>>)

MixDef == Choice @@ Block @@ Fan @@ Nest
MixNodes == DOMAIN MixDef
MixOwner == [n \in MixNodes |->
    CASE n \in {"s1", "sign", "e1"} -> "outer"
      [] n \in {"s2", "both", "read", "close", "inner", "e2"} -> "book"
      [] n \in {"s3", "seal", "e3"} -> "inner"
      [] OTHER -> NoNode]
MixAttached == "timeout" :> "each" @@ "slow" :> "outer" @@ "told" :> "all"
               @@ "late" :> "check" @@ "nag" :> "book"
MixLeads == "timeout" :> "recover" @@ "slow" :> "remind" @@ "told" :> "notify"
            @@ "late" :> "meet" @@ "nag" :> "remind"

(* A retained sub-process whose task has a non-interrupting boundary that
   routes to the sub-process's own end event. *)
SideDef ==
    "start" :> StartAt("outer") @@ "outer" :> Sub("s1", "ship") @@ "s1" :> StartAt("sign")
    @@ "sign" :> Service("e1") @@ "e1" :> End @@ "ship" :> Service("stop") @@ "stop" :> End
SideNodes == DOMAIN SideDef
SideOwner == [n \in SideNodes |-> IF n \in {"s1", "sign", "e1"} THEN "outer" ELSE NoNode]
SideAttached == "slow" :> "sign" @@ "told" :> "outer"
SideLeads == "slow" :> "e1" @@ "told" :> "stop"
=============================================================================
