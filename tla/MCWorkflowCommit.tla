-------------------------- MODULE MCWorkflowCommit --------------------------
(* A small instance of WorkflowCommit: the calls of one behaviour are any     *)
(* MaxCalls of the ones below.                                                *)
EXTENDS WorkflowCommit, TLC

R(scope, cmd, i) == [scope |-> scope, command_id |-> cmd, instance |-> i]

Requests ==
    "first"    :> R("s1", "a", "i1") @@
    "retry"    :> R("s1", "a", "i1") @@  \* the client sends its command again
    "reuse"    :> R("s1", "b", "i1") @@  \* another command under the first's key
    "rival"    :> R("s2", "c", "i1") @@  \* another command for the same instance
    "stranger" :> R("s3", "d", "i2")     \* contends for the outbox cursor only

NodeSymmetry == Permutations(Node)
=============================================================================
