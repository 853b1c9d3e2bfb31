--------------------------- MODULE MCBoundaryRuntime ---------------------------
(* Instances of BoundaryRuntime for TLC: an activity with a repeating timer   *)
(* that does not interrupt it, or with one that interrupts it and fires once.  *)
EXTENDS BoundaryRuntime, TLC

CONSTANTS n1, n2, task, cycle, timeout

OneCycle   == [b \in {cycle} |-> 2]
OneTimeout == [b \in {timeout} |-> 1]
OnTask     == [b \in Boundary |-> task]
NoSignals  == <<>>

NodeSymmetry == Permutations({n1, n2})
================================================================================
