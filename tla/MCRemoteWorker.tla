--------------------------- MODULE MCRemoteWorker ---------------------------
(* Instances of RemoteWorker for TLC. *)
EXTENDS RemoteWorker

OneTask    == {1}
TwoWorkers == {1, 2}

OwnNodes   == [t \in Task |-> t]
AllCapable == [t \in Task |-> Worker]

Scarce     == {0, 1}
=============================================================================
