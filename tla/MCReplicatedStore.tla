------------------------- MODULE MCReplicatedStore -------------------------
(* A small instance of ReplicatedStore: two column families, one of them    *)
(* append-only, and batches that meet every branch of apply().              *)
EXTENDS ReplicatedStore, TLC

B(cmd, scope, digest, size, pre, put, del) ==
    [command_id |-> cmd, scope |-> scope, digest |-> digest, size |-> size,
     pre |-> pre, put |-> put, del |-> del, answer |-> cmd]

Row   == <<"events", 1>>
Index == <<"index", 1>>

MCBatch == {
    \* creates an append-only row and an index entry
    B("c1", "s1", 1, 1, <<Expect(Row, Missing), Expect(Index, Missing)>>,
      Row :> 1 @@ Index :> 1, {}),
    \* the same command prepared again on a later state, hence other bytes
    B("c1", "s1", 2, 1, <<Expect(Index, Missing)>>, Index :> 1, {}),
    \* removes the index; succeeds only after one of the first two
    B("c2", "s2", 3, 1, <<Expect(Index, 1)>>, <<>>, {Index}),
    \* violates the append-only rule
    B("c3", "s3", 4, 1, <<>>, Row :> 3, {}),
    \* violates the size limit
    B("c4", "s4", 5, 2, <<>>, Index :> 3, {}) }
=============================================================================
