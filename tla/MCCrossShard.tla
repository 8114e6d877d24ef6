---------------------------- MODULE MCCrossShard ----------------------------
(* Instances of CrossShard for TLC.                                         *)
EXTENDS CrossShard

CONSTANTS A, B, a1, b1, b2, r1, r2

MCShardOf == [n \in Nodes |-> IF n = a1 THEN A ELSE B]

\* All go from B to A, or all from A to B.
ToA == [t \in RelayTxs |-> A]
FromB == [t \in RelayTxs |-> B]
ToB == [t \in RelayTxs |-> B]
FromA == [t \in RelayTxs |-> A]

\* Every validator is needed.
AllQuorums == [s \in Shards |-> {NodesOf(s)}]

Heights12 == [s \in Shards |-> IF s = A THEN 1 ELSE 2]
Heights21 == [s \in Shards |-> IF s = A THEN 2 ELSE 1]

\* No round fails.
NoFailedRound == [s \in Shards |-> 0]

\* Room for two in a block, no gas limit, and replies that all arrive or none.
CapTwo == [s \in Shards |-> 2]
NoGasCap == [s \in Shards |-> FALSE]
Resolved == [s \in Shards |-> TRUE]
Unresolved == [s \in Shards |-> FALSE]
=============================================================================
