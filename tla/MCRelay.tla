------------------------------ MODULE MCRelay ------------------------------
(* Two pairs of shards.  From A a relaytx goes to B, where rounds fail, a gas *)
(* limit stops reaps, b1 holds more than 2/3 of the power and a node may      *)
(* restart; between L and M, of one validator each, a relaytx goes each way,  *)
(* alone in its block.  The pairs have nothing to say to each other: one of   *)
(* them runs, the other rests.                                                *)
EXTENDS CrossShard

CONSTANTS A, B, L, M, a1, b1, b2, l1, m1, r1, r2, r3
VARIABLE resting

MCShardOf == [n \in Nodes |-> CASE n = a1 -> A [] n = l1 -> L [] n = m1 -> M [] OTHER -> B]
MCSender == [t \in RelayTxs |-> CASE t = r1 -> A [] t = r2 -> L [] t = r3 -> M]
MCReceiver == [t \in RelayTxs |-> CASE t = r1 -> B [] t = r2 -> M [] t = r3 -> L]
MCQuorums == [s \in Shards |-> IF s = B THEN {{b1}, {b1, b2}} ELSE {NodesOf(s)}]
MCMaxHeight == [s \in Shards |-> CASE s = A -> 2 [] s = B -> 1 [] OTHER -> 3]
MCMaxRound == [s \in Shards |-> IF s = B THEN 2 ELSE 0]
MCBlockCap == [s \in Shards |-> IF s \in {A, B} THEN 2 ELSE 1]
MCGasCap == [s \in Shards |-> s \in {A, B}]
MCReplyReaches == [s \in Shards |-> s \in {A, B}]

Running == {n \in Nodes : ShardOf[n] \notin resting}

RelayInit ==
    /\ Init
    /\ \/ resting = {L, M}
       \/ resting = {A, B} /\ cons[B].leader = b1

(* The steps of Next that the running pair takes; its nodes restart if it is  *)
(* the first.                                                                 *)
RelayNext ==
    /\ \/ \E n \in Running :
            \/ CreateProposalBlock(n)
            \/ Prevote(n)
            \/ FinalizeCommit(n)
            \/ \E cm \in {c \in net : Delivered(n, c)} :
                  \/ ReceiveCm(n, cm)
                  \/ ReplyFromCheckdb(n, cm)
                  \/ ReceiveReceipt(n, cm)
            \/ \E m \in NodesOf(ShardOf[n]) : \E cm \in cache[m] : GossipReceive(n, m, cm)
            \/ L \in resting /\ Restart(n)
       \/ \E s \in Shards \ resting : EnterCommit(s) \/ EmptyBlock(s) \/ EnterNewRound(s)
    /\ UNCHANGED resting

RelaySpec == RelayInit /\ [][RelayNext]_<<vars, resting>>
=============================================================================
