----------------------------- MODULE MCFastSync -----------------------------
(* Two peers, of whom the second is behind the first and may send a block   *)
(* that is not the chain's.                                                 *)
EXTENDS FastSync

CONSTANTS p1, p2

MCTip == [p \in Peers |-> IF p = p1 THEN 3 ELSE 2]
MCSends == [p \in Peers |-> {[self |-> p = p1, commit |-> TRUE]}]
=============================================================================
