----------------------------- MODULE MCMempool -----------------------------
(* The pool of one node, rechecking its transactions or gossiping them. *)
EXTENDS Mempool

MCConfigs == {[recheck |-> TRUE, broadcast |-> FALSE], [recheck |-> FALSE, broadcast |-> TRUE]}
=============================================================================
