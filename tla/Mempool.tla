------------------------------ MODULE Mempool ------------------------------
(***************************************************************************)
(* The transaction pool of one node (mempool/mempool.go) with its gossip   *)
(* to the peers (mempool/reactor.go).  CheckTx runs under proxyMtx and     *)
(* leaves a request with the application; the responses come back in order *)
(* and are handled without the lock; Update runs under the lock after the  *)
(* connection has been flushed, and rechecks what is left.  What is        *)
(* special to cross messages is the subject of module CrossShard.          *)
(***************************************************************************)
EXTENDS CList, FiniteSets

CONSTANTS Txs,         \* transactions, in the form they are submitted in
          RelayTxs,    \* those that a block holds in another form (Operate = 1)
          ConfigTxs,   \* those removeTxs leaves out of the recheck
          Peers,
          Configs,     \* the settings of config.Recheck and config.Broadcast considered
          PoolSize,    \* config.Size
          CacheSize,   \* config.CacheSize
          FlushInRecheck, \* the operator may flush while a recheck is running
          InitHeight, MaxHeight,
          MaxPush,     \* bounds on the elements ever pushed: without the gossip
          MaxPushGossip   \* and with it

ASSUME MempoolAssumption ==
  /\ RelayTxs \subseteq Txs /\ ConfigTxs \subseteq Txs
  /\ {PoolSize, CacheSize, MaxPush, MaxPushGossip} \subseteq Nat \ {0}
  /\ {InitHeight, MaxHeight} \subseteq Nat
  /\ FlushInRecheck \in BOOLEAN
  /\ Configs \subseteq [recheck : BOOLEAN, broadcast : BOOLEAN]

UnknownPeer == "rpc"
Senders == Peers \cup {UnknownPeer}

VARIABLES config,     \* as the node was started: [recheck, broadcast]
          pool,       \* txs, its elements' values, txsMap and txsBytes
          cache,      \* mapTxCache: oldest key first
          reqs,       \* requests the application has not answered
          cursor, end, rechecking,
          notified, txsAvailable,     \* notifiedTxsAvailable; the channel
          height,
          lock,       \* who holds proxyMtx across steps: "free", "commit" or "reap"
          at, dealt,  \* per peer: broadcastTxRoutine's next, and what was done with it
          peerHeight,
          woken, checked, remembered \* history: see the properties

gossip == <<at, dealt, peerHeight>>
vars == <<config, pool, cache, reqs, cursor, end, rechecking, notified, txsAvailable, height,
          lock, at, dealt, peerHeight, woken, checked, remembered>>

Seqs == INSTANCE SequencesExt

-----------------------------------------------------------------------------
(* The pool's content. *)

EmptyPool == [list |-> EmptyList, elem |-> <<>>, map |-> [t \in Txs |-> 0], bytes |-> 0]

Size(p) == Cardinality(Live(p.list))
TxOf(p, e) == p.elem[e].tx

\* addTx: every transaction counts for one byte; of the senders, those the gossip asks for.
AddTx(p, tx, sender) ==
  [list |-> PushBack(p.list),
   elem |-> Append(p.elem, [tx |-> tx, height |-> height, senders |-> {sender} \cap Peers]),
   map |-> [p.map EXCEPT ![tx] = Len(p.elem) + 1],
   bytes |-> p.bytes + 1]

\* The transaction's bytes are only given back when it leaves the map.
RemoveTx_ByMap(p, e) ==
  [list |-> Remove(p.list, e),
   elem |-> p.elem,
   map |-> [p.map EXCEPT ![TxOf(p, e)] = 0],
   bytes |-> IF p.map[TxOf(p, e)] = 0 THEN p.bytes ELSE p.bytes - 1]

\* removeTx: the map forgets the transaction, whichever element it named.
RemoveTx(p, e) ==
  [list |-> Remove(p.list, e),
   elem |-> p.elem,
   map |-> [p.map EXCEPT ![TxOf(p, e)] = 0],
   bytes |-> p.bytes - 1]

-----------------------------------------------------------------------------
(* The cache: least recently pushed first. *)

Cached(c, key) == \E i \in 1..Len(c) : c[i] = key
CacheRemove(c, key) == SelectSeq(c, LAMBDA k : k # key)

\* Push moves a known key to the back and makes room for a new one.
CachePush(c, key) ==
  LET kept == IF Cached(c, key) THEN CacheRemove(c, key)
              ELSE IF Len(c) >= CacheSize THEN Tail(c) ELSE c
  IN Append(kept, key)

\* The key under which a committed transaction is pushed: a relaytx of this shard is
\* in the block with Operate = 1, other bytes than the pool's.
Key(tx) == <<tx, 0>>
CommittedKey(tx) == <<tx, IF tx \in RelayTxs THEN 1 ELSE 0>>

-----------------------------------------------------------------------------
Init ==
  /\ config \in Configs
  /\ pool = EmptyPool /\ cache = <<>> /\ reqs = <<>>
  /\ cursor = 0 /\ end = 0 /\ rechecking = FALSE
  /\ notified = FALSE /\ txsAvailable = FALSE
  /\ height = InitHeight /\ lock = "free"
  /\ at = [p \in Peers |-> 0] /\ dealt = [p \in Peers |-> "no"]
  /\ peerHeight = [p \in Peers |-> InitHeight]
  /\ woken = FALSE /\ checked = {} /\ remembered = {}

\* The committed transactions the cache has held without a break.
Remember(c, txs) == {t \in remembered \cup txs : t \notin RelayTxs /\ Cached(c, Key(t))}

\* CheckTxWithInfo of a transaction the cache knows: the sender is recorded.
CheckTxSeen(tx, sender) ==
  /\ lock = "free"
  /\ Size(pool) < PoolSize
  /\ Cached(cache, Key(tx))
  /\ cache' = CachePush(cache, Key(tx))
  /\ pool' = IF pool.map[tx] = 0 THEN pool
             ELSE [pool EXCEPT !.elem[pool.map[tx]].senders = @ \cup ({sender} \cap Peers)]
  /\ UNCHANGED <<reqs, cursor, end, rechecking, notified, txsAvailable, height, lock,
                 gossip, woken, checked, remembered>>

\* CheckTxWithInfo of a new one: it stays in the cache when the account check refuses it.
CheckTxNew(tx, sender, accountOK) ==
  /\ lock = "free"
  /\ Size(pool) < PoolSize
  /\ Len(pool.elem) + Len(reqs) < (IF config.broadcast THEN MaxPushGossip ELSE MaxPush)
  /\ ~Cached(cache, Key(tx))
  /\ cache' = CachePush(cache, Key(tx))
  /\ reqs' = IF accountOK THEN Append(reqs, [tx |-> tx, first |-> TRUE, from |-> sender])
             ELSE reqs
  /\ remembered' = Remember(cache', {})
  /\ UNCHANGED <<pool, cursor, end, rechecking, notified, txsAvailable, height, lock,
                 gossip, woken, checked>>

\* notifyTxsAvailable: the channel holds one token.
Notify == notified' = TRUE /\ txsAvailable' = (txsAvailable \/ ~notified)
NoNotify == UNCHANGED <<notified, txsAvailable>>

-----------------------------------------------------------------------------
(* Responses, in the order of the requests. *)

\* reqResCb and resCbFirstTime, once globalCb has found no recheck in progress.
ResCbFirstTime(ok) ==
  LET r == Head(reqs) IN
  /\ reqs # <<>> /\ r.first /\ cursor = 0
  /\ reqs' = Tail(reqs)
  /\ \/ /\ ok
        /\ pool' = AddTx(pool, r.tx, r.from)
        /\ checked' = checked \cup {Len(pool.elem) + 1}
        /\ Notify
        /\ UNCHANGED <<cache, remembered>>
     \/ /\ ~ok
        /\ cache' = CacheRemove(cache, Key(r.tx))
        /\ remembered' = Remember(cache', {})
        /\ NoNotify
        /\ UNCHANGED <<pool, checked>>
  /\ UNCHANGED <<cursor, end, rechecking, height, lock, gossip, woken>>

\* The end of the recheck tells nobody about the transactions that are left.
ResCbRecheck_Silent(ok) ==
  LET r == Head(reqs)
      next == IF cursor = end THEN 0 ELSE pool.list.next[cursor] IN
  /\ reqs # <<>> /\ ~r.first /\ cursor # 0 /\ r.tx = TxOf(pool, cursor)
  /\ reqs' = Tail(reqs)
  /\ IF ok THEN checked' = checked \cup {cursor} /\ UNCHANGED <<pool, cache>>
     ELSE pool' = RemoveTx(pool, cursor) /\ cache' = CacheRemove(cache, Key(r.tx))
          /\ UNCHANGED checked
  /\ cursor' = next /\ rechecking' = (next # 0)
  /\ remembered' = Remember(cache', {})
  /\ NoNotify
  /\ UNCHANGED <<end, height, lock, gossip, woken>>

\* globalCb and resCbRecheck: the cursor's element is kept or removed and the cursor
\* goes on, to nil after recheckEnd.
ResCbRecheck(ok) ==
  LET r == Head(reqs)
      next == IF cursor = end THEN 0 ELSE pool.list.next[cursor] IN
  /\ reqs # <<>> /\ ~r.first /\ cursor # 0 /\ r.tx = TxOf(pool, cursor)
  /\ reqs' = Tail(reqs)
  /\ IF ok THEN checked' = checked \cup {cursor} /\ UNCHANGED <<pool, cache>>
     ELSE pool' = RemoveTx(pool, cursor) /\ cache' = CacheRemove(cache, Key(r.tx))
          /\ UNCHANGED checked
  /\ cursor' = next /\ rechecking' = (next # 0)
  /\ remembered' = Remember(cache', {})
  /\ IF next = 0 /\ Size(pool') > 0 THEN Notify ELSE NoNotify
  /\ UNCHANGED <<end, height, lock, gossip, woken>>

-----------------------------------------------------------------------------
(* The lock's other holders: Commit (state/execution.go) and the reaps. *)

Lock(who) ==
  /\ lock = "free" /\ who \in {"commit", "reap"}
  /\ who = "commit" => height < MaxHeight
  /\ lock' = who
  /\ UNCHANGED <<pool, cache, reqs, cursor, end, rechecking, notified, txsAvailable,
                 height, gossip, woken, checked, remembered>>

\* Only the element that txsMap names is removed.
RemoveTxs_ByMap(p, block) ==
  Seqs!FoldLeft(LAMBDA q, e : IF TxOf(q, e) \in block /\ q.map[TxOf(q, e)] = e
                              THEN RemoveTx(q, e) ELSE q,
                p, Walk(p.list))

\* removeTxs: what the block holds leaves the pool.
RemoveTxs(p, block) ==
  Seqs!FoldLeft(LAMBDA q, e : IF TxOf(q, e) \in block THEN RemoveTx(q, e) ELSE q,
                p, Walk(p.list))

\* The transactions to recheck, in the pool's order.
TxsLeft(p) ==
  SelectSeq([i \in 1..Len(Walk(p.list)) |-> TxOf(p, Walk(p.list)[i])],
            LAMBDA tx : tx \notin ConfigTxs)

\* recheckTxs that forgets the last of the transactions it was given.
RecheckTxs_Short(p) ==
  LET txs == TxsLeft(p) IN
  /\ rechecking' = TRUE /\ cursor' = p.list.head /\ end' = p.list.tail
  /\ reqs' = [i \in 1..(Len(txs) - 1) |-> [tx |-> txs[i], first |-> FALSE, from |-> UnknownPeer]]

\* The flag that reaps wait on is not raised.
RecheckTxs_NoFlag(p) ==
  LET txs == TxsLeft(p) IN
  /\ rechecking' = FALSE /\ cursor' = p.list.head /\ end' = p.list.tail
  /\ reqs' = [i \in 1..Len(txs) |-> [tx |-> txs[i], first |-> FALSE, from |-> UnknownPeer]]

\* The cursor starts at the back.
RecheckTxs_Back(p) ==
  LET txs == TxsLeft(p) IN
  /\ rechecking' = TRUE /\ cursor' = p.list.tail /\ end' = p.list.tail
  /\ reqs' = [i \in 1..Len(txs) |-> [tx |-> txs[i], first |-> FALSE, from |-> UnknownPeer]]

\* recheckTxs.
RecheckTxs(p) ==
  LET txs == TxsLeft(p) IN
  /\ rechecking' = TRUE /\ cursor' = p.list.head /\ end' = p.list.tail
  /\ reqs' = [i \in 1..Len(txs) |-> [tx |-> txs[i], first |-> FALSE, from |-> UnknownPeer]]

\* Update, once FlushAppConn has returned, with the block's transactions; then Unlock.
\* A pool created at height 0 never learns a height.
Update(block) ==
  /\ lock = "commit" /\ reqs = <<>>
  /\ height' = IF InitHeight > 0 THEN height + 1 ELSE height
  /\ cache' = Seqs!FoldLeft(LAMBDA c, tx : CachePush(c, CommittedKey(tx)), cache, block)
  /\ pool' = RemoveTxs(pool, Seqs!ToSet(block))
  /\ \/ /\ TxsLeft(pool') # <<>> /\ config.recheck
        /\ RecheckTxs(pool')
        /\ notified' = FALSE /\ UNCHANGED txsAvailable
     \/ /\ TxsLeft(pool') # <<>> /\ ~config.recheck
        /\ notified' = TRUE /\ txsAvailable' = TRUE
        /\ UNCHANGED <<reqs, cursor, end, rechecking>>
     \/ /\ TxsLeft(pool') = <<>>
        /\ notified' = FALSE
        /\ UNCHANGED <<txsAvailable, reqs, cursor, end, rechecking>>
  /\ lock' = "free"
  /\ woken' = FALSE /\ checked' = {}
  /\ remembered' = Remember(cache', Seqs!ToSet(block))
  /\ UNCHANGED gossip

\* ReapMaxBytesMaxGas and ReapMaxTxs read the pool and unlock it; they hold the lock
\* while they wait for the recheck.
Reap ==
  /\ lock = "reap" /\ ~rechecking
  /\ lock' = "free"
  /\ UNCHANGED <<pool, cache, reqs, cursor, end, rechecking, notified, txsAvailable,
                 height, gossip, woken, checked, remembered>>

\* Flush, the RPC's unsafe_flush_mempool.
Flush ==
  /\ lock = "free" /\ (FlushInRecheck \/ ~rechecking)
  /\ cache' = <<>>
  /\ pool' = [Seqs!FoldLeft(LAMBDA q, e : RemoveTx(q, e), pool, Walk(pool.list))
              EXCEPT !.map = [t \in Txs |-> 0], !.bytes = 0]
  /\ remembered' = {} /\ checked' = {}
  /\ UNCHANGED <<reqs, cursor, end, rechecking, notified, txsAvailable, height, lock,
                 gossip, woken>>

\* The consensus routine receives from TxsAvailable().
TakeTxsAvailable ==
  /\ txsAvailable
  /\ txsAvailable' = FALSE /\ woken' = TRUE
  /\ UNCHANGED <<pool, cache, reqs, cursor, end, rechecking, notified, height, lock,
                 gossip, checked, remembered>>

-----------------------------------------------------------------------------
(* broadcastTxRoutine, one per peer. *)

\* TxsWaitChan and TxsFront: next was nil.
GossipFront(p) ==
  /\ config.broadcast /\ at[p] = 0 /\ pool.list.head # 0
  /\ at' = [at EXCEPT ![p] = pool.list.head]
  /\ dealt' = [dealt EXCEPT ![p] = "no"]
  /\ UNCHANGED <<pool, cache, reqs, cursor, end, rechecking, notified, txsAvailable,
                 height, lock, peerHeight, woken, checked, remembered>>

\* A peer that lags at most one block gets the transaction, unless it sent it to us.
\* A Send that fails is tried again.
GossipSend(p) ==
  LET e == at[p] IN
  /\ e # 0 /\ dealt[p] = "no"
  /\ peerHeight[p] >= pool.elem[e].height - 1
  /\ dealt' = [dealt EXCEPT ![p] = IF p \in pool.elem[e].senders THEN "skipped" ELSE "sent"]
  /\ UNCHANGED <<pool, cache, reqs, cursor, end, rechecking, notified, txsAvailable,
                 height, lock, at, peerHeight, woken, checked, remembered>>

\* A removed element without a successor wakes nobody.
GossipNext_NoWake(p) ==
  LET e == at[p] IN
  /\ e # 0 /\ dealt[p] # "no"
  /\ pool.list.next[e] # 0
  /\ at' = [at EXCEPT ![p] = pool.list.next[e]]
  /\ dealt' = [dealt EXCEPT ![p] = "no"]
  /\ UNCHANGED <<pool, cache, reqs, cursor, end, rechecking, notified, txsAvailable,
                 height, lock, peerHeight, woken, checked, remembered>>

\* NextWaitChan is closed when a next element exists, or when the element was removed.
GossipNext(p) ==
  LET e == at[p] IN
  /\ e # 0 /\ dealt[p] # "no"
  /\ pool.list.next[e] # 0 \/ e \in pool.list.gone
  /\ at' = [at EXCEPT ![p] = pool.list.next[e]]
  /\ dealt' = [dealt EXCEPT ![p] = "no"]
  /\ UNCHANGED <<pool, cache, reqs, cursor, end, rechecking, notified, txsAvailable,
                 height, lock, peerHeight, woken, checked, remembered>>

\* The peer announces that it is a block further.
PeerAdvances(p) ==
  /\ config.broadcast /\ peerHeight[p] < height
  /\ peerHeight' = [peerHeight EXCEPT ![p] = @ + 1]
  /\ UNCHANGED <<pool, cache, reqs, cursor, end, rechecking, notified, txsAvailable,
                 height, lock, at, dealt, woken, checked, remembered>>

-----------------------------------------------------------------------------
\* Blocks of up to two transactions, in either order.
Blocks == {<<>>} \cup {<<t>> : t \in Txs} \cup {b \in Txs \X Txs : b[1] # b[2]}

Responses == \E ok \in BOOLEAN : ResCbFirstTime(ok) \/ ResCbRecheck(ok)
Unlocks == Reap \/ \E block \in Blocks : Update(block)
Gossip(p) == GossipFront(p) \/ GossipSend(p) \/ GossipNext(p) \/ PeerAdvances(p)

Next ==
  /\ \/ \E tx \in Txs, sender \in Senders :
          \/ CheckTxSeen(tx, sender)
          \/ \E accountOK \in BOOLEAN : CheckTxNew(tx, sender, accountOK)
     \/ Responses
     \/ \E who \in {"commit", "reap"} : Lock(who)
     \/ Unlocks
     \/ Flush
     \/ TakeTxsAvailable
     \/ \E p \in Peers : Gossip(p)
  /\ UNCHANGED config

Spec == Init /\ [][Next]_vars

\* The application answers, the holders of the lock run on, and so does each gossip
\* routine; a Send succeeds in the end, and a peer follows the chain.
FairSpec ==
  /\ Spec
  /\ WF_vars(Responses /\ UNCHANGED config)
  /\ WF_vars(Unlocks /\ UNCHANGED config)
  /\ \A p \in Peers : WF_vars(Gossip(p) /\ UNCHANGED config)

-----------------------------------------------------------------------------
(* Properties. *)

\* The list's pointers lead from the front over exactly the elements that were not
\* removed, in the order of their pushes, whatever Update, recheck and Flush removed
\* (clist.go PushBack, Remove).
ListIsWhole ==
  LET w == Walk(pool.list) IN
  /\ Seqs!ToSet(w) = Live(pool.list)
  /\ \A i \in 1..(Len(w) - 1) : w[i] < w[i + 1]

\* TxsBytes, which CheckTx compares with MaxTxsBytes, is the size of what is in the pool,
\* also when the cache lost a transaction that is then in the pool twice (addTx, removeTx).
BytesMatch == pool.bytes = Size(pool)

\* A pool with transactions has told consensus so at this height, unless the recheck is
\* still running; and what notifiedTxsAvailable records was received or is in the channel.
TxsAnnounced ==
  /\ TxsLeft(pool) # <<>> /\ ~rechecking => notified
  /\ notified => txsAvailable \/ woken

\* The pool's own records of what is in it agree: list, byte count and announcement.
PoolConsistent == ListIsWhole /\ BytesMatch /\ TxsAnnounced

\* Every response finds the cursor where it belongs: a recheck's response meets the
\* element it is about, still in the list, and a first response meets no recheck
\* ("this should never happen", reqResCb; the panics of resCbRecheck and clist.Remove).
ResponsesInStep ==
  reqs # <<>> =>
    LET r == Head(reqs) IN
    IF r.first THEN cursor = 0
    ELSE /\ cursor # 0
         /\ r.tx = TxOf(pool, cursor)
         /\ cursor \notin pool.list.gone /\ ~FalseRemove(pool.list, cursor)

\* What a reap may take was found valid after the last block: by a first check or by the
\* recheck it waits for (Update, ReapMaxBytesMaxGas).
ReapedAreChecked ==
  config.recheck /\ ~rechecking =>
    \A e \in Live(pool.list) : e \in checked \/ TxOf(pool, e) \in ConfigTxs

\* A committed transaction does not come back into the pool, or on the way to it, as
\* long as the cache holds it (Update, removeTxs, CheckTxWithInfo).
CommittedStaysOut ==
  /\ \A e \in Live(pool.list) : TxOf(pool, e) \notin remembered
  /\ \A i \in 1..Len(reqs) : reqs[i].tx \notin remembered

\* What the application said of a transaction, and what a block did to it, is not mixed up by
\* the checks, rechecks and updates that go on meanwhile.
ChecksHold == ResponsesInStep /\ ReapedAreChecked /\ CommittedStaysOut

\* Commit and the reaps, who wait with the lock held, for the connection to be flushed and
\* for the recheck to end, both get on and release it.
LockReleased == (lock # "free") ~> (lock = "free")

\* Every transaction that is pushed, and so is ahead of the routine, is sent to the peer if
\* it stays in the pool, unless the peer sent it itself
\* (broadcastTxRoutine over a list that changes under it).
EveryTxGossiped ==
  \A p \in Peers, e \in 1..MaxPushGossip :
    LET here == config.broadcast /\ e \in Live(pool.list)
        done == dealt[p] = "sent" \/ (dealt[p] = "skipped" /\ p \in pool.elem[e].senders)
    IN (here /\ at[p] <= e) ~> (~here \/ (at[p] = e /\ done))

=============================================================================
