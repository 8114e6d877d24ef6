------------------------------ MODULE FastSync ------------------------------
(***************************************************************************)
(* Fast sync of a node that is behind: the block pool with one requester   *)
(* goroutine per height (blockchain/pool.go) and the routine that verifies *)
(* and applies the blocks (blockchain/reactor.go), against peers that      *)
(* answer late, not at all, or with blocks that do not verify.  The node   *)
(* starts at height 1 without a snapshot.                                  *)
(***************************************************************************)
EXTENDS Integers, Sequences, FiniteSets

CONSTANTS Peers,
          Tip,            \* peer -> the height it reports
          Sends,          \* peer -> the blocks it may answer with
          Faulty,         \* peers that may not answer
          Returns,        \* peers that connect again
          MaxPerPeer,     \* maxPendingRequestsPerPeer
          MaxRequesters,  \* maxTotalRequesters, also maxPendingRequests
          Hasty,          \* a peer may be back before all routines have noticed that it left
          MaxFaults,      \* bound: lost requests, late answers and lost connections
          None

\* What verification tells of a block: whether it is the chain's block of its height,
\* and whether its LastCommit is the chain's.
Block == [self : BOOLEAN, commit : BOOLEAN]

\* What the pool keeps of a peer: the height it reported, the requests it has not answered,
\* whether it timed out.
BpPeer == [height : Nat, pending : Int, timedOut : BOOLEAN]

ASSUME FastSyncAssumption ==
  /\ Tip \in [Peers -> Nat \ {0}]
  /\ Sends \in [Peers -> (SUBSET Block) \ {{}}]
  /\ Faulty \subseteq Peers /\ Returns \subseteq Peers
  /\ {MaxPerPeer, MaxRequesters} \subseteq Nat \ {0} /\ MaxFaults \in Nat
  /\ Hasty \in BOOLEAN
  /\ IsFiniteSet(Peers)
  /\ None \notin Peers \cup Block \cup BpPeer

VARIABLES pool,     \* BlockPool: height, requesters, peers, maxPeerHeight, numPending
          conn,     \* the peers of the switch
          requests, \* in requestsCh, on their way to a peer, or answered and on their way back
          errors,   \* errorsCh
          peeked,   \* the two blocks poolRoutine is working on
          store,    \* the saved blocks: whether each is the chain's
          phase,    \* "sync", then "consensus"
          faults

vars == <<pool, conn, requests, errors, peeked, store, phase, faults>>

\* Nobody has more blocks than this.
MaxTip == CHOOSE h \in {Tip[p] : p \in Peers} : \A p \in Peers : Tip[p] <= h

-----------------------------------------------------------------------------
(* BlockPool. *)

NewRequester == [pc |-> "pick", picked |-> None, peer |-> None, block |-> None, redo |-> None]

Heights == DOMAIN pool.requesters
Has(b, p) == b.peers[p] # None

\* updateMaxPeerHeight
MaxHeight(peers) ==
  LET hs == {0} \cup {peers[p].height : p \in {q \in Peers : peers[q] # None}}
  IN CHOOSE h \in hs : \A k \in hs : k <= h

\* redo: a redo that the requester has not read yet is not repeated.
Redo(r, S) == IF r.peer \in S /\ r.redo = None THEN [r EXCEPT !.redo = r.peer] ELSE r

\* The highest height stays that of a peer who left.
RemovePeers_KeepsMax(b, S) ==
  [b EXCEPT !.requesters = [h \in DOMAIN b.requesters |-> Redo(b.requesters[h], S)],
            !.peers = [p \in Peers |-> IF p \in S THEN None ELSE b.peers[p]]]

\* Only the requesters that have no block yet are told.
RemovePeers_KeepsBlocks(b, S) ==
  LET rest == [p \in Peers |-> IF p \in S THEN None ELSE b.peers[p]] IN
  [b EXCEPT !.requesters = [h \in DOMAIN b.requesters |->
                             IF b.requesters[h].block # None THEN b.requesters[h]
                             ELSE Redo(b.requesters[h], S)],
            !.peers = rest,
            !.maxPeerHeight = IF \E p \in S : Has(b, p) /\ b.peers[p].height = @
                              THEN MaxHeight(rest) ELSE @]

\* The requesters of a peer that left are deleted.
RemovePeers_Deletes(b, S) ==
  LET rest == [p \in Peers |-> IF p \in S THEN None ELSE b.peers[p]] IN
  [b EXCEPT !.requesters = [h \in {k \in DOMAIN b.requesters : b.requesters[k].peer \notin S}
                             |-> b.requesters[h]],
            !.peers = rest, !.maxPeerHeight = MaxHeight(rest)]

\* removePeer for each of S: every requester that waits for such a peer, or has its
\* block, is told to ask another one.
RemovePeers(b, S) ==
  LET rest == [p \in Peers |-> IF p \in S THEN None ELSE b.peers[p]] IN
  [b EXCEPT !.requesters = [h \in DOMAIN b.requesters |-> Redo(b.requesters[h], S)],
            !.peers = rest,
            !.maxPeerHeight = IF \E p \in S : Has(b, p) /\ b.peers[p].height = @
                              THEN MaxHeight(rest) ELSE @]

\* The requesters that are busy with peer p.
Busy(p) == {h \in Heights : p \in {pool.requesters[h].picked, pool.requesters[h].peer}}

Init ==
  /\ pool = [height |-> 1, requesters |-> [h \in {} |-> NewRequester],
             peers |-> [p \in Peers |-> None], maxPeerHeight |-> 0, numPending |-> 0]
  /\ conn = Peers
  /\ requests = {} /\ errors = {}
  /\ peeked = None /\ store = <<>> /\ phase = "sync" /\ faults = 0

\* A peer that reports again is a new peer.
StatusResponse_Anew(p) ==
  /\ phase = "sync" /\ p \in conn
  /\ Has(pool, p) \/ Hasty \/ Busy(p) = {}
  /\ pool' = [pool EXCEPT
        !.peers[p] = [height |-> Tip[p], pending |-> 0, timedOut |-> FALSE],
        !.maxPeerHeight = IF Tip[p] > @ THEN Tip[p] ELSE @]
  /\ UNCHANGED <<conn, requests, errors, peeked, store, phase, faults>>

\* bcStatusResponseMessage, SetPeerHeight.
StatusResponse(p) ==
  /\ phase = "sync" /\ p \in conn
  /\ Has(pool, p) \/ Hasty \/ Busy(p) = {}
  /\ pool' = [pool EXCEPT
        !.peers[p] = IF Has(pool, p) THEN [@ EXCEPT !.height = Tip[p]]
                     ELSE [height |-> Tip[p], pending |-> 0, timedOut |-> FALSE],
        !.maxPeerHeight = IF Tip[p] > @ THEN Tip[p] ELSE @]
  /\ UNCHANGED <<conn, requests, errors, peeked, store, phase, faults>>

\* makeRequestersRoutine, makeNextRequester.
MakeNextRequester ==
  LET next == pool.height + Cardinality(Heights) IN
  /\ phase = "sync"
  /\ pool.numPending < MaxRequesters /\ Cardinality(Heights) < MaxRequesters
  /\ next <= pool.maxPeerHeight
  /\ pool' = [pool EXCEPT !.numPending = @ + 1,
        !.requesters = [h \in Heights \cup {next} |->
                          IF h = next THEN NewRequester ELSE pool.requesters[h]]]
  /\ UNCHANGED <<conn, requests, errors, peeked, store, phase, faults>>

-----------------------------------------------------------------------------
(* The requester of height h: requestRoutine. *)

TimedOut == {p \in Peers : Has(pool, p) /\ pool.peers[p].timedOut}
Available(h) ==
  {p \in Peers \ TimedOut : /\ Has(pool, p)
                            /\ pool.peers[p].pending < MaxPerPeer
                            /\ pool.peers[p].height >= h}

\* pickIncrAvailablePeer: peers that timed out are removed as the loop meets them,
\* in the random order of the map.
PickPeer(h) ==
  /\ phase = "sync" /\ pool.requesters[h].pc = "pick"
  /\ \E S \in SUBSET TimedOut :
       \/ \E p \in Available(h) :
            pool' = [RemovePeers(pool, S) EXCEPT
                       !.peers[p].pending = @ + 1,
                       !.requesters[h] = [@ EXCEPT !.pc = "assign", !.picked = p]]
       \/ /\ Available(h) = {} /\ S = TimedOut /\ S # {}
          /\ pool' = RemovePeers(pool, S)
  /\ UNCHANGED <<conn, requests, errors, peeked, store, phase, faults>>

\* The pick is recorded, outside the pool's lock, and the request is queued.
AssignPeer(h) ==
  LET p == pool.requesters[h].picked IN
  /\ phase = "sync" /\ pool.requesters[h].pc = "assign"
  /\ pool' = [pool EXCEPT !.requesters[h].pc = "wait", !.requesters[h].picked = None,
                          !.requesters[h].peer = p]
  /\ requests' = requests \cup {<<h, p>>}
  /\ UNCHANGED <<conn, errors, peeked, store, phase, faults>>

\* Whoever left, the request is made again.
ReadRedo_Any(h) ==
  LET r == pool.requesters[h] IN
  /\ phase = "sync" /\ r.pc = "wait" /\ r.redo # None
  /\ pool' = [pool EXCEPT !.requesters[h] = NewRequester]
  /\ UNCHANGED <<conn, requests, errors, peeked, store, phase, faults>>

\* A redo is read: the requester forgets its block and starts again, unless the redo
\* is about another peer.
ReadRedo(h) ==
  LET r == pool.requesters[h] IN
  /\ phase = "sync" /\ r.pc = "wait" /\ r.redo # None
  /\ pool' = IF r.redo = r.peer
             THEN [pool EXCEPT !.requesters[h] = NewRequester,
                               !.numPending = IF r.block # None THEN @ + 1 ELSE @]
             ELSE [pool EXCEPT !.requesters[h].redo = None]
  /\ UNCHANGED <<conn, requests, errors, peeked, store, phase, faults>>

-----------------------------------------------------------------------------
(* The peers and the network. *)

\* The peer has gone, or the request finds its queue full or is lost with the answer.
RequestLost(h, p) ==
  /\ phase = "sync" /\ <<h, p>> \in requests
  /\ p \in conn \ Faulty => faults < MaxFaults
  /\ requests' = requests \ {<<h, p>>}
  /\ faults' = IF p \in conn \ Faulty THEN faults + 1 ELSE faults
  /\ UNCHANGED <<pool, conn, errors, peeked, store, phase>>

\* decrPending, of a peer that is still there.
DecrPending(b, p) == IF Has(b, p) THEN [b.peers EXCEPT ![p].pending = @ - 1] ELSE b.peers

\* bcBlockResponseMessage, AddBlock, setBlock: the block is taken from the peer that was
\* asked, once; anyone else is reported.
AddBlock(h, p, b) ==
  LET expected == h \in Heights /\ pool.requesters[h].block = None
                                /\ pool.requesters[h].peer = p IN
  /\ phase = "sync" /\ <<h, p>> \in requests /\ p \in conn
  /\ requests' = requests \ {<<h, p>>}
  /\ \/ /\ expected
        /\ pool' = [pool EXCEPT !.requesters[h].block = b, !.numPending = @ - 1,
                                !.peers = DecrPending(pool, p)]
        /\ UNCHANGED errors
     \/ /\ h \in Heights /\ ~expected
        /\ errors' = errors \cup {p}
        /\ UNCHANGED pool
     \/ h \notin Heights /\ UNCHANGED <<pool, errors>>
  /\ UNCHANGED <<conn, peeked, store, phase, faults>>

\* What the peer was asked and we have not heard of.
UnderWay(p) == {r \in requests : r[2] = p}

\* A timeout of p would be early: a request is under way, or is about to be made.
Early(p) == UnderWay(p) # {} \/ \E h \in Heights : pool.requesters[h].picked = p

\* onTimeout, or removeTimedoutPeers finding the peer too slow: also when its answer is
\* only late.
OnTimeout(p) ==
  /\ phase = "sync" /\ Has(pool, p) /\ pool.peers[p].pending > 0 /\ ~pool.peers[p].timedOut
  /\ Early(p) => faults < MaxFaults
  /\ pool' = [pool EXCEPT !.peers[p].timedOut = TRUE]
  /\ errors' = errors \cup {p}
  /\ faults' = IF Early(p) THEN faults + 1 ELSE faults
  /\ UNCHANGED <<conn, requests, peeked, store, phase>>

\* removeTimedoutPeers, when as many requesters are out as may be.
RemoveTimedoutPeers ==
  /\ phase = "sync" /\ TimedOut # {}
  /\ pool.numPending >= MaxRequesters \/ Cardinality(Heights) >= MaxRequesters
  /\ pool' = RemovePeers(pool, TimedOut)
  /\ UNCHANGED <<conn, requests, errors, peeked, store, phase, faults>>

\* The reactor's RemovePeer, for a peer that is stopped or whose connection is lost: what
\* is still in requestsCh stays there.
Leave(S) ==
  /\ conn' = conn \ S
  /\ pool' = RemovePeers(pool, S)
  /\ \E lost \in SUBSET {r \in requests : r[2] \in S} : requests' = requests \ lost

\* errorsCh is read: StopPeerForError.
StopPeer(p) ==
  /\ phase = "sync" /\ p \in errors
  /\ errors' = errors \ {p}
  /\ \/ p \in conn /\ Leave({p})
     \/ p \notin conn /\ UNCHANGED <<conn, pool, requests>>
  /\ UNCHANGED <<peeked, store, phase, faults>>

Disconnect(p) ==
  /\ phase = "sync" /\ p \in conn /\ faults < MaxFaults
  /\ Leave({p})
  /\ faults' = faults + 1
  /\ UNCHANGED <<errors, peeked, store, phase>>

Connect(p) ==
  /\ phase = "sync" /\ p \in Returns \ conn
  /\ Hasty \/ (Busy(p) = {} /\ UnderWay(p) = {})
  /\ conn' = conn \cup {p}
  /\ UNCHANGED <<pool, requests, errors, peeked, store, phase, faults>>

-----------------------------------------------------------------------------
(* poolRoutine. *)

\* PeekTwoBlocks.
PeekTwoBlocks ==
  LET h == pool.height IN
  /\ phase = "sync" /\ peeked = None
  /\ {h, h + 1} \subseteq Heights
  /\ pool.requesters[h].block # None /\ pool.requesters[h + 1].block # None
  /\ peeked' = [first |-> pool.requesters[h].block, second |-> pool.requesters[h + 1].block]
  /\ UNCHANGED <<pool, conn, requests, errors, store, phase, faults>>

\* Stop and delete of requester h.  Its goroutine may still read a redo, and a pick that it
\* has made still becomes a request.
Dropped(h) ==
  LET r == pool.requesters[h] IN
  /\ \E n \in IF r.redo # None /\ r.redo = r.peer /\ r.block # None THEN {0, 1} ELSE {0} :
       pool' = [pool EXCEPT !.height = @ + 1, !.numPending = @ + n,
                  !.requesters = [k \in Heights \ {h} |-> pool.requesters[k]]]
  /\ requests' = IF r.pc = "assign" THEN requests \cup {<<h, r.picked>>} ELSE requests

\* The block that is saved is looked up again after the verification.
PopRequest_Reread ==
  /\ phase = "sync" /\ peeked # None
  /\ peeked.first.self /\ peeked.second.commit
  /\ Dropped(pool.height)
  /\ store' = Append(store, pool.requesters[pool.height].block \in {b \in Block : b.self})
  /\ peeked' = None
  /\ UNCHANGED <<conn, errors, phase, faults>>

\* VerifyCommit holds: PopRequest, SaveBlock and ApplyBlock of the block that was peeked,
\* whatever has become of its requester.
PopRequest ==
  /\ phase = "sync" /\ peeked # None
  /\ peeked.first.self /\ peeked.second.commit
  /\ Dropped(pool.height)
  /\ store' = Append(store, peeked.first.self)
  /\ peeked' = None
  /\ UNCHANGED <<conn, errors, phase, faults>>

\* VerifyCommit fails: the peers that the two requesters have by now are removed from
\* the pool and stopped.
RedoRequests ==
  LET h == pool.height
      culprits == {pool.requesters[h].peer, pool.requesters[h + 1].peer} \ {None} IN
  /\ phase = "sync" /\ peeked # None
  /\ ~(peeked.first.self /\ peeked.second.commit)
  /\ Leave(culprits)
  /\ peeked' = None
  /\ UNCHANGED <<errors, store, phase, faults>>

\* IsCaughtUp, at a tick of switchToConsensusTicker.
SwitchToConsensus ==
  /\ phase = "sync" /\ peeked = None
  /\ \E p \in Peers : Has(pool, p)
  /\ pool.maxPeerHeight = 0 \/ pool.height >= pool.maxPeerHeight - 1
  /\ phase' = "consensus"
  /\ UNCHANGED <<pool, conn, requests, errors, peeked, store, faults>>

-----------------------------------------------------------------------------
Requester(h) == h \in Heights /\ (PickPeer(h) \/ AssignPeer(h) \/ ReadRedo(h))
PoolRoutine == PeekTwoBlocks \/ PopRequest \/ RedoRequests \/ SwitchToConsensus
Network(p) == \E r \in UnderWay(p) : \/ \E b \in Sends[p] : AddBlock(r[1], p, b)
                                     \/ RequestLost(r[1], p)

Next ==
  \/ \E p \in Peers : \/ StatusResponse(p) \/ OnTimeout(p) \/ StopPeer(p)
                      \/ Disconnect(p) \/ Connect(p) \/ Network(p)
  \/ MakeNextRequester
  \/ \E h \in Heights : Requester(h)
  \/ RemoveTimedoutPeers
  \/ PoolRoutine

Spec == Init /\ [][Next]_vars

\* Every goroutine goes on; connected peers send their status and answer; a peer that is
\* silent times out; those of Returns connect again.
Fairness ==
  /\ WF_vars(MakeNextRequester) /\ WF_vars(RemoveTimedoutPeers) /\ WF_vars(PoolRoutine)
  /\ \A h \in 1..MaxTip : WF_vars(Requester(h))
  /\ \A p \in Peers :
       /\ WF_vars(StatusResponse(p)) /\ WF_vars(StopPeer(p)) /\ WF_vars(Connect(p))
       /\ WF_vars(Network(p))
       /\ WF_vars(OnTimeout(p) /\ ~Early(p))
FairSpec == Spec /\ Fairness

-----------------------------------------------------------------------------
(* Properties. *)

\* Only blocks of the chain are saved and applied, whatever the peers send and whatever
\* becomes of the requesters between the peek and the save (poolRoutine).
OnlyChainBlocks == \A i \in 1..Len(store) : store[i]

\* The requesters are those of the heights from pool.height on, without a gap (a gap would
\* never be filled), and the two blocks that poolRoutine works on still have theirs, which
\* PopRequest and RedoRequest rely on.
RequestersInOrder ==
  /\ Heights = pool.height .. (pool.height + Cardinality(Heights) - 1)
  /\ peeked # None => Cardinality(Heights) >= 2

\* numPending counts every request that waits for a peer or a block: no more than
\* maxPendingRequests are ever out.
PendingCovers ==
  Cardinality({h \in Heights : pool.requesters[h].block = None}) <= pool.numPending

\* A peer's count covers the requesters that wait for it, so that a block brings it to
\* zero at the earliest when it was the last (decrPending).
PendingCounted ==
  \A p \in Peers : Has(pool, p) =>
    Cardinality({h \in Busy(p) : pool.requesters[h].block = None}) <= pool.peers[p].pending

\* maxPeerHeight, against which IsCaughtUp compares, is the height of a present peer: one
\* who reported more and left does not keep the node from switching to consensus.
MaxIsReported == pool.maxPeerHeight = MaxHeight(pool.peers)

\* What the pool counts and caches about its requesters and peers agrees with them.
PoolAccounted == RequestersInOrder /\ PendingCovers /\ PendingCounted /\ MaxIsReported

\* The requester of h waits for a peer who was removed before it had recorded its pick:
\* nobody tells it to redo.
Orphaned(h) ==
  LET r == pool.requesters[h] IN
  \/ r.pc = "assign" /\ ~Has(pool, r.picked)
  \/ r.pc = "wait" /\ r.block = None /\ r.redo # r.peer /\ ~Has(pool, r.peer)

\* The node gets to consensus, unless a requester is orphaned.
SyncEnds == <>(phase = "consensus" \/ \E h \in Heights : Orphaned(h))
=============================================================================
