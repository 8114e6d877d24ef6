--------------------------- MODULE FastSyncProofs ---------------------------
(***************************************************************************)
(* What the block pool counts and caches agrees with its requesters and    *)
(* peers, and only the chain's blocks are saved, for any number of peers,  *)
(* any heights and limits, and any faults.                                 *)
(***************************************************************************)
EXTENDS FastSync, FiniteSetTheorems, WellFoundedInduction, TLAPS

(* Leaves that need arithmetic, records or sequences name SMT. *)
USE ZenonT(60)

----------------------------------------------------------------------------
(* Types *)

PeerOrNone == Peers \cup {None}

Requesting == [pc : {"pick", "assign", "wait"}, picked : PeerOrNone, peer : PeerOrNone,
               block : Block \cup {None}, redo : PeerOrNone]

\* The requesters of some heights.
RequesterMaps == UNION {[S -> Requesting] : S \in SUBSET Nat}

BlockPool == [height : Nat, requesters : RequesterMaps, peers : [Peers -> BpPeer \cup {None}],
              maxPeerHeight : Nat, numPending : Int]

(* The inductive invariant, about a value b of the pool *)

\* What requestRoutine knows at each of its three points.
InStep(r) ==
    /\ r.pc = "pick" => r.picked = None /\ r.peer = None /\ r.block = None
    /\ r.pc = "assign" => r.picked \in Peers /\ r.peer = None /\ r.block = None
    /\ r.pc = "wait" => r.picked = None /\ r.peer \in Peers

\* The requesters without a block, and those of them that are busy with peer p.
Waiting(b) == {h \in DOMAIN b.requesters : b.requesters[h].block = None}
WaitingFor(b, p) == {h \in Waiting(b) : p \in {b.requesters[h].picked, b.requesters[h].peer}}

Contiguous(b) == \E n \in Nat : DOMAIN b.requesters = b.height .. (b.height + n - 1)

Counted(b) ==
    ~Hasty => \A p \in Peers : Has(b, p) =>
                Cardinality(WaitingFor(b, p)) <= b.peers[p].pending

Reported(b) ==
    /\ \A p \in Peers : Has(b, p) => b.peers[p].height = Tip[p]
    /\ b.maxPeerHeight = MaxHeight(b.peers)

PoolInv(b) ==
    /\ b \in BlockPool
    /\ \A h \in DOMAIN b.requesters : InStep(b.requesters[h])
    /\ Contiguous(b)
    /\ Cardinality(Waiting(b)) <= b.numPending
    /\ Counted(b)
    /\ Reported(b)

PeekedInv ==
    /\ peeked \in [first : Block, second : Block] \cup {None}
    /\ peeked # None => {pool.height, pool.height + 1} \subseteq Heights

IInv ==
    /\ PoolInv(pool)
    /\ PeekedInv
    /\ store \in Seq(BOOLEAN) /\ OnlyChainBlocks

----------------------------------------------------------------------------
(* Induction over the naturals: every set of naturals has a least member. *)

LEMMA Least ==
    ASSUME NEW T, T \subseteq Nat, T # {}
    PROVE  \E x \in T : \A y \in T : x <= y
<1>1. PICK R : R = {ss \in Nat \X Nat : ss[1] < ss[2]}
  OBVIOUS
<1>2. IsWellFoundedOn(R, Nat)
  BY <1>1, NatLessThanWellFounded DEF OpToRel
<1>3. PICK x \in T : \A y \in T : ~ (<<y, x>> \in R)
  BY <1>2, WFMin
<1>4. ASSUME NEW y \in T  PROVE x <= y
  <2>1. ~(<<y, x>> \in {ss \in Nat \X Nat : ss[1] < ss[2]})
    BY <1>1, <1>3
  <2>2. ~(y < x)
    BY <2>1
  <2>. QED  BY SMTT(30), <2>2
<1>. QED  BY <1>4

LEMMA Induction ==
    ASSUME NEW P, 0 \in P, \A n \in Nat : n \in P => n + 1 \in P
    PROVE  Nat \subseteq P
<1>. SUFFICES ASSUME ~(Nat \subseteq P)  PROVE FALSE
  OBVIOUS
<1>1. PICK x \in Nat \ P : \A y \in Nat \ P : x <= y
  BY Least
<1>2. x # 0 /\ x - 1 \in Nat /\ x - 1 \in P
  BY SMTT(30), <1>1
<1>. QED  BY SMTT(30), <1>1, <1>2

(* Of any peers one reports the highest height. *)
LEMMA HighestPeer ==
    ASSUME NEW S \in SUBSET Peers, S # {}
    PROVE  \E p \in S : \A q \in S : Tip[q] <= Tip[p]
<1>. DEFINE Top(T) == \E p \in T : \A q \in T : Tip[q] <= Tip[p]
            P == {n \in Nat : \A T \in SUBSET Peers : Cardinality(T) = n + 1 => Top(T)}
<1>1. \A T \in SUBSET Peers : IsFiniteSet(T) /\ Cardinality(T) \in Nat
  BY FastSyncAssumption, FS_Subset, FS_CardinalityType
<1>2. ASSUME NEW n \in Nat, NEW T \in SUBSET Peers, Cardinality(T) = n + 1,
             \A U \in SUBSET Peers : n > 0 /\ Cardinality(U) = n => Top(U)
      PROVE  Top(T)
  <2>1. PICK p \in T : TRUE
    BY SMTT(30), <1>1, <1>2, FS_EmptySet
  <2>2. T \ {p} \in SUBSET Peers /\ Cardinality(T \ {p}) = n
    <3>1. Cardinality(T \ {p}) = IF p \in T THEN Cardinality(T) - 1 ELSE Cardinality(T)
      BY <1>1, FS_RemoveElement
    <3>. QED  BY SMTT(30), <1>2, <2>1, <3>1
  <2>3. \A q \in Peers : Tip[q] \in Nat
    BY FastSyncAssumption
  <2>4. CASE n = 0
    <3>1. T \ {p} = {}
      BY <1>1, <2>2, <2>4, FS_EmptySet
    <3>. QED  BY SMTT(30), <2>1, <2>3, <3>1
  <2>5. CASE n > 0
    <3>1. PICK u \in T \ {p} : \A q \in T \ {p} : Tip[q] <= Tip[u]
      BY <1>2, <2>2, <2>5
    <3>2. CASE Tip[p] <= Tip[u]
      BY <2>1, <3>1, <3>2
    <3>3. CASE Tip[u] <= Tip[p]
      <4>1. ASSUME NEW q \in T  PROVE Tip[q] <= Tip[p]
        BY SMTT(30), <2>1, <2>3, <3>1, <3>3
      <4>. QED  BY <2>1, <4>1
    <3>. QED  BY SMTT(30), <2>1, <2>3, <3>1, <3>2, <3>3
  <2>. QED  BY SMTT(30), <2>4, <2>5
<1>3. 0 \in P
  BY SMTT(30), <1>2
<1>4. ASSUME NEW n \in Nat, n \in P  PROVE n + 1 \in P
  <2>1. \A U \in SUBSET Peers : Cardinality(U) = n + 1 => Top(U)
    BY <1>4
  <2>2. ASSUME NEW T \in SUBSET Peers, Cardinality(T) = (n + 1) + 1  PROVE Top(T)
    BY SMTT(30), <1>2, <2>1, <2>2
  <2>. QED  BY SMTT(30), <2>2
<1>5. Nat \subseteq P
  BY <1>3, <1>4, Induction
<1>6. Cardinality(S) - 1 \in Nat /\ Cardinality(S) = (Cardinality(S) - 1) + 1
  BY SMTT(30), <1>1, FS_EmptySet
<1>7. Cardinality(S) - 1 \in P
  BY <1>5, <1>6
<1>. QED  BY <1>6, <1>7

----------------------------------------------------------------------------
(* updateMaxPeerHeight *)

IsHighest(m, f) ==
    /\ m \in Nat
    /\ \A p \in Peers : f[p] # None => Tip[p] <= m
    /\ m = 0 \/ \E p \in Peers : f[p] # None /\ Tip[p] = m

TipsOf(f) == \A p \in Peers : f[p] # None => f[p].height = Tip[p]

(* What updateMaxPeerHeight computes is the highest height of a peer, or 0. *)
LEMMA MaxHeightIs ==
    ASSUME NEW f, TipsOf(f), NEW m
    PROVE  m = MaxHeight(f) <=> IsHighest(m, f)
<1>. DEFINE there == {q \in Peers : f[q] # None}
            hs == {0} \cup {f[p].height : p \in there}
<1>1. \A p \in Peers : Tip[p] \in Nat
  BY FastSyncAssumption
<1>2. hs = {0} \cup {Tip[p] : p \in there}
  BY DEF TipsOf
<1>3. \E h \in hs : \A k \in hs : k <= h
  <2>1. CASE there = {}
    BY SMTT(30), <1>2, <2>1
  <2>2. CASE there # {}
    <3>1. PICK p \in there : \A q \in there : Tip[q] <= Tip[p]
      BY <2>2, HighestPeer
    <3>2. Tip[p] \in hs
      BY <1>2, <3>1
    <3>3. ASSUME NEW k \in hs  PROVE k <= Tip[p]
      BY SMTT(30), <1>1, <1>2, <3>1
    <3>. QED  BY <3>2, <3>3
  <2>. QED  BY <2>1, <2>2
<1>4. MaxHeight(f) = CHOOSE h \in hs : \A k \in hs : k <= h
  BY DEF MaxHeight
<1>. HIDE DEF hs
<1>5. MaxHeight(f) \in hs /\ \A k \in hs : k <= MaxHeight(f)
  BY <1>3, <1>4
<1>6. IsHighest(MaxHeight(f), f)
  BY SMTT(30), <1>1, <1>2, <1>5 DEF IsHighest
<1>7. ASSUME IsHighest(m, f)  PROVE m = MaxHeight(f)
  BY SMTT(30), <1>1, <1>6, <1>7 DEF IsHighest
<1>. QED  BY <1>6, <1>7

----------------------------------------------------------------------------
(* Requesters and their number *)

LEMMA Typed ==
    ASSUME NEW b \in BlockPool
    PROVE  /\ b.height \in Nat /\ b.maxPeerHeight \in Nat /\ b.numPending \in Int
           /\ DOMAIN b.requesters \in SUBSET Nat
           /\ b.requesters \in [DOMAIN b.requesters -> Requesting]
           /\ b.peers \in [Peers -> BpPeer \cup {None}]
<1>1. b.requesters \in RequesterMaps
  BY DEF BlockPool
<1>2. PICK S \in SUBSET Nat : b.requesters \in [S -> Requesting]
  BY <1>1 DEF RequesterMaps
<1>. QED  BY <1>2 DEF BlockPool

LEMMA IsMap ==
    ASSUME NEW S \in SUBSET Nat, NEW f \in [S -> Requesting]
    PROVE  f \in RequesterMaps
  BY DEF RequesterMaps

LEMMA FiniteHeights ==
    ASSUME NEW b \in BlockPool, Contiguous(b)
    PROVE  /\ IsFiniteSet(DOMAIN b.requesters)
           /\ Cardinality(DOMAIN b.requesters) \in Nat
           /\ DOMAIN b.requesters
                = b.height .. (b.height + Cardinality(DOMAIN b.requesters) - 1)
           /\ IsFiniteSet(Waiting(b)) /\ Cardinality(Waiting(b)) \in Nat
           /\ \A p : IsFiniteSet(WaitingFor(b, p)) /\ Cardinality(WaitingFor(b, p)) \in Nat
<1>1. PICK n \in Nat : DOMAIN b.requesters = b.height .. (b.height + n - 1)
  BY DEF Contiguous
<1>2. PICK k \in Int, l \in Int : k = b.height /\ l = b.height + n - 1
  BY SMTT(30), Typed
<1>a. IsFiniteSet(k .. l) /\ Cardinality(k .. l) = IF k > l THEN 0 ELSE l - k + 1
  BY FS_Interval
<1>b. l = k + n - 1
  BY <1>2
<1>c. Cardinality(k .. l) = n
  BY SMTT(30), <1>a, <1>b
<1>3. IsFiniteSet(DOMAIN b.requesters) /\ Cardinality(DOMAIN b.requesters) = n
  BY <1>1, <1>2, <1>a, <1>c
<1>4. IsFiniteSet(Waiting(b)) /\ \A p : IsFiniteSet(WaitingFor(b, p))
  BY <1>3, FS_Subset DEF Waiting, WaitingFor
<1>. QED  BY <1>1, <1>3, <1>4, FS_CardinalityType

----------------------------------------------------------------------------
(* The operations of the pool keep its invariant. *)

(* removePeer: requesters keep their state but for the redo, and the highest  *)
(* height is that of the peers who stay.                                      *)
LEMMA RemovePeersKeeps ==
    ASSUME NEW b, PoolInv(b), NEW S \in SUBSET Peers
    PROVE  /\ PoolInv(RemovePeers(b, S))
           /\ RemovePeers(b, S).height = b.height
           /\ DOMAIN RemovePeers(b, S).requesters = DOMAIN b.requesters
<1>. DEFINE rest == [p \in Peers |-> IF p \in S THEN None ELSE b.peers[p]]
            reqs == [h \in DOMAIN b.requesters |-> Redo(b.requesters[h], S)]
            max == IF \E p \in S : Has(b, p) /\ b.peers[p].height = b.maxPeerHeight
                   THEN MaxHeight(rest) ELSE b.maxPeerHeight
<1>0. b \in BlockPool /\ Contiguous(b)
  BY DEF PoolInv
<1>. PICK c : c = RemovePeers(b, S)
  OBVIOUS
<1>1. c = [b EXCEPT !.requesters = reqs, !.peers = rest, !.maxPeerHeight = max]
  BY DEF RemovePeers
<1>2. /\ c.height = b.height /\ c.numPending = b.numPending
      /\ c.requesters = reqs /\ c.peers = rest /\ c.maxPeerHeight = max
  BY <1>0, <1>1 DEF BlockPool
<1>3. ASSUME NEW r \in Requesting
      PROVE  /\ Redo(r, S) \in Requesting
             /\ Redo(r, S).pc = r.pc /\ Redo(r, S).picked = r.picked
             /\ Redo(r, S).peer = r.peer /\ Redo(r, S).block = r.block
  BY DEF Redo, Requesting, PeerOrNone
<1>4. \A h \in DOMAIN b.requesters : b.requesters[h] \in Requesting
  BY <1>0, Typed
<1>5. /\ DOMAIN c.requesters = DOMAIN b.requesters
      /\ c.requesters \in [DOMAIN b.requesters -> Requesting]
  BY <1>2, <1>3, <1>4
<1>6. \A h \in DOMAIN c.requesters :
         /\ c.requesters[h].pc = b.requesters[h].pc
         /\ c.requesters[h].picked = b.requesters[h].picked
         /\ c.requesters[h].peer = b.requesters[h].peer
         /\ c.requesters[h].block = b.requesters[h].block
  BY SMTT(30), <1>2, <1>3, <1>4
<1>7. Waiting(c) = Waiting(b) /\ \A p : WaitingFor(c, p) = WaitingFor(b, p)
  BY <1>5, <1>6 DEF Waiting, WaitingFor
<1>8. TipsOf(rest) /\ TipsOf(b.peers)
  BY DEF TipsOf, PoolInv, Reported, Has
<1>9. max = MaxHeight(rest)
  <2>1. CASE \E p \in S : Has(b, p) /\ b.peers[p].height = b.maxPeerHeight
    BY <2>1
  <2>2. CASE ~\E p \in S : Has(b, p) /\ b.peers[p].height = b.maxPeerHeight
    <3>1. IsHighest(b.maxPeerHeight, b.peers)
      BY <1>8, MaxHeightIs DEF PoolInv, Reported
    <3>2. IsHighest(b.maxPeerHeight, rest)
      BY <1>8, <2>2, <3>1 DEF IsHighest, Has, TipsOf
    <3>. QED  BY <1>8, <2>2, <3>2, MaxHeightIs
  <2>. QED  BY <2>1, <2>2
<1>10. max \in Nat
  BY <1>8, <1>9, MaxHeightIs DEF IsHighest
<1>11. c \in BlockPool
  <2>1. rest \in [Peers -> BpPeer \cup {None}]
    BY <1>0, Typed
  <2>2. c.requesters \in RequesterMaps
    BY <1>0, <1>5, IsMap, Typed
  <2>. QED  BY <1>0, <1>1, <1>2, <1>10, <2>1, <2>2 DEF BlockPool
<1>12. \A h \in DOMAIN c.requesters : InStep(c.requesters[h])
  BY SMTT(30), <1>5, <1>6 DEF InStep, PoolInv
<1>13. Contiguous(c)
  BY <1>0, <1>2, <1>5 DEF Contiguous
<1>14. Cardinality(Waiting(c)) <= c.numPending
  BY <1>2, <1>7 DEF PoolInv
<1>15. Counted(c)
  BY <1>2, <1>7 DEF Counted, PoolInv, Has
<1>16. Reported(c)
  BY <1>2, <1>8, <1>9 DEF Reported, Has, TipsOf
<1>. QED  BY <1>2, <1>5, <1>11, <1>12, <1>13, <1>14, <1>15, <1>16 DEF PoolInv

(* What a requester adds to the counts of the pool and of peer p. *)
Waits(r) == IF r.block = None THEN 1 ELSE 0
WaitsFor(r, p) == IF r.block = None /\ p \in {r.picked, r.peer} THEN 1 ELSE 0

LEMMA Replace ==
    ASSUME NEW A, NEW B, NEW x, IsFiniteSet(A), A \ {x} = B \ {x}
    PROVE  /\ IsFiniteSet(B)
           /\ Cardinality(B) = Cardinality(A) - (IF x \in A THEN 1 ELSE 0)
                                              + (IF x \in B THEN 1 ELSE 0)
<1>1. IsFiniteSet(A \ {x}) /\ Cardinality(A \ {x}) \in Nat /\ Cardinality(A) \in Nat
  BY FS_RemoveElement, FS_CardinalityType
<1>2. Cardinality(A \ {x}) = IF x \in A THEN Cardinality(A) - 1 ELSE Cardinality(A)
  BY FS_RemoveElement
<1>3. IsFiniteSet(B)
  <2>1. IsFiniteSet((B \ {x}) \cup {x})
    BY <1>1, FS_AddElement
  <2>. QED  BY SMTT(30), <2>1, FS_Subset
<1>4. Cardinality(B \ {x}) = IF x \in B THEN Cardinality(B) - 1 ELSE Cardinality(B)
  BY <1>3, FS_RemoveElement
<1>5. Cardinality(B) \in Nat
  BY <1>3, FS_CardinalityType
<1>. QED  BY SMTT(30), <1>1, <1>2, <1>3, <1>4, <1>5

WithRequester(b, h, r, f, n) ==
    [b EXCEPT !.requesters = [b.requesters EXCEPT ![h] = r], !.peers = f, !.numPending = n]

\* The same peers as in b, whose counts, as that of the pool, change by what requester h
\* gives and takes.
Pays(b, h, r, f, n) ==
    /\ f \in [Peers -> BpPeer \cup {None}]
    /\ \A p \in Peers :
          /\ f[p] = None <=> b.peers[p] = None
          /\ f[p] # None =>
               /\ f[p].height = b.peers[p].height
               /\ f[p].pending >= b.peers[p].pending - WaitsFor(b.requesters[h], p)
                                                    + WaitsFor(r, p)
    /\ n \in Int /\ n >= b.numPending - Waits(b.requesters[h]) + Waits(r)

(* One requester changes, and with it the counts by at least as much. *)
LEMMA OneRequester ==
    ASSUME NEW b, PoolInv(b), NEW h \in DOMAIN b.requesters,
           NEW r \in Requesting, InStep(r), NEW f, NEW n, Pays(b, h, r, f, n),
           NEW c, c = WithRequester(b, h, r, f, n)
    PROVE  PoolInv(c) /\ c.height = b.height /\ DOMAIN c.requesters = DOMAIN b.requesters
<1>0. b \in BlockPool /\ Contiguous(b)
  BY DEF PoolInv
<1>1. /\ c.height = b.height /\ c.maxPeerHeight = b.maxPeerHeight
      /\ c.requesters = [b.requesters EXCEPT ![h] = r]
      /\ c.peers = f /\ c.numPending = n
  BY <1>0 DEF BlockPool, WithRequester
<1>2. /\ b.requesters \in [DOMAIN b.requesters -> Requesting]
      /\ DOMAIN b.requesters \in SUBSET Nat
      /\ b.peers \in [Peers -> BpPeer \cup {None}]
      /\ b.numPending \in Int
  BY <1>0, Typed
<1>3. /\ DOMAIN c.requesters = DOMAIN b.requesters
      /\ c.requesters \in [DOMAIN b.requesters -> Requesting]
      /\ \A k \in DOMAIN b.requesters :
            c.requesters[k] = IF k = h THEN r ELSE b.requesters[k]
  BY <1>1, <1>2
<1>4. c \in BlockPool
  <2>1. c.requesters \in RequesterMaps
    BY <1>2, <1>3, IsMap
  <2>. QED  BY <1>0, <1>1, <2>1 DEF BlockPool, WithRequester, Pays
<1>5. \A k \in DOMAIN c.requesters : InStep(c.requesters[k])
  BY <1>3 DEF PoolInv
<1>6. Contiguous(c)
  BY <1>0, <1>1, <1>3 DEF Contiguous
<1>7. Cardinality(Waiting(c)) <= c.numPending
  <2>1. Waiting(b) \ {h} = Waiting(c) \ {h}
    BY <1>3 DEF Waiting
  <2>2. /\ h \in Waiting(b) <=> b.requesters[h].block = None
        /\ h \in Waiting(c) <=> r.block = None
    BY <1>3 DEF Waiting
  <2>3. IsFiniteSet(Waiting(b)) /\ Cardinality(Waiting(b)) \in Nat
    BY <1>0, FiniteHeights
  <2>4. Cardinality(Waiting(c)) = Cardinality(Waiting(b)) - Waits(b.requesters[h]) + Waits(r)
    BY SMTT(30), <2>1, <2>2, <2>3, Replace DEF Waits
  <2>5. Waits(b.requesters[h]) \in Int /\ Waits(r) \in Int
    BY SMTT(30) DEF Waits
  <2>6. Cardinality(Waiting(b)) <= b.numPending
    BY DEF PoolInv
  <2>. QED  BY SMTT(30), <1>1, <1>2, <2>3, <2>4, <2>5, <2>6 DEF Pays
<1>8. ASSUME ~Hasty, NEW p \in Peers, Has(c, p)
      PROVE  Cardinality(WaitingFor(c, p)) <= c.peers[p].pending
  <2>1. WaitingFor(b, p) \ {h} = WaitingFor(c, p) \ {h}
    BY <1>3 DEF Waiting, WaitingFor
  <2>2. /\ h \in WaitingFor(b, p)
             <=> /\ b.requesters[h].block = None
                 /\ p \in {b.requesters[h].picked, b.requesters[h].peer}
        /\ h \in WaitingFor(c, p) <=> r.block = None /\ p \in {r.picked, r.peer}
    BY <1>3 DEF Waiting, WaitingFor
  <2>3. IsFiniteSet(WaitingFor(b, p)) /\ Cardinality(WaitingFor(b, p)) \in Nat
    BY <1>0, FiniteHeights
  <2>4. Cardinality(WaitingFor(c, p))
          = Cardinality(WaitingFor(b, p)) - WaitsFor(b.requesters[h], p) + WaitsFor(r, p)
    BY SMTT(30), <2>1, <2>2, <2>3, Replace DEF WaitsFor
  <2>5. WaitsFor(b.requesters[h], p) \in Int /\ WaitsFor(r, p) \in Int
    BY SMTT(30) DEF WaitsFor
  <2>6. f[p] # None /\ b.peers[p] # None
    BY <1>1, <1>8 DEF Has, Pays
  <2>7. Cardinality(WaitingFor(b, p)) <= b.peers[p].pending
    BY <1>8, <2>6 DEF PoolInv, Counted, Has
  <2>8. f[p].pending \in Int /\ b.peers[p].pending \in Int
    BY <1>2, <2>6 DEF BpPeer, Pays
  <2>9. f[p].pending >= b.peers[p].pending - WaitsFor(b.requesters[h], p) + WaitsFor(r, p)
    BY <2>6 DEF Pays
  <2>. QED  BY SMTT(30), <1>1, <2>3, <2>4, <2>5, <2>7, <2>8, <2>9
<1>9. Reported(c)
  <2>1. TipsOf(b.peers) /\ TipsOf(f)
    BY DEF TipsOf, PoolInv, Reported, Has, Pays
  <2>2. IsHighest(b.maxPeerHeight, b.peers)
    BY <2>1, MaxHeightIs DEF PoolInv, Reported
  <2>3. IsHighest(b.maxPeerHeight, f)
    BY <2>2 DEF IsHighest, Pays
  <2>. QED  BY SMTT(30), <1>1, <2>1, <2>3, MaxHeightIs DEF Reported, TipsOf, Has
<1>. QED  BY <1>1, <1>3, <1>4, <1>5, <1>6, <1>7, <1>8, <1>9 DEF PoolInv, Counted

WithPeers(b, f) == [b EXCEPT !.peers = f, !.maxPeerHeight = MaxHeight(f)]

\* A peer that is new in f has no requester waiting for it.
Joins(b, f) ==
    /\ f \in [Peers -> BpPeer \cup {None}] /\ TipsOf(f)
    /\ \A p \in Peers : ~Hasty /\ f[p] # None =>
          \/ b.peers[p] # None /\ f[p].pending = b.peers[p].pending
          \/ WaitingFor(b, p) = {} /\ f[p].pending = 0

(* The peers change and the requesters do not. *)
LEMMA PeersOnly ==
    ASSUME NEW b, PoolInv(b), NEW f, Joins(b, f), NEW c, c = WithPeers(b, f)
    PROVE  PoolInv(c) /\ c.height = b.height /\ DOMAIN c.requesters = DOMAIN b.requesters
<1>0. b \in BlockPool
  BY DEF PoolInv
<1>1. /\ c.height = b.height /\ c.numPending = b.numPending /\ c.requesters = b.requesters
      /\ c.peers = f /\ c.maxPeerHeight = MaxHeight(f)
  BY <1>0 DEF BlockPool, WithPeers
<1>2. MaxHeight(f) \in Nat
  BY MaxHeightIs DEF IsHighest, Joins
<1>3. c \in BlockPool
  BY <1>0, <1>1, <1>2 DEF BlockPool, WithPeers, Joins
<1>4. Waiting(c) = Waiting(b) /\ \A p : WaitingFor(c, p) = WaitingFor(b, p)
  BY <1>1 DEF Waiting, WaitingFor
<1>5. ASSUME ~Hasty, NEW p \in Peers, Has(c, p)
      PROVE  Cardinality(WaitingFor(c, p)) <= c.peers[p].pending
  <2>1. CASE b.peers[p] # None /\ f[p].pending = b.peers[p].pending
    BY <1>1, <1>4, <1>5, <2>1 DEF PoolInv, Counted, Has
  <2>2. CASE WaitingFor(b, p) = {} /\ f[p].pending = 0
    BY SMTT(30), <1>1, <1>4, <2>2, FS_EmptySet
  <2>. QED  BY <1>1, <1>5, <2>1, <2>2 DEF Has, Joins
<1>6. Reported(c)
  BY <1>1 DEF Reported, TipsOf, Has, Joins
<1>7. Contiguous(c)
  BY <1>1 DEF PoolInv, Contiguous
<1>. QED  BY <1>1, <1>3, <1>4, <1>5, <1>6, <1>7 DEF PoolInv, Counted

(* What peeked needs of the pool. *)
SameHeights(b, c) == c.height = b.height /\ DOMAIN b.requesters \subseteq DOMAIN c.requesters

LEMMA StatusResponseKeeps ==
    ASSUME PoolInv(pool), NEW p \in Peers, StatusResponse(p)
    PROVE  PoolInv(pool') /\ SameHeights(pool, pool')
<1>. DEFINE new == IF Has(pool, p) THEN [pool.peers[p] EXCEPT !.height = Tip[p]]
                   ELSE [height |-> Tip[p], pending |-> 0, timedOut |-> FALSE]
            f == [pool.peers EXCEPT ![p] = new]
            m == IF Tip[p] > pool.maxPeerHeight THEN Tip[p] ELSE pool.maxPeerHeight
<1>0. pool \in BlockPool /\ pool.peers \in [Peers -> BpPeer \cup {None}]
  BY Typed DEF PoolInv
<1>1. Tip[p] \in Nat /\ \A q \in Peers : Tip[q] \in Nat
  BY FastSyncAssumption
<1>2. /\ new \in BpPeer /\ new # None /\ new.height = Tip[p]
      /\ IF Has(pool, p) THEN new.pending = pool.peers[p].pending ELSE new.pending = 0
  <2>1. new \in BpPeer /\ new.height = Tip[p]
        /\ IF Has(pool, p) THEN new.pending = pool.peers[p].pending ELSE new.pending = 0
    BY SMTT(30), <1>0, <1>1 DEF BpPeer, Has
  <2>. QED  BY <2>1, FastSyncAssumption
<1>. HIDE DEF new
<1>3. f \in [Peers -> BpPeer \cup {None}]
  BY <1>0, <1>2
<1>4. TipsOf(f) /\ TipsOf(pool.peers)
  BY <1>0, <1>2 DEF TipsOf, PoolInv, Reported, Has
<1>5. m = MaxHeight(f)
  <2>1. IsHighest(pool.maxPeerHeight, pool.peers)
    BY <1>4, MaxHeightIs DEF PoolInv, Reported
  <2>2. IsHighest(m, f)
    BY SMTT(30), <1>0, <1>1, <1>2, <2>1 DEF IsHighest
  <2>. QED  BY <1>4, <2>2, MaxHeightIs
<1>6. pool' = [pool EXCEPT !.peers = f, !.maxPeerHeight = m]
  BY <1>0 DEF StatusResponse, new, BlockPool
<1>7. ASSUME NEW q \in Peers, ~Hasty, f[q] # None
      PROVE  \/ pool.peers[q] # None /\ f[q].pending = pool.peers[q].pending
             \/ WaitingFor(pool, q) = {} /\ f[q].pending = 0
  <2>1. CASE q # p
    BY <1>0, <1>7, <2>1
  <2>2. CASE q = p /\ Has(pool, p)
    BY <1>0, <1>2, <2>2 DEF Has
  <2>3. CASE q = p /\ ~Has(pool, p)
    <3>1. Busy(p) = {}
      BY <1>7, <2>3 DEF StatusResponse
    <3>2. WaitingFor(pool, p) = {}
      BY <3>1 DEF Busy, WaitingFor, Waiting, Heights
    <3>. QED  BY <1>0, <1>2, <2>3, <3>2
  <2>. QED  BY <2>1, <2>2, <2>3
<1>8. pool' = WithPeers(pool, f) /\ Joins(pool, f)
  BY <1>3, <1>4, <1>5, <1>6, <1>7 DEF WithPeers, Joins
<1>. HIDE DEF f
<1>9. /\ PoolInv(pool') /\ pool'.height = pool.height
      /\ DOMAIN pool'.requesters = DOMAIN pool.requesters
  BY <1>8, PeersOnly
<1>. QED  BY <1>9 DEF SameHeights

LEMMA OnTimeoutKeeps ==
    ASSUME PoolInv(pool), NEW p \in Peers, OnTimeout(p)
    PROVE  PoolInv(pool') /\ SameHeights(pool, pool')
<1>. DEFINE new == [pool.peers[p] EXCEPT !.timedOut = TRUE]
            f == [pool.peers EXCEPT ![p] = new]
<1>0. /\ pool \in BlockPool /\ pool.peers \in [Peers -> BpPeer \cup {None}]
      /\ pool.peers[p] \in BpPeer
  BY Typed DEF PoolInv, OnTimeout, Has
<1>1. /\ new \in BpPeer /\ new.height = pool.peers[p].height
      /\ new.pending = pool.peers[p].pending
  BY <1>0 DEF BpPeer
<1>2. new # None /\ pool.peers[p] # None
  BY <1>0, <1>1, FastSyncAssumption
<1>. HIDE DEF new
<1>3. f \in [Peers -> BpPeer \cup {None}]
  BY <1>0, <1>1
<1>4. TipsOf(f) /\ TipsOf(pool.peers)
  BY <1>0, <1>1, <1>2 DEF TipsOf, PoolInv, Reported, Has
<1>5. pool.maxPeerHeight = MaxHeight(f)
  <2>1. IsHighest(pool.maxPeerHeight, pool.peers)
    BY <1>4, MaxHeightIs DEF PoolInv, Reported
  <2>2. IsHighest(pool.maxPeerHeight, f)
    BY <1>0, <1>2, <2>1 DEF IsHighest
  <2>. QED  BY <1>4, <2>2, MaxHeightIs
<1>6. pool' = [pool EXCEPT !.peers = f, !.maxPeerHeight = pool.maxPeerHeight]
  BY <1>0 DEF OnTimeout, new, BlockPool
<1>7. \A q \in Peers : f[q] # None =>
         pool.peers[q] # None /\ f[q].pending = pool.peers[q].pending
  BY <1>0, <1>1, <1>2
<1>8. pool' = WithPeers(pool, f) /\ Joins(pool, f)
  BY <1>3, <1>4, <1>5, <1>6, <1>7 DEF WithPeers, Joins
<1>. HIDE DEF f
<1>9. /\ PoolInv(pool') /\ pool'.height = pool.height
      /\ DOMAIN pool'.requesters = DOMAIN pool.requesters
  BY <1>8, PeersOnly
<1>. QED  BY <1>9 DEF SameHeights

LEMMA MakeNextRequesterKeeps ==
    ASSUME PoolInv(pool), MakeNextRequester
    PROVE  PoolInv(pool') /\ SameHeights(pool, pool')
<1>. DEFINE D == DOMAIN pool.requesters
            next == pool.height + Cardinality(D)
            reqs == [h \in D \cup {next} |-> IF h = next THEN NewRequester ELSE pool.requesters[h]]
<1>0. pool \in BlockPool /\ Contiguous(pool)
  BY DEF PoolInv
<1>1. /\ pool.height \in Nat /\ pool.numPending \in Int /\ D \in SUBSET Nat
      /\ pool.requesters \in [D -> Requesting]
  BY <1>0, Typed
<1>2. /\ Cardinality(D) \in Nat /\ D = pool.height .. (pool.height + Cardinality(D) - 1)
      /\ IsFiniteSet(Waiting(pool)) /\ Cardinality(Waiting(pool)) \in Nat
  BY <1>0, FiniteHeights
<1>3. next \in Nat /\ next \notin D
      /\ D \cup {next} = pool.height .. (pool.height + (Cardinality(D) + 1) - 1)
  BY SMTT(30), <1>1, <1>2
<1>4. pool' = [pool EXCEPT !.numPending = pool.numPending + 1, !.requesters = reqs]
  BY <1>0 DEF MakeNextRequester, Heights, BlockPool
<1>5. NewRequester \in Requesting /\ InStep(NewRequester) /\ NewRequester.block = None
      /\ NewRequester.picked = None /\ NewRequester.peer = None
  BY DEF NewRequester, Requesting, InStep, PeerOrNone
<1>. PICK c : c = pool'
  OBVIOUS
<1>6. /\ c.height = pool.height /\ c.numPending = pool.numPending + 1 /\ c.requesters = reqs
      /\ c.peers = pool.peers /\ c.maxPeerHeight = pool.maxPeerHeight
  BY <1>0, <1>4 DEF BlockPool
<1>7. /\ DOMAIN c.requesters = D \cup {next}
      /\ c.requesters \in [D \cup {next} -> Requesting]
      /\ \A h \in D : c.requesters[h] = pool.requesters[h]
      /\ c.requesters[next] = NewRequester
  BY SMTT(30), <1>1, <1>3, <1>5, <1>6
<1>. HIDE DEF next, reqs
<1>8. c \in BlockPool
  <2>1. c.requesters \in RequesterMaps
    BY <1>1, <1>3, <1>7, IsMap
  <2>2. reqs \in RequesterMaps /\ pool.numPending + 1 \in Int
    BY SMTT(30), <1>1, <1>6, <2>1
  <2>. QED  BY <1>0, <1>4, <2>2 DEF BlockPool
<1>9. \A h \in DOMAIN c.requesters : InStep(c.requesters[h])
  BY <1>5, <1>7 DEF PoolInv
<1>10. Contiguous(c)
  <2>1. Cardinality(D) + 1 \in Nat
    BY SMTT(30), <1>2
  <2>2. DOMAIN c.requesters = c.height .. (c.height + (Cardinality(D) + 1) - 1)
    BY <1>3, <1>6, <1>7
  <2>. QED  BY <2>1, <2>2 DEF Contiguous
<1>11. Cardinality(Waiting(c)) <= c.numPending
  <2>1. Waiting(c) = Waiting(pool) \cup {next}
    BY <1>5, <1>7 DEF Waiting
  <2>a. Cardinality(Waiting(c)) = IF next \in Waiting(pool) THEN Cardinality(Waiting(pool))
                                  ELSE Cardinality(Waiting(pool)) + 1
    BY <1>2, <2>1, FS_AddElement
  <2>2. Cardinality(Waiting(c)) <= Cardinality(Waiting(pool)) + 1
    BY SMTT(30), <1>2, <2>a
  <2>3. Cardinality(Waiting(pool)) <= pool.numPending
    BY DEF PoolInv
  <2>4. Cardinality(Waiting(c)) \in Nat
    BY <1>2, <2>1, FS_AddElement, FS_CardinalityType
  <2>. QED  BY SMTT(30), <1>1, <1>2, <1>6, <2>2, <2>3, <2>4
<1>12. \A p \in Peers : WaitingFor(c, p) = WaitingFor(pool, p)
  BY SMTT(30), <1>3, <1>5, <1>7, FastSyncAssumption DEF WaitingFor, Waiting
<1>13. Counted(c) /\ Reported(c)
  BY <1>6, <1>12 DEF Counted, Reported, PoolInv, Has
<1>. QED  BY <1>6, <1>7, <1>8, <1>9, <1>10, <1>11, <1>13 DEF PoolInv, SameHeights

LEMMA PickPeerKeeps ==
    ASSUME PoolInv(pool), NEW h \in Heights, PickPeer(h)
    PROVE  PoolInv(pool') /\ SameHeights(pool, pool')
<1>1. PICK S \in SUBSET TimedOut :
         \/ \E p \in Available(h) :
               pool' = [RemovePeers(pool, S) EXCEPT
                          !.peers[p].pending = @ + 1,
                          !.requesters[h] = [@ EXCEPT !.pc = "assign", !.picked = p]]
         \/ pool' = RemovePeers(pool, S)
  BY DEF PickPeer
<1>2. S \in SUBSET Peers
  BY DEF TimedOut
<1>3. PICK b : b = RemovePeers(pool, S)
  OBVIOUS
<1>4. PoolInv(b) /\ b.height = pool.height /\ DOMAIN b.requesters = DOMAIN pool.requesters
  BY <1>2, <1>3, RemovePeersKeeps
<1>5. CASE pool' = RemovePeers(pool, S)
  BY <1>3, <1>4, <1>5 DEF SameHeights
<1>6. ASSUME NEW p \in Available(h),
             pool' = [RemovePeers(pool, S) EXCEPT
                        !.peers[p].pending = @ + 1,
                        !.requesters[h] = [@ EXCEPT !.pc = "assign", !.picked = p]]
      PROVE  PoolInv(pool') /\ SameHeights(pool, pool')
  <2>. DEFINE r == [b.requesters[h] EXCEPT !.pc = "assign", !.picked = p]
              f == [b.peers EXCEPT ![p] = [b.peers[p] EXCEPT !.pending = @ + 1]]
  <2>0. b \in BlockPool /\ pool \in BlockPool
    BY <1>4 DEF PoolInv
  <2>1. /\ b.requesters \in [DOMAIN b.requesters -> Requesting]
        /\ b.peers \in [Peers -> BpPeer \cup {None}] /\ b.numPending \in Int
        /\ h \in DOMAIN b.requesters /\ pool.requesters \in [DOMAIN pool.requesters -> Requesting]
    BY <1>4, <2>0, Typed DEF Heights
  <2>2. b.requesters[h].pc = "pick"
    <3>1. b.requesters[h] = Redo(pool.requesters[h], S)
      BY <1>3, <2>0, <2>1, <1>4 DEF RemovePeers, BlockPool
    <3>2. pool.requesters[h] \in Requesting /\ pool.requesters[h].pc = "pick"
      BY <2>1 DEF PickPeer, Heights
    <3>. QED  BY <3>1, <3>2 DEF Redo, Requesting
  <2>3. p \in Peers /\ p \notin S /\ Has(pool, p)
    BY DEF Available, TimedOut
  <2>4. b.peers[p] = pool.peers[p] /\ b.peers[p] # None
    BY <1>3, <2>0, <2>3 DEF RemovePeers, BlockPool, Has
  <2>5. b.peers[p] \in BpPeer
    BY <2>1, <2>3, <2>4
  <2>6. b.requesters[h] \in Requesting /\ InStep(b.requesters[h])
    BY <1>4, <2>1 DEF PoolInv
  <2>7. /\ r \in Requesting /\ InStep(r) /\ Waits(r) = Waits(b.requesters[h])
        /\ r.picked = p /\ r.peer = None /\ r.block = None
    BY <2>2, <2>3, <2>6 DEF Requesting, InStep, Waits, PeerOrNone
  <2>8. [b.peers[p] EXCEPT !.pending = @ + 1] \in BpPeer
    BY SMTT(30), <2>5 DEF BpPeer
  <2>9. /\ f \in [Peers -> BpPeer \cup {None}]
        /\ f[p] # None /\ f[p].pending = b.peers[p].pending + 1 /\ f[p].height = b.peers[p].height
        /\ \A q \in Peers \ {p} : f[q] = b.peers[q]
    <3>1. [b.peers[p] EXCEPT !.pending = @ + 1] # None
      BY <2>8, FastSyncAssumption
    <3>. QED  BY <2>1, <2>3, <2>5, <2>8, <3>1 DEF BpPeer
  <2>10. pool' = WithRequester(b, h, r, f, b.numPending)
    <3>1. pool' = [b EXCEPT !.peers[p].pending = @ + 1, !.requesters[h] = r]
      BY <1>3, <1>6
    <3>2. pool' = [b EXCEPT !.peers = f, !.requesters[h] = r]
      BY <3>1, <2>0 DEF BlockPool
    <3>. HIDE DEF f, r
    <3>3. pool' = [b EXCEPT !.peers = f, !.requesters = [b.requesters EXCEPT ![h] = r]]
      BY <3>2, <2>0, <2>1 DEF BlockPool
    <3>. QED  BY <3>3, <2>0 DEF WithRequester, BlockPool
  <2>. HIDE DEF r, f
  <2>11. \A q \in Peers : /\ WaitsFor(r, q) = IF q = p THEN 1 ELSE 0
                          /\ WaitsFor(b.requesters[h], q) = 0
    BY <2>2, <2>3, <2>6, <2>7, FastSyncAssumption DEF WaitsFor, InStep
  <2>12. \A q \in Peers : f[q] # None => b.peers[q].pending \in Int /\ f[q].pending \in Int
    BY <2>1, <2>4, <2>5, <2>9 DEF BpPeer
  <2>13. Waits(r) \in Int
    BY SMTT(30) DEF Waits
  <2>14. ASSUME NEW q \in Peers
         PROVE  /\ f[q] = None <=> b.peers[q] = None
                /\ f[q] # None =>
                     /\ f[q].height = b.peers[q].height
                     /\ f[q].pending >= b.peers[q].pending - WaitsFor(b.requesters[h], q)
                                                          + WaitsFor(r, q)
    <3>1. CASE q = p
      BY SMTT(30), <2>4, <2>9, <2>11, <2>12, <3>1
    <3>2. CASE q # p
      BY SMTT(30), <2>9, <2>11, <2>12, <3>2
    <3>. QED  BY <3>1, <3>2
  <2>15. Pays(b, h, r, f, b.numPending)
    BY SMTT(30), <2>1, <2>7, <2>9, <2>13, <2>14 DEF Pays
  <2>16. PoolInv(pool') /\ pool'.height = b.height /\ DOMAIN pool'.requesters = DOMAIN b.requesters
    BY SMTT(30), <1>4, <2>1, <2>7, <2>10, <2>15, OneRequester
  <2>. QED  BY <1>4, <2>16 DEF SameHeights
<1>. QED  BY <1>1, <1>5, <1>6

(* A step of one requester that leaves the peers alone. *)
LEMMA RequesterOnly ==
    ASSUME NEW b, PoolInv(b), NEW h \in DOMAIN b.requesters,
           NEW r \in Requesting, InStep(r),
           \A p \in Peers : WaitsFor(r, p) <= WaitsFor(b.requesters[h], p),
           NEW n \in Int, n >= b.numPending - Waits(b.requesters[h]) + Waits(r),
           NEW c, c = [b EXCEPT !.requesters[h] = r, !.numPending = n]
    PROVE  PoolInv(c) /\ SameHeights(b, c)
<1>1. b \in BlockPool /\ b.peers \in [Peers -> BpPeer \cup {None}]
  BY Typed DEF PoolInv
<1>2. c = WithRequester(b, h, r, b.peers, n)
  BY <1>1 DEF WithRequester, BlockPool
<1>3. ASSUME NEW p \in Peers, b.peers[p] # None
      PROVE  b.peers[p].pending >= b.peers[p].pending - WaitsFor(b.requesters[h], p)
                                                      + WaitsFor(r, p)
  <2>1. b.peers[p].pending \in Int
    BY <1>1, <1>3 DEF BpPeer
  <2>2. WaitsFor(b.requesters[h], p) \in Int /\ WaitsFor(r, p) \in Int
    BY SMTT(30) DEF WaitsFor
  <2>. QED  BY SMTT(30), <2>1, <2>2
<1>4. Pays(b, h, r, b.peers, n)
  BY <1>1, <1>3 DEF Pays
<1>5. PoolInv(c) /\ c.height = b.height /\ DOMAIN c.requesters = DOMAIN b.requesters
  BY SMTT(30), <1>2, <1>4, OneRequester
<1>. QED  BY <1>5 DEF SameHeights

LEMMA AssignPeerKeeps ==
    ASSUME PoolInv(pool), NEW h \in Heights, AssignPeer(h)
    PROVE  PoolInv(pool') /\ SameHeights(pool, pool')
<1>. DEFINE o == pool.requesters[h]
            r == [o EXCEPT !.pc = "wait", !.picked = None, !.peer = o.picked]
<1>1. /\ pool \in BlockPool /\ pool.numPending \in Int /\ o \in Requesting /\ InStep(o)
      /\ h \in DOMAIN pool.requesters /\ o.pc = "assign"
  BY Typed DEF PoolInv, Heights, AssignPeer
<1>2. pool' = [pool EXCEPT !.requesters[h] = r, !.numPending = pool.numPending]
  BY <1>1 DEF AssignPeer, BlockPool, Requesting
<1>3. /\ r \in Requesting /\ InStep(r) /\ r.block = o.block
      /\ r.picked = None /\ r.peer = o.picked /\ o.peer = None
  BY <1>1 DEF Requesting, InStep, PeerOrNone
<1>. HIDE DEF r
<1>4. \A p \in Peers : WaitsFor(r, p) <= WaitsFor(o, p)
  BY SMTT(30), <1>3 DEF WaitsFor
<1>5. pool.numPending >= pool.numPending - Waits(o) + Waits(r)
  BY SMTT(30), <1>1, <1>3 DEF Waits
<1>. QED  BY <1>1, <1>2, <1>3, <1>4, <1>5, RequesterOnly

LEMMA ReadRedoKeeps ==
    ASSUME PoolInv(pool), NEW h \in Heights, ReadRedo(h)
    PROVE  PoolInv(pool') /\ SameHeights(pool, pool')
<1>. DEFINE o == pool.requesters[h]
<1>1. /\ pool \in BlockPool /\ pool.numPending \in Int /\ o \in Requesting /\ InStep(o)
      /\ h \in DOMAIN pool.requesters
  BY Typed DEF PoolInv, Heights
<1>2. CASE o.redo = o.peer
  <2>1. PICK n \in Int : n = IF o.block # None THEN pool.numPending + 1 ELSE pool.numPending
    BY SMTT(30), <1>1
  <2>2. pool' = [pool EXCEPT !.requesters[h] = NewRequester, !.numPending = n]
    BY <1>1, <1>2, <2>1 DEF ReadRedo, BlockPool
  <2>3. NewRequester \in Requesting /\ InStep(NewRequester) /\ NewRequester.block = None
        /\ NewRequester.picked = None /\ NewRequester.peer = None
    BY DEF NewRequester, Requesting, InStep, PeerOrNone
  <2>4. \A p \in Peers : WaitsFor(NewRequester, p) <= WaitsFor(o, p)
    BY SMTT(30), <2>3, FastSyncAssumption DEF WaitsFor
  <2>5. n >= pool.numPending - Waits(o) + Waits(NewRequester)
    BY SMTT(30), <1>1, <2>1, <2>3 DEF Waits
  <2>. QED  BY <1>1, <2>2, <2>3, <2>4, <2>5, RequesterOnly
<1>3. CASE o.redo # o.peer
  <2>. DEFINE r == [o EXCEPT !.redo = None]
  <2>1. pool' = [pool EXCEPT !.requesters[h] = r, !.numPending = pool.numPending]
    BY <1>1, <1>3 DEF ReadRedo, BlockPool
  <2>2. /\ r \in Requesting /\ InStep(r) /\ r.block = o.block
        /\ r.picked = o.picked /\ r.peer = o.peer
    BY <1>1 DEF Requesting, InStep, PeerOrNone
  <2>. HIDE DEF r
  <2>3. \A p \in Peers : WaitsFor(r, p) <= WaitsFor(o, p)
    BY SMTT(30), <2>2 DEF WaitsFor
  <2>4. pool.numPending >= pool.numPending - Waits(o) + Waits(r)
    BY SMTT(30), <1>1, <2>2 DEF Waits
  <2>. QED  BY <1>1, <2>1, <2>2, <2>3, <2>4, RequesterOnly
<1>. QED  BY <1>2, <1>3

LEMMA AddBlockKeeps ==
    ASSUME PoolInv(pool), NEW h, NEW p \in Peers, NEW b \in Sends[p], AddBlock(h, p, b)
    PROVE  PoolInv(pool') /\ SameHeights(pool, pool')
<1>. DEFINE o == pool.requesters[h]
            r == [o EXCEPT !.block = b]
            f == DecrPending(pool, p)
<1>1. CASE ~(h \in Heights /\ o.block = None /\ o.peer = p)
  BY <1>1 DEF AddBlock, SameHeights
<1>2. CASE h \in Heights /\ o.block = None /\ o.peer = p
  <2>1. /\ pool \in BlockPool /\ pool.numPending \in Int /\ o \in Requesting /\ InStep(o)
        /\ h \in DOMAIN pool.requesters /\ pool.peers \in [Peers -> BpPeer \cup {None}]
        /\ pool.requesters \in [DOMAIN pool.requesters -> Requesting]
    BY <1>2, Typed DEF PoolInv, Heights
  <2>2. b \in Block /\ b # None
    BY FastSyncAssumption
  <2>3. /\ r \in Requesting /\ InStep(r) /\ r.block = b
        /\ r.picked = None /\ o.picked = None /\ r.peer = p
    BY <1>2, <2>1, <2>2, FastSyncAssumption DEF Requesting, InStep
  <2>4. pool' = WithRequester(pool, h, r, f, pool.numPending - 1)
    <3>1. pool' = [pool EXCEPT !.requesters[h].block = b, !.numPending = @ - 1, !.peers = f]
      BY <1>2, <2>1 DEF AddBlock, BlockPool
    <3>. HIDE DEF f
    <3>. QED  BY <2>1, <3>1 DEF WithRequester, BlockPool
  <2>5. /\ f \in [Peers -> BpPeer \cup {None}]
        /\ \A q \in Peers \ {p} : f[q] = pool.peers[q]
        /\ ~Has(pool, p) => f[p] = None
        /\ Has(pool, p) => /\ f[p] # None /\ f[p].height = pool.peers[p].height
                           /\ f[p].pending = pool.peers[p].pending - 1
    <3>1. CASE Has(pool, p)
      <4>1. pool.peers[p] \in BpPeer
        BY <2>1, <3>1 DEF Has
      <4>2. PICK x : x = [pool.peers[p] EXCEPT !.pending = @ - 1]
        OBVIOUS
      <4>3. /\ x \in BpPeer /\ x.height = pool.peers[p].height
            /\ x.pending = pool.peers[p].pending - 1
        BY SMTT(30), <4>1, <4>2 DEF BpPeer
      <4>4. x # None
        BY <4>3, FastSyncAssumption
      <4>5. f = [pool.peers EXCEPT ![p] = x]
        BY <2>1, <3>1, <4>1, <4>2 DEF DecrPending
      <4>. HIDE DEF f
      <4>. QED  BY <2>1, <3>1, <4>3, <4>4, <4>5
    <3>2. CASE ~Has(pool, p)
      <4>1. f = pool.peers
        BY <3>2 DEF DecrPending
      <4>. QED  BY <2>1, <3>2, <4>1 DEF Has
    <3>. QED  BY <3>1, <3>2
  <2>. HIDE DEF r, f
  <2>6. \A q \in Peers : WaitsFor(r, q) = 0 /\ WaitsFor(o, q) = IF q = p THEN 1 ELSE 0
    BY <1>2, <2>2, <2>3, FastSyncAssumption DEF WaitsFor
  <2>7. Waits(o) = 1 /\ Waits(r) = 0
    BY <1>2, <2>2, <2>3 DEF Waits
  <2>8. ASSUME NEW q \in Peers
        PROVE  /\ f[q] = None <=> pool.peers[q] = None
               /\ f[q] # None =>
                    /\ f[q].height = pool.peers[q].height
                    /\ f[q].pending >= pool.peers[q].pending - WaitsFor(o, q) + WaitsFor(r, q)
    <3>1. pool.peers[q] # None => pool.peers[q].pending \in Int
      BY <2>1 DEF BpPeer
    <3>2. CASE q = p
      BY SMTT(30), <2>5, <2>6, <3>1, <3>2 DEF Has
    <3>3. CASE q # p
      BY SMTT(30), <2>5, <2>6, <3>1, <3>3
    <3>. QED  BY <3>2, <3>3
  <2>9. Pays(pool, h, r, f, pool.numPending - 1)
    BY SMTT(30), <2>1, <2>5, <2>7, <2>8 DEF Pays
  <2>10. PoolInv(pool') /\ pool'.height = pool.height
         /\ DOMAIN pool'.requesters = DOMAIN pool.requesters
    BY SMTT(30), <2>1, <2>3, <2>4, <2>9, OneRequester
  <2>. QED  BY <2>10 DEF SameHeights
<1>. QED  BY <1>1, <1>2

LEMMA DroppedKeeps ==
    ASSUME PoolInv(pool), pool.height \in Heights, Dropped(pool.height)
    PROVE  PoolInv(pool')
<1>. DEFINE h == pool.height
            D == DOMAIN pool.requesters
            reqs == [k \in D \ {h} |-> pool.requesters[k]]
<1>0. pool \in BlockPool /\ Contiguous(pool)
  BY DEF PoolInv
<1>1. /\ h \in Nat /\ pool.numPending \in Int /\ D \in SUBSET Nat
      /\ pool.requesters \in [D -> Requesting] /\ pool.peers \in [Peers -> BpPeer \cup {None}]
  BY <1>0, Typed
<1>2. PICK n \in {0, 1} : pool' = [pool EXCEPT !.height = h + 1, !.numPending = pool.numPending + n,
                                               !.requesters = reqs]
  BY <1>0 DEF Dropped, Heights, BlockPool
<1>3. PICK c : c = pool'
  OBVIOUS
<1>4. /\ c.height = h + 1 /\ c.numPending = pool.numPending + n /\ c.requesters = reqs
      /\ c.peers = pool.peers /\ c.maxPeerHeight = pool.maxPeerHeight
  BY <1>0, <1>2, <1>3 DEF BlockPool
<1>5. /\ DOMAIN c.requesters = D \ {h} /\ c.requesters \in [D \ {h} -> Requesting]
      /\ \A k \in D \ {h} : c.requesters[k] = pool.requesters[k]
  BY <1>1, <1>4
<1>6. c \in BlockPool
  <2>1. reqs \in RequesterMaps
    BY SMTT(30), <1>1, IsMap
  <2>2. h + 1 \in Nat /\ pool.numPending + n \in Int
    BY SMTT(30), <1>1
  <2>. HIDE DEF reqs, h
  <2>. QED  BY <1>0, <1>2, <1>3, <2>1, <2>2 DEF BlockPool
<1>7. \A k \in DOMAIN c.requesters : InStep(c.requesters[k])
  BY <1>5 DEF PoolInv
<1>8. Contiguous(c)
  <2>1. PICK m \in Nat : D = h .. (h + m - 1)
    BY <1>0 DEF Contiguous
  <2>2. h \in D
    BY DEF Heights
  <2>3. m - 1 \in Nat /\ D \ {h} = (h + 1) .. ((h + 1) + (m - 1) - 1)
    BY SMTT(30), <1>1, <2>1, <2>2
  <2>. QED  BY <1>4, <1>5, <2>3 DEF Contiguous
<1>9. /\ Waiting(c) \subseteq Waiting(pool)
      /\ \A p : WaitingFor(c, p) \subseteq WaitingFor(pool, p)
  BY <1>5 DEF Waiting, WaitingFor
<1>10. /\ Cardinality(Waiting(c)) <= Cardinality(Waiting(pool))
       /\ \A p : Cardinality(WaitingFor(c, p)) <= Cardinality(WaitingFor(pool, p))
  BY <1>0, <1>9, FiniteHeights, FS_Subset
<1>11. /\ Cardinality(Waiting(c)) \in Nat /\ Cardinality(Waiting(pool)) \in Nat
       /\ \A p : Cardinality(WaitingFor(c, p)) \in Nat /\ Cardinality(WaitingFor(pool, p)) \in Nat
  BY <1>0, <1>6, <1>8, FiniteHeights
<1>12. Cardinality(Waiting(c)) <= c.numPending
  BY SMTT(30), <1>1, <1>4, <1>10, <1>11 DEF PoolInv
<1>13. Counted(c)
  <2>1. ASSUME ~Hasty, NEW p \in Peers, Has(c, p)
        PROVE  Cardinality(WaitingFor(c, p)) <= c.peers[p].pending
    <3>1. Cardinality(WaitingFor(pool, p)) <= pool.peers[p].pending
      BY <1>4, <2>1 DEF PoolInv, Counted, Has
    <3>2. pool.peers[p].pending \in Int
      BY SMTT(30), <1>1, <1>4, <2>1 DEF Has, BpPeer
    <3>. QED  BY SMTT(30), <1>4, <1>10, <1>11, <3>1, <3>2
  <2>. QED  BY <2>1 DEF Counted
<1>14. Reported(c)
  BY <1>4 DEF Reported, PoolInv, Has
<1>. QED  BY <1>3, <1>6, <1>7, <1>8, <1>12, <1>13, <1>14 DEF PoolInv

LEMMA LeaveKeeps ==
    ASSUME PoolInv(pool), NEW S \in SUBSET Peers, Leave(S)
    PROVE  PoolInv(pool') /\ SameHeights(pool, pool')
  BY RemovePeersKeeps DEF Leave, SameHeights

----------------------------------------------------------------------------
(* The invariant *)

LEMMA Initially == Init => IInv
<1>. SUFFICES ASSUME Init  PROVE IInv
  OBVIOUS
<1>1. /\ pool.height = 1 /\ pool.requesters = [h \in {} |-> NewRequester]
      /\ pool.peers = [p \in Peers |-> None] /\ pool.maxPeerHeight = 0 /\ pool.numPending = 0
      /\ peeked = None /\ store = <<>>
  BY DEF Init
<1>2. DOMAIN pool.requesters = {} /\ pool.requesters \in [{} -> Requesting]
  BY <1>1
<1>3. pool \in BlockPool
  <2>1. pool.requesters \in RequesterMaps
    BY <1>2, IsMap
  <2>. QED  BY SMTT(30), <1>1, <2>1 DEF Init, BlockPool
<1>4. Contiguous(pool)
  <2>1. {} = 1 .. (1 + 0 - 1)
    BY SMTT(30)
  <2>. QED  BY <1>1, <1>2, <2>1 DEF Contiguous
<1>5. Waiting(pool) = {}
  BY <1>2 DEF Waiting
<1>6. Cardinality(Waiting(pool)) <= pool.numPending
  BY SMTT(30), <1>1, <1>5, FS_EmptySet
<1>7. TipsOf(pool.peers) /\ IsHighest(0, pool.peers)
  BY <1>1 DEF TipsOf, IsHighest
<1>8. Counted(pool) /\ Reported(pool)
  BY <1>1, <1>7, MaxHeightIs DEF Counted, Reported, Has
<1>9. PoolInv(pool)
  BY <1>2, <1>3, <1>4, <1>6, <1>8 DEF PoolInv
<1>. QED  BY SMTT(30), <1>1, <1>9 DEF IInv, PeekedInv, OnlyChainBlocks

LEMMA StoreGrows ==
    ASSUME store \in Seq(BOOLEAN), OnlyChainBlocks, store' = Append(store, TRUE)
    PROVE  store' \in Seq(BOOLEAN) /\ OnlyChainBlocks'
<1>1. store' \in Seq(BOOLEAN) /\ Len(store') = Len(store) + 1
  BY SMTT(30)
<1>2. ASSUME NEW i \in 1..Len(store')  PROVE store'[i]
  <2>1. CASE i \in 1..Len(store)
    BY SMTT(30), <2>1 DEF OnlyChainBlocks
  <2>2. CASE i = Len(store) + 1
    BY SMTT(30), <2>2
  <2>. QED  BY SMTT(30), <1>1, <2>1, <2>2
<1>. QED  BY <1>1, <1>2 DEF OnlyChainBlocks

LEMMA PoolStep ==
    ASSUME PeekedInv, SameHeights(pool, pool'), peeked' \in {peeked, None}
    PROVE  PeekedInv'
<1>1. pool'.height = pool.height /\ Heights \subseteq Heights'
  BY DEF SameHeights, Heights
<1>. QED  BY <1>1 DEF PeekedInv

LEMMA Inductive == IInv /\ [Next]_vars => IInv'
<1>. SUFFICES ASSUME IInv, [Next]_vars  PROVE IInv'
  OBVIOUS
<1>. USE DEF IInv
<1>1. ASSUME SameHeights(pool, pool'), PoolInv(pool'), peeked' \in {peeked, None}, store' = store
      PROVE  IInv'
  <2>1. PeekedInv'
    BY <1>1, PoolStep
  <2>. QED  BY <1>1, <2>1 DEF OnlyChainBlocks
<1>2. ASSUME UNCHANGED <<pool, store>>, peeked' \in {peeked, None}
      PROVE  IInv'
  BY <1>1, <1>2 DEF SameHeights
<1>3. ASSUME NEW p \in Peers,
             StatusResponse(p) \/ OnTimeout(p) \/ StopPeer(p) \/ Disconnect(p) \/ Connect(p)
      PROVE  IInv'
  <2>1. CASE StatusResponse(p)
    BY <1>1, <2>1, StatusResponseKeeps DEF StatusResponse
  <2>2. CASE OnTimeout(p)
    BY <1>1, <2>2, OnTimeoutKeeps DEF OnTimeout
  <2>3. CASE StopPeer(p)
    <3>1. CASE Leave({p})
      BY <1>1, <2>3, <3>1, LeaveKeeps DEF StopPeer
    <3>2. CASE UNCHANGED pool
      BY <1>2, <2>3, <3>2 DEF StopPeer
    <3>. QED  BY <2>3, <3>1, <3>2 DEF StopPeer
  <2>4. CASE Disconnect(p)
    BY <1>1, <2>4, LeaveKeeps DEF Disconnect
  <2>5. CASE Connect(p)
    BY <1>2, <2>5 DEF Connect
  <2>. QED  BY <1>3, <2>1, <2>2, <2>3, <2>4, <2>5
<1>4. ASSUME NEW p \in Peers, Network(p)  PROVE IInv'
  <2>1. ASSUME NEW h, NEW b \in Sends[p], AddBlock(h, p, b)  PROVE IInv'
    BY <1>1, <2>1, AddBlockKeeps DEF AddBlock
  <2>2. ASSUME NEW h, RequestLost(h, p)  PROVE IInv'
    BY <1>2, <2>2 DEF RequestLost
  <2>. QED  BY <1>4, <2>1, <2>2 DEF Network
<1>5. CASE MakeNextRequester
  BY <1>1, <1>5, MakeNextRequesterKeeps DEF MakeNextRequester
<1>6. ASSUME NEW h \in Heights, Requester(h)  PROVE IInv'
  <2>1. CASE PickPeer(h)
    BY <1>1, <2>1, PickPeerKeeps DEF PickPeer
  <2>2. CASE AssignPeer(h)
    BY <1>1, <2>2, AssignPeerKeeps DEF AssignPeer
  <2>3. CASE ReadRedo(h)
    BY <1>1, <2>3, ReadRedoKeeps DEF ReadRedo
  <2>. QED  BY <1>6, <2>1, <2>2, <2>3 DEF Requester
<1>7. CASE RemoveTimedoutPeers
  <2>1. TimedOut \in SUBSET Peers
    BY DEF TimedOut
  <2>2. PoolInv(pool') /\ SameHeights(pool, pool')
    BY <1>7, <2>1, RemovePeersKeeps DEF RemoveTimedoutPeers, SameHeights
  <2>. QED  BY <1>1, <1>7, <2>2 DEF RemoveTimedoutPeers
<1>8. CASE PoolRoutine
  <2>0. /\ pool \in BlockPool /\ pool.requesters \in [Heights -> Requesting]
        /\ \A h \in Heights : InStep(pool.requesters[h])
    BY Typed DEF PoolInv, Heights
  <2>1. CASE PeekTwoBlocks
    <3>1. peeked' \in [first : Block, second : Block]
      BY <2>0, <2>1 DEF PeekTwoBlocks, Requesting
    <3>2. {pool'.height, pool'.height + 1} \subseteq Heights'
      BY <2>1 DEF PeekTwoBlocks, Heights
    <3>3. PeekedInv'
      BY <3>1, <3>2 DEF PeekedInv
    <3>. QED  BY <2>1, <3>3 DEF PeekTwoBlocks, OnlyChainBlocks
  <2>2. CASE PopRequest
    <3>1. PoolInv(pool')
      BY <2>2, DroppedKeeps DEF PopRequest, PeekedInv
    <3>2. PeekedInv'
      BY <2>2 DEF PopRequest, PeekedInv
    <3>3. peeked.first \in Block /\ peeked.first.self = TRUE
      BY <2>2 DEF PopRequest, PeekedInv, Block
    <3>4. store' = Append(store, TRUE)
      BY <2>2, <3>3 DEF PopRequest
    <3>. QED  BY <3>1, <3>2, <3>4, StoreGrows
  <2>3. CASE RedoRequests
    <3>. DEFINE culprits == {pool.requesters[pool.height].peer,
                             pool.requesters[pool.height + 1].peer} \ {None}
    <3>1. {pool.height, pool.height + 1} \subseteq Heights
      BY <2>3 DEF RedoRequests, PeekedInv
    <3>2. culprits \in SUBSET Peers
      BY SMTT(30), <2>0, <3>1 DEF Requesting, PeerOrNone
    <3>3. Leave(culprits) /\ peeked' = None /\ store' = store
      BY <2>3 DEF RedoRequests
    <3>. QED  BY <1>1, <3>2, <3>3, LeaveKeeps
  <2>4. CASE SwitchToConsensus
    BY <1>2, <2>4 DEF SwitchToConsensus
  <2>. QED  BY <1>8, <2>1, <2>2, <2>3, <2>4 DEF PoolRoutine
<1>9. CASE UNCHANGED vars
  BY <1>2, <1>9 DEF vars
<1>. QED  BY <1>3, <1>4, <1>5, <1>6, <1>7, <1>8, <1>9 DEF Next

LEMMA Invariance == Spec => []IInv
  BY Initially, Inductive, PTL DEF Spec

(* Only blocks of the chain are saved and applied by poolRoutine, whatever the *)
(* peers send and in whatever order they leave, for every number of peers.     *)
THEOREM SavesTheChain == Spec => []OnlyChainBlocks
<1>1. IInv => OnlyChainBlocks
  BY DEF IInv
<1>. QED  BY <1>1, Invariance, PTL

(* The requesters cover the heights from pool.height on without a gap, the     *)
(* peers of the two blocks that were peeked can be looked up, numPending       *)
(* covers every request without a block, and maxPeerHeight is the height of a  *)
(* present peer: for any limits, heights, faults and returning peers.          *)
THEOREM PoolInOrder == Spec => [](RequestersInOrder /\ PendingCovers /\ MaxIsReported)
<1>1. ASSUME IInv  PROVE RequestersInOrder /\ PendingCovers /\ MaxIsReported
  <2>1. pool \in BlockPool /\ Contiguous(pool)
    BY <1>1 DEF IInv, PoolInv
  <2>2. /\ IsFiniteSet(Heights) /\ Cardinality(Heights) \in Nat /\ pool.height \in Nat
        /\ Heights = pool.height .. (pool.height + Cardinality(Heights) - 1)
    BY <2>1, FiniteHeights, Typed DEF Heights
  <2>3. ASSUME peeked # None  PROVE Cardinality(Heights) >= 2
    <3>1. {pool.height, pool.height + 1} \subseteq Heights
      BY <1>1, <2>3 DEF IInv, PeekedInv
    <3>. QED  BY SMTT(30), <2>2, <3>1
  <2>4. PendingCovers /\ MaxIsReported
    BY <1>1 DEF IInv, PoolInv, Reported, PendingCovers, MaxIsReported, Waiting, Heights
  <2>. QED  BY <2>2, <2>3, <2>4 DEF RequestersInOrder
<1>. QED  BY <1>1, Invariance, PTL

(* If a peer comes back only after every requester has noticed that it left,   *)
(* its count covers the requesters that wait for it as well, so that           *)
(* decrPending never takes it below zero.                                      *)
THEOREM PoolAlwaysAccounted ==
    ASSUME ~Hasty
    PROVE  Spec => []PoolAccounted
<1>1. ASSUME IInv  PROVE PendingCounted
  <2>1. \A p : {h \in Busy(p) : pool.requesters[h].block = None} = WaitingFor(pool, p)
    BY DEF Busy, Heights, WaitingFor, Waiting
  <2>. QED  BY <1>1, <2>1 DEF IInv, PoolInv, Counted, PendingCounted
<1>2. IInv /\ RequestersInOrder /\ PendingCovers /\ MaxIsReported => PoolAccounted
  BY <1>1 DEF PoolAccounted
<1>. QED  BY <1>2, Invariance, PoolInOrder, PTL

=============================================================================
