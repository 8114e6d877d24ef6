------------------------ MODULE CrossShardExecution ------------------------
(***************************************************************************)
(* Proofs that shards of one validator execute what they confirm, and      *)
(* execute it once.  A row of the relation table is written for a cm of    *)
(* the proposal, and such a shard decides on the proposal before anything  *)
(* refers to the row: what its packages and its checkdb name is executed.  *)
(* The sender makes one cm of a relaytx, which the receiver's tx cache     *)
(* lets into the pool once, and the block that executes it takes it out.   *)
(***************************************************************************)
EXTENDS CrossShardProofs

(* Leaves that need arithmetic, records or sequences name SMT. *)
USE ZenonT(60)

---------------------------------------------------------------------------
(* Executed before confirmed *)

BlockOf(k) == chain[k[1]][k[2]]
Decided(k) == k[1] \in Shards /\ k[2] \in 1..Len(chain[k[1]])

\* A cm of block k, if it has one relaytx, can be in shard z's pools only if the
\* relaytx goes there, or if k is z's own.
Meant(z, k) ==
    /\ Decided(k)
    /\ k[1] # z /\ Solo(k[1], k[2]) => \A t \in BlockOf(k).outs : Receiver[t] = z

\* ... and shard z has executed it.
Executed(z, k) ==
    /\ Meant(z, k)
    /\ Simple(z) /\ k[1] # z /\ Solo(k[1], k[2]) =>
         \A t \in BlockOf(k).outs : Credits(t) # {}

AllExecuted(z, packs) == \A p \in packs : Executed(z, p[1])

\* The shard whose tables a cm's packages come from.
Origin(cm) == IF cm.tx = NoTx THEN cm.dst ELSE cm.src

CmSound(cm) ==
    /\ Decided(CmID(cm))
    /\ cm.src # cm.dst
    /\ AllExecuted(Origin(cm), cm.packs)

Sent ==
    /\ \A cm \in net : CmSound(cm)
    /\ \A n \in Nodes :
         /\ \A cm \in cache[n] : CmSound(cm)
         /\ pool[n] \subseteq cache[n]
         /\ \A e \in cmdb[n] : CmSound(e.cm) /\ e.cm.src = ShardOf[n]

Tables ==
    \A n \in Nodes :
        /\ \A r \in rl[n] : Meant(ShardOf[n], r.key) /\ AllExecuted(ShardOf[n], r.packs)
        /\ \A d \in done[n] : Executed(ShardOf[n], d.key) /\ AllExecuted(ShardOf[n], d.packs)

\* The leader of a proposal has voted for it.
Rounds ==
    \A s \in Shards : cons[s].block # NoBlock =>
        /\ \A p \in cons[s].block.packs : Meant(s, p[1])
        /\ cons[s].leader \in cons[s].prevoted
        /\ ShardOf[cons[s].leader] = s

\* The proposal of shard s executes the relaytx of block k, if it is the only one.
Included(s, k) ==
    k[1] # s /\ Solo(k[1], k[2]) =>
        \A t \in BlockOf(k).outs : \E c \in cons[s].block.ins : c.tx = t

\* A row of the height that shard s votes on.
Current(n, r) ==
    LET s == ShardOf[n] IN
    /\ app[n] = Len(chain[s])
    /\ r.own
    /\ \E c \in pool[n] : CmID(c) = r.key
    /\ cons[s].block # NoBlock => Included(s, r.key)

Lonely ==
    \A n \in Nodes : Simple(ShardOf[n]) => \A r \in rl[n] :
        \/ r.cs \in 1..Len(chain[ShardOf[n]]) /\ Executed(ShardOf[n], r.key)
        \/ r.cs = Len(chain[ShardOf[n]]) + 1 /\ Current(n, r)

\* No cm is deleted before its relaytx is executed.
NotDeleted ==
    \A n \in Nodes : \A h \in 1..app[n] : \A t \in chain[ShardOf[n]][h].outs :
        crashes = 0 /\ Simple(Receiver[t]) /\ Solo(ShardOf[n], h)
          => Kept(n, h, t) \/ Credits(t) # {}

EInv == IInv /\ OwnDebits /\ Sent /\ Tables /\ Rounds /\ Lonely /\ NotDeleted

(* A block that executes a relaytx credits it. *)
LEMMA CreditsHave ==
    ASSUME NEW t, NEW h \in 1..Len(chain'[Receiver[t]]),
           NEW c \in chain'[Receiver[t]][h].ins, c.tx = t
    PROVE  Credits(t)' # {}
  <1> DEFINE z == Receiver[t]
             S(x) == {<<x, y>> : y \in {d \in chain'[z][x].ins : d.tx = t}}
  <1>1. Credits(t)' = UNION {S(x) : x \in 1..Len(chain'[z])}
    BY DEF Credits
  <1>2. c \in {d \in chain'[z][h].ins : d.tx = t}
    OBVIOUS
  <1>3. <<h, c>> \in S(h) /\ h \in 1..Len(chain'[z])
    BY <1>2
  <1> HIDE DEF S, z
  <1> QED  BY <1>1, <1>3

(* What was decided stays, and so does what was executed. *)
LEMMA CreditsStay ==
    ASSUME TypeInv, TypeInv', Grows, NEW t \in RelayTxs, Credits(t) # {}
    PROVE  Credits(t)' # {}
  <1> DEFINE z == Receiver[t]
  <1>1. z \in Shards
    BY ConstantsAssumption
  <1>0. PICK h \in 1..Len(chain[z]) : \E c \in chain[z][h].ins : c.tx = t
    BY DEF Credits
  <1>2. PICK c \in chain[z][h].ins : c.tx = t
    BY <1>0
  <1>3. Len(chain[z]) \in Nat /\ Len(chain'[z]) \in Nat
    BY SMTT(30), <1>1 DEF TypeInv, TypeOK
  <1>4. h \in 1..Len(chain'[z]) /\ chain'[z][h] = chain[z][h]
    BY SMTT(30), <1>1, <1>3 DEF Grows
  <1> QED  BY <1>2, <1>4, CreditsHave

(* A decided block stays what it is: EnterCommit appends to the chain. *)
LEMMA DecidedStays ==
    ASSUME TypeInv, TypeInv', Grows, NEW k, Decided(k)
    PROVE  /\ Decided(k)' /\ BlockOf(k)' = BlockOf(k) /\ BlockOf(k) \in Block
           /\ Solo(k[1], k[2])' <=> Solo(k[1], k[2])
  <1>1. k[1] \in Shards /\ k[2] \in 1..Len(chain[k[1]])
    BY DEF Decided
  <1>2. Len(chain[k[1]]) \in Nat /\ Len(chain'[k[1]]) \in Nat /\ chain[k[1]] \in Seq(Block)
    BY SMTT(30), <1>1 DEF TypeInv, TypeOK
  <1>3. k[2] \in 1..Len(chain'[k[1]]) /\ chain'[k[1]][k[2]] = chain[k[1]][k[2]]
    BY SMTT(30), <1>1, <1>2 DEF Grows
  <1>4. chain[k[1]][k[2]] \in Block
    BY SMTT(30), <1>1, <1>2
  <1> QED  BY <1>1, <1>3, <1>4 DEF Decided, BlockOf, Solo, BlockTxs

(* What a shard has executed it has executed for good. *)
LEMMA ExecutedStays ==
    ASSUME TypeInv, TypeInv', Grows, NEW z, NEW k
    PROVE  (Meant(z, k) => Meant(z, k)') /\ (Executed(z, k) => Executed(z, k)')
  <1>1. ASSUME Meant(z, k) PROVE Meant(z, k)'
    BY <1>1, DecidedStays DEF Meant
  <1>2. ASSUME Executed(z, k) PROVE Executed(z, k)'
    <2>1. Meant(z, k)' /\ Decided(k)
      BY <1>1, <1>2 DEF Executed, Meant
    <2>2. BlockOf(k)' = BlockOf(k) /\ BlockOf(k) \in Block /\
          (Solo(k[1], k[2])' <=> Solo(k[1], k[2]))
      BY <2>1, DecidedStays
    <2>3. BlockOf(k).outs \subseteq RelayTxs
      BY <2>2 DEF Block
    <2> QED  BY <1>2, <2>1, <2>2, <2>3, CreditsStay DEF Executed
  <1> QED  BY <1>1, <1>2

(* So packages of executed cms stay that. *)
LEMMA SoundStays ==
    ASSUME TypeInv, TypeInv', Grows
    PROVE  /\ \A z, packs : AllExecuted(z, packs) => AllExecuted(z, packs)'
           /\ \A cm : CmSound(cm) => CmSound(cm)'
  <1>1. ASSUME NEW z, NEW packs, AllExecuted(z, packs) PROVE AllExecuted(z, packs)'
    BY <1>1, ExecutedStays DEF AllExecuted
  <1>2. ASSUME NEW cm, CmSound(cm) PROVE CmSound(cm)'
    BY <1>1, <1>2, DecidedStays DEF CmSound
  <1> QED  BY <1>1, <1>2

(* What a step has to show: only new cms, rows and records matter. *)
LEMMA SentStep ==
    ASSUME TypeInv, TypeInv', Grows, Sent,
           \A cm \in net' : cm \in net \/ CmSound(cm)',
           \A n \in Nodes : \A cm \in cache'[n] : cm \in cache[n] \/ CmSound(cm)',
           \A n \in Nodes : pool'[n] \subseteq cache'[n],
           \A n \in Nodes : \A e \in cmdb'[n] :
               \/ \E f \in cmdb[n] : f.cm = e.cm
               \/ CmSound(e.cm)' /\ e.cm.src = ShardOf[n]
    PROVE  Sent'
  <1>1. \A cm \in net' : CmSound(cm)'
    BY SoundStays DEF Sent
  <1>2. ASSUME NEW n \in Nodes
        PROVE  /\ \A cm \in cache'[n] : CmSound(cm)'
               /\ \A e \in cmdb'[n] : CmSound(e.cm)' /\ e.cm.src = ShardOf[n]
    <2>1. \A cm \in cache'[n] : CmSound(cm)'
      BY SoundStays DEF Sent
    <2>2. ASSUME NEW e \in cmdb'[n], NEW f \in cmdb[n], f.cm = e.cm
          PROVE  CmSound(e.cm)' /\ e.cm.src = ShardOf[n]
      <3>1. CmSound(e.cm) /\ e.cm.src = ShardOf[n]
        BY <2>2 DEF Sent
      <3> QED  BY <3>1, SoundStays
    <2> QED  BY <2>1, <2>2
  <1> QED  BY <1>1, <1>2 DEF Sent

(* What a step may do to relation tables and checkdbs. *)
LEMMA TablesStep ==
    ASSUME TypeInv, TypeInv', Grows, Tables,
           \A n \in Nodes : \A r \in rl'[n] :
               \/ \E q \in rl[n] : q.key = r.key /\ q.packs = r.packs
               \/ Meant(ShardOf[n], r.key)' /\ AllExecuted(ShardOf[n], r.packs)',
           \A n \in Nodes : \A d \in done'[n] :
               \/ d \in done[n]
               \/ Executed(ShardOf[n], d.key)' /\ AllExecuted(ShardOf[n], d.packs)'
    PROVE  Tables'
  <1> SUFFICES ASSUME NEW n \in Nodes
               PROVE  /\ \A r \in rl'[n] : /\ Meant(ShardOf[n], r.key)'
                                          /\ AllExecuted(ShardOf[n], r.packs)'
                      /\ \A d \in done'[n] : /\ Executed(ShardOf[n], d.key)'
                                            /\ AllExecuted(ShardOf[n], d.packs)'
    BY DEF Tables
  <1> DEFINE z == ShardOf[n]
  <1>1. ASSUME NEW r \in rl'[n], NEW q \in rl[n], q.key = r.key, q.packs = r.packs
        PROVE  Meant(z, r.key)' /\ AllExecuted(z, r.packs)'
    <2>1. Meant(z, r.key) /\ AllExecuted(z, r.packs)
      BY <1>1 DEF Tables
    <2> QED  BY <2>1, SoundStays, ExecutedStays
  <1>2. ASSUME NEW d \in done[n] PROVE Executed(z, d.key)' /\ AllExecuted(z, d.packs)'
    <2>1. Executed(z, d.key) /\ AllExecuted(z, d.packs)
      BY DEF Tables
    <2> QED  BY <2>1, SoundStays, ExecutedStays
  <1> QED  BY <1>1, <1>2

\* The relaytx of block k has been executed, if it is the only one and goes to a
\* simple shard.
Confirmed(k) ==
    Solo(k[1], k[2]) =>
        \A t \in BlockOf(k).outs : Simple(Receiver[t]) => Credits(t) # {}

(* A package that comes from another shard confirms an execution. *)
LEMMA PackageConfirms ==
    ASSUME NEW z, NEW k, Executed(z, k), k[1] # z
    PROVE  Confirmed(k)
  BY DEF Executed, Meant, Confirmed

(* What a step may do to cmDBs, and to the heights that are applied. *)
LEMMA NotDeletedStep ==
    ASSUME TypeInv, TypeInv', Grows, OwnDebits, Sent, NotDeleted, crashes = 0,
           \A n \in Nodes : \A e \in cmdb[n] :
               (\E f \in cmdb'[n] : f.cm = e.cm) \/ Confirmed(CmID(e.cm)),
           \A n \in Nodes : \A h \in 1..app'[n] :
               h \in 1..app[n] \/ \A t \in chain'[ShardOf[n]][h].outs : Kept(n, h, t)'
    PROVE  NotDeleted'
  <1> SUFFICES ASSUME NEW n \in Nodes, NEW h \in 1..app'[n],
                      NEW t \in chain'[ShardOf[n]][h].outs,
                      Simple(Receiver[t]), Solo(ShardOf[n], h)'
               PROVE  Kept(n, h, t)' \/ Credits(t)' # {}
    BY DEF NotDeleted
  <1>1. CASE h \in 1..app[n]
    <2> DEFINE s == ShardOf[n]
               k == <<s, h>>
    <2>0. k[1] = s /\ k[2] = h
      OBVIOUS
    <2> HIDE DEF k
    <2>1. /\ s \in Shards /\ app[n] \in Nat
          /\ app[n] <= Len(chain[s]) /\ Len(chain[s]) \in Nat
      BY SMTT(30), ConstantsAssumption DEF TypeInv, TypeOK, OwnDebits
    <2>2. h \in 1..Len(chain[s])
      BY SMTT(30), <1>1, <2>1
    <2>3. Decided(k)
      BY <2>0, <2>1, <2>2 DEF Decided
    <2>4. /\ chain'[s][h] = chain[s][h] /\ chain[s][h] \in Block
          /\ Solo(s, h)
      BY <2>0, <2>3, DecidedStays DEF BlockOf
    <2>5. t \in RelayTxs /\ t \in chain[s][h].outs
      BY <2>4 DEF Block
    <2>6. CASE Credits(t) # {}
      BY <2>5, <2>6, CreditsStay
    <2>7. CASE Kept(n, h, t)
      <3>1. PICK e \in cmdb[n] : e.cm.h = h /\ e.cm.tx = t
        BY <2>7 DEF Kept
      <3>2. CASE \E f \in cmdb'[n] : f.cm = e.cm
        BY <3>1, <3>2 DEF Kept
      <3>3. CASE Confirmed(CmID(e.cm))
        <4>1. CmID(e.cm) = k
          BY <3>1 DEF Sent, CmID, k
        <4>2. Credits(t) # {}
          BY <2>0, <2>4, <2>5, <3>3, <4>1 DEF Confirmed, BlockOf
        <4> QED  BY <2>6, <4>2
      <3> QED  BY <3>2, <3>3
    <2> QED  BY <1>1, <2>4, <2>5, <2>6, <2>7 DEF NotDeleted
  <1> QED  BY <1>1

\* Proposals go, or stay as far as their debits and credits are concerned.
SameProposals ==
    \A s \in Shards : cons'[s].block # NoBlock =>
        /\ cons[s].block # NoBlock
        /\ cons'[s].block.ins = cons[s].block.ins
        /\ cons'[s].block.outs = cons[s].block.outs

(* Steps that write no rows in simple shards. *)
LEMMA LonelyFrame ==
    ASSUME TypeInv, TypeInv', Grows, Lonely, SameProposals, UNCHANGED <<chain, app>>,
           \A n \in Nodes : Simple(ShardOf[n]) =>
               \A r \in rl'[n] : r \in rl[n] /\ pool[n] \subseteq pool'[n]
    PROVE  Lonely'
  <1> SUFFICES ASSUME NEW n \in Nodes, Simple(ShardOf[n]), NEW r \in rl'[n]
               PROVE  \/ r.cs \in 1..Len(chain'[ShardOf[n]]) /\ Executed(ShardOf[n], r.key)'
                      \/ r.cs = Len(chain'[ShardOf[n]]) + 1 /\ Current(n, r)'
    BY DEF Lonely
  <1> DEFINE s == ShardOf[n]
  <1>0. s \in Shards
    BY ConstantsAssumption
  <1>1. r \in rl[n] /\ pool[n] \subseteq pool'[n]
    OBVIOUS
  <1>2. CASE r.cs \in 1..Len(chain[s]) /\ Executed(s, r.key)
    BY <1>2, ExecutedStays
  <1>3. CASE r.cs = Len(chain[s]) + 1 /\ Current(n, r)
    <2>1. cons'[s].block # NoBlock =>
            cons[s].block # NoBlock /\ cons'[s].block.ins = cons[s].block.ins
      BY <1>0 DEF SameProposals
    <2>2. cons'[s].block # NoBlock => Included(s, r.key)'
      BY <1>3, <2>1 DEF Current, Included, Solo, BlockTxs, BlockOf
    <2> QED  BY <1>1, <1>3, <2>2 DEF Current
  <1> QED  BY <1>1, <1>2, <1>3 DEF Lonely

(* A round that is entered with a proposal, or without one. *)
LEMMA RoundsStep ==
    ASSUME TypeInv, TypeInv', Grows, Rounds, NEW s \in Shards,
           NEW r, NEW l, NEW b, NEW P, EnterRound(s, r, l, b, P),
           b # NoBlock => /\ \A p \in b.packs : Meant(s, p[1])'
                          /\ l \in P /\ ShardOf[l] = s
    PROVE  Rounds'
  <1>1. \A z \in Shards : cons'[z] = IF z = s
           THEN [round |-> r, leader |-> l, block |-> b, prevoted |-> P] ELSE cons[z]
    BY DEF EnterRound, TypeInv, TypeOK
  <1> SUFFICES ASSUME NEW z \in Shards, cons'[z].block # NoBlock
               PROVE  /\ \A p \in cons'[z].block.packs : Meant(z, p[1])'
                      /\ cons'[z].leader \in cons'[z].prevoted
                      /\ ShardOf[cons'[z].leader] = z
    BY DEF Rounds
  <1>2. CASE z = s
    <2>1. cons'[s].block = b /\ cons'[s].leader = l /\ cons'[s].prevoted = P
      BY SMTT(30), <1>1
    <2> QED  BY <1>2, <2>1
  <1>3. CASE z # s
    BY <1>1, <1>3, ExecutedStays DEF Rounds
  <1> QED  BY <1>2, <1>3

(* Steps that keep the rounds. *)
LEMMA RoundsFrame ==
    ASSUME TypeInv, TypeInv', Grows, Rounds, UNCHANGED cons
    PROVE  Rounds' /\ SameProposals
  BY ExecutedStays DEF Rounds, SameProposals

(* A round entered with the proposal that was, or without one. *)
LEMMA SameRound ==
    ASSUME TypeInv, NEW s \in Shards, NEW r, NEW l, NEW b, NEW P, EnterRound(s, r, l, b, P),
           b # NoBlock => /\ cons[s].block # NoBlock
                          /\ b.ins = cons[s].block.ins /\ b.outs = cons[s].block.outs
    PROVE  SameProposals
  <1>1. \A z \in Shards : cons'[z] = IF z = s
           THEN [round |-> r, leader |-> l, block |-> b, prevoted |-> P] ELSE cons[z]
    BY DEF EnterRound, TypeInv, TypeOK
  <1> QED  BY SMTT(30), <1>1 DEF SameProposals

(* A cm arrives, is kept or not, and its packages delete stored cms. *)
LEMMA ExecutedArrival ==
    ASSUME EInv, TypeInv', NEW n \in Nodes, NEW cm, CmSound(cm), Dest(cm) = ShardOf[n],
           \/ /\ cache' = [cache EXCEPT ![n] = @ \cup {cm}]
              /\ pool' = [pool EXCEPT ![n] = @ \cup {cm}]
           \/ UNCHANGED <<pool, cache>>,
           NEW E, RemoveCrossMessagesDB(cmdb[n], cm.packs, E),
           cmdb' = [cmdb EXCEPT ![n] = E],
           UNCHANGED <<chain, cons, app, rl, done, net, crashes>>
    PROVE  Sent' /\ Tables' /\ Rounds' /\ Lonely' /\ NotDeleted'
  <1>0. TypeInv /\ Grows /\ Sent /\ Tables /\ Rounds /\ Lonely /\ NotDeleted /\ OwnDebits
    BY SameChain DEF EInv, IInv
  <1>1. /\ E \subseteq cmdb[n]
        /\ \A e \in cmdb[n] \ E : \E p \in cm.packs : p[1] = CmID(e.cm)
    BY DEF RemoveCrossMessagesDB
  <1>2. \A m \in Nodes : /\ cmdb'[m] = IF m = n THEN E ELSE cmdb[m]
                         /\ cache'[m] \subseteq cache[m] \cup {cm}
                         /\ pool[m] \subseteq pool'[m]
                         /\ pool'[m] \subseteq cache'[m]
    <2>1. cmdb \in [Nodes -> SUBSET Entry] /\ cache \in [Nodes -> SUBSET Cm] /\
          pool \in [Nodes -> SUBSET Cm]
      BY <1>0 DEF TypeInv, TypeOK
    <2> TAKE m \in Nodes
    <2>2. cmdb'[m] = IF m = n THEN E ELSE cmdb[m]
      BY <2>1
    <2>3. pool[m] \subseteq cache[m]
      BY <1>0 DEF Sent
    <2>4. /\ cache'[m] \subseteq cache[m] \cup {cm}
          /\ pool[m] \subseteq pool'[m]
          /\ pool'[m] \subseteq cache'[m]
      BY SMTT(30), <2>1, <2>3
    <2> QED  BY <2>2, <2>4
  <1>3. Sent'
    <2>1. \A m \in Nodes : \A c \in cache'[m] : c \in cache[m] \/ CmSound(c)'
      BY <1>0, <1>2, SoundStays
    <2>2. \A m \in Nodes : \A e \in cmdb'[m] : \E f \in cmdb[m] : f.cm = e.cm
      BY <1>1, <1>2
    <2> QED  BY <1>0, <1>2, <2>1, <2>2, SentStep
  <1>4. Tables'
    BY <1>0, TablesStep
  <1>5. Rounds' /\ SameProposals
    BY <1>0, RoundsFrame
  <1>6. Lonely'
    BY <1>0, <1>2, <1>5, LonelyFrame
  <1>7. Origin(cm) # ShardOf[n]
    BY DEF Origin, Dest, CmSound
  <1>8. \A e \in cmdb[n] : e \in E \/ Confirmed(CmID(e.cm))
    <2> SUFFICES ASSUME NEW e \in cmdb[n] \ E PROVE Confirmed(CmID(e.cm))
      OBVIOUS
    <2>1. PICK p \in cm.packs : p[1] = CmID(e.cm)
      BY <1>1
    <2>2. Executed(Origin(cm), CmID(e.cm))
      BY <2>1 DEF CmSound, AllExecuted
    <2>3. CmID(e.cm)[1] = ShardOf[n]
      BY <1>0 DEF CmID, Sent
    <2> QED  BY <1>7, <2>2, <2>3, PackageConfirms
  <1>9. \A m \in Nodes : \A e \in cmdb[m] :
          (\E f \in cmdb'[m] : f.cm = e.cm) \/ Confirmed(CmID(e.cm))
    BY <1>2, <1>8
  <1>10. NotDeleted'
    <2>1. CASE crashes = 0
      BY <1>0, <1>9, <2>1, NotDeletedStep
    <2>2. CASE crashes # 0
      BY <2>2 DEF NotDeleted
    <2> QED  BY <2>1, <2>2
  <1> QED  BY <1>3, <1>4, <1>5, <1>6, <1>10

(* A cm that a pool holds, of a block of another shard with one relaytx which *)
(* that shard debits, brings this relaytx, and to the shard it goes to.       *)
LEMMA PoolMeant ==
    ASSUME EInv, NEW n \in Nodes, NEW c \in pool[n]
    PROVE  /\ Meant(ShardOf[n], CmID(c))
           /\ CmID(c)[1] # ShardOf[n] /\ Solo(CmID(c)[1], CmID(c)[2]) =>
                \A t \in BlockOf(CmID(c)).outs :
                    c.tx = t /\ c.tx # NoTx /\ ~JudgeCrossMessage(c)
  <1> DEFINE s == ShardOf[n]
             k == CmID(c)
  <1>1. c \in Cm /\ Genuine(c) /\ Dest(c) = s
    BY DEF EInv, IInv, CmsGenuine, TypeInv, TypeOK
  <1>2. c \in cache[n]
    BY DEF EInv, Sent
  <1>3. Decided(k)
    BY <1>2 DEF EInv, Sent, CmSound
  <1>4. k[1] = c.src /\ k[2] = c.h
    BY DEF CmID
  <1>5. ASSUME k[1] # s, Solo(k[1], k[2]), NEW t \in BlockOf(k).outs
        PROVE  c.tx = t /\ c.tx # NoTx /\ ~JudgeCrossMessage(c) /\ Receiver[t] = s
    <2>1. c.tx # NoTx /\ c.dst = s
      BY <1>1, <1>4, <1>5 DEF Dest
    <2>2. c.tx \in BlockTxs(BlockOf(k))
      BY <1>1, <1>4, <2>1 DEF Genuine, BlockOf
    <2>3. t \in BlockTxs(BlockOf(k))
      BY <1>5 DEF BlockTxs
    <2>4. c.tx = t
      BY <1>5, <2>2, <2>3 DEF Solo, BlockOf
    <2>5. Sender[t] = c.src
      BY <1>3, <1>4, <1>5 DEF EInv, OwnDebits, Decided, BlockOf
    <2>6. Receiver[t] = s
      BY <1>1, <2>1, <2>4, <2>5 DEF Genuine
    <2> QED  BY <2>1, <2>4, <2>5, <2>6 DEF JudgeCrossMessage
  <1> HIDE DEF k, s
  <1>6. Meant(s, k)
    BY <1>3, <1>5 DEF Meant
  <1> QED  BY <1>5, <1>6 DEF s, k

(* Rows that AppendRows adds. *)
LEMMA AppendRowsAre ==
    ASSUME NEW R, NEW h, NEW mult, NEW own, NEW r \in AppendRows(R, h, mult, own), r \notin R
    PROVE  r.cs = h /\ r.key \in DOMAIN mult /\ r.own = own /\ r.packs = {}
  <1> DEFINE base(k) == Cardinality({q \in RowsAt(R, h) : q.key = k})
             new(k) == {[cs |-> h, key |-> k, own |-> own, packs |-> {},
                         i |-> base(k) + j] : j \in 1..mult[k]}
  <1>1. AppendRows(R, h, mult, own) = R \cup UNION {new(k) : k \in DOMAIN mult}
    BY DEF AppendRows
  <1>2. \A k : \A q \in new(k) : q.cs = h /\ q.key = k /\ q.own = own /\ q.packs = {}
    <2> HIDE DEF base
    <2> QED  BY SMTT(30)
  <1> HIDE DEF new
  <1>3. PICK k \in DOMAIN mult : r \in new(k)
    BY <1>1
  <1> QED  BY <1>2, <1>3

(* The last block of a chain. *)
LEMMA LastBlock ==
    ASSUME TypeInv, NEW s \in Shards, cons[s].block # NoBlock,
           chain' = [chain EXCEPT ![s] = Append(@, cons[s].block)]
    PROVE  /\ Len(chain[s]) \in Nat
           /\ Len(chain'[s]) = Len(chain[s]) + 1
           /\ chain'[s][Len(chain[s]) + 1] = cons[s].block
           /\ \A z \in Shards \ {s} : chain'[z] = chain[z]
  <1>1. chain \in [Shards -> Seq(Block)] /\ cons[s].block \in Block
    BY DEF TypeInv, TypeOK, Round
  <1> QED  BY SMTT(30), <1>1

(* A lone validator decides on a block: it executes what its rows of the height name. *)
LEMMA ExecutedCommit ==
    ASSUME EInv, TypeInv', Grows, NEW s \in Shards, EnterCommit(s)
    PROVE  Rounds' /\ Lonely'
  <1>0. TypeInv /\ Rounds /\ Lonely /\ Tables
    BY DEF EInv, IInv
  <1>1. /\ cons[s].block # NoBlock
        /\ chain' = [chain EXCEPT ![s] = Append(@, cons[s].block)]
        /\ UNCHANGED <<app, pool, rl>>
    BY DEF EnterCommit
  <1>2. PICK l : EnterRound(s, 0, l, NoBlock, {})
    BY DEF EnterCommit
  <1>3. Rounds' /\ SameProposals
    BY <1>0, <1>2, RoundsStep, SameRound
  <1>4. /\ Len(chain[s]) \in Nat /\ Len(chain'[s]) = Len(chain[s]) + 1
        /\ chain'[s][Len(chain[s]) + 1] = cons[s].block
        /\ \A z \in Shards \ {s} : chain'[z] = chain[z]
    BY <1>0, <1>1, LastBlock
  <1>5. Lonely'
    <2> SUFFICES ASSUME NEW n \in Nodes, Simple(ShardOf[n]), NEW r \in rl[n]
                 PROVE  \/ r.cs \in 1..Len(chain'[ShardOf[n]]) /\ Executed(ShardOf[n], r.key)'
                        \/ r.cs = Len(chain'[ShardOf[n]]) + 1 /\ Current(n, r)'
      BY <1>1 DEF Lonely
    <2> DEFINE z == ShardOf[n]
    <2>1. z \in Shards
      BY ConstantsAssumption
    <2>2. CASE r.cs \in 1..Len(chain[z]) /\ Executed(z, r.key)
      <3>1. r.cs \in 1..Len(chain'[z])
        <4>1. Len(chain[z]) <= Len(chain'[z]) /\ Len(chain[z]) \in Nat /\ Len(chain'[z]) \in Nat
          BY SMTT(30), <1>0, <2>1 DEF Grows, TypeInv, TypeOK
        <4> QED  BY SMTT(30), <2>2, <4>1
      <3> QED  BY <1>0, <2>2, <3>1, ExecutedStays
    <2>3. CASE r.cs = Len(chain[z]) + 1 /\ Current(n, r) /\ z # s
      <3>1. /\ chain'[z] = chain[z]
            /\ cons'[z].block # NoBlock =>
                 cons[z].block # NoBlock /\ cons'[z].block.ins = cons[z].block.ins
        BY <1>3, <1>4, <2>1, <2>3 DEF SameProposals
      <3>2. Decided(r.key)
        BY <1>0 DEF Tables, Meant
      <3>3. /\ BlockOf(r.key)' = BlockOf(r.key)
            /\ Solo(r.key[1], r.key[2])' <=> Solo(r.key[1], r.key[2])
        BY <1>0, <3>2, DecidedStays
      <3>4. cons'[z].block # NoBlock => Included(z, r.key)'
        BY <2>3, <3>1, <3>3 DEF Current, Included
      <3> QED  BY <1>1, <2>3, <3>1, <3>4 DEF Current
    <2>4. CASE r.cs = Len(chain[z]) + 1 /\ Current(n, r) /\ z = s
      <3>1. Meant(s, r.key) /\ Included(s, r.key)
        BY <1>0, <1>1, <2>4 DEF Tables, Current
      <3>2. Decided(r.key) /\ Meant(s, r.key)'
        BY <1>0, <3>1, ExecutedStays DEF Meant
      <3>3. /\ BlockOf(r.key)' = BlockOf(r.key)
            /\ Solo(r.key[1], r.key[2])' <=> Solo(r.key[1], r.key[2])
        BY <1>0, <3>2, DecidedStays
      <3>4. ASSUME r.key[1] # s, Solo(r.key[1], r.key[2]), NEW t \in BlockOf(r.key).outs
            PROVE  Credits(t)' # {}
        <4>1. PICK c \in cons[s].block.ins : c.tx = t
          BY <3>1, <3>4 DEF Included
        <4>2. Receiver[t] = s
          BY <3>1, <3>4 DEF Meant
        <4> PICK h : h = Len(chain[s]) + 1
          OBVIOUS
        <4>3. h \in 1..Len(chain'[s]) /\ chain'[s][h] = cons[s].block
          BY SMTT(30), <1>4
        <4> QED  BY <4>1, <4>2, <4>3, CreditsHave
      <3>5. Executed(s, r.key)'
        BY <3>2, <3>3, <3>4 DEF Executed
      <3>6. r.cs \in 1..Len(chain'[s])
        BY SMTT(30), <1>4, <2>4
      <3> QED  BY <2>4, <3>5, <3>6
    <2> QED  BY <1>0, <2>2, <2>3, <2>4 DEF Lonely
  <1> QED  BY <1>3, <1>5

(* A proposal of a simple shard has every cm that a row of its height names: *)
(* what an earlier round reaped is reaped again.                             *)
LEMMA ExecutedPropose ==
    ASSUME EInv, TypeInv', Grows, NEW n \in Nodes, NEW T,
           NEW C \in SUBSET pool[n], NEW G \in SUBSET pool[n],
           ~GasCap[ShardOf[n]] => G = {},
           ReapsAgain(n, C \cup G), Propose(n, T, C, G)
    PROVE  Tables' /\ Rounds' /\ Lonely'
  <1> DEFINE s == ShardOf[n]
             ins == {c \in C : c.tx # NoTx /\ ~JudgeCrossMessage(c)}
  <1>0. TypeInv /\ Rounds /\ Lonely /\ Tables /\ s \in Shards
    BY ConstantsAssumption DEF EInv, IInv
  <1>h. PICK h : h = Len(chain[s]) + 1
    OBVIOUS
  <1>1. PICK R : /\ R = AddRelationTable(rl[n], h, C \cup G)
                 /\ rl' = [rl EXCEPT ![n] = R]
                 /\ EnterRound(s, cons[s].round, n,
                       [outs |-> T, ins |-> ins, packs |-> SearchRelationTable(R, h),
                        leader |-> n], {n})
    BY <1>h DEF Propose, Height
  <1>2. UNCHANGED <<chain, app, pool, done>> /\ app[n] = Len(chain[s])
    BY DEF Propose
  <1>b. PICK b : b = [outs |-> T, ins |-> ins, packs |-> SearchRelationTable(R, h),
                      leader |-> n]
    OBVIOUS
  <1>3. b.ins = ins /\ b.packs = SearchRelationTable(R, h)
    BY <1>b
  <1>4. ASSUME NEW r \in R, r \notin rl[n]
        PROVE  /\ r.cs = h /\ r.own /\ r.packs = {}
               /\ \E c \in C \cup G : r.key = CmID(c)
    <2> DEFINE mult == [k \in {CmID(c) : c \in C \cup G} |->
                          Cardinality({c \in C \cup G : CmID(c) = k})]
    <2>1. R = AppendRows(rl[n], h, mult, TRUE)
      BY <1>1 DEF AddRelationTable
    <2>2. DOMAIN mult = {CmID(c) : c \in C \cup G}
      OBVIOUS
    <2> HIDE DEF mult
    <2>3. r.cs = h /\ r.key \in DOMAIN mult /\ r.own = TRUE /\ r.packs = {}
      <3>1. r \in AppendRows(rl[n], h, mult, TRUE)
        BY <2>1
      <3> QED  BY <1>4, <3>1, AppendRowsAre
    <2> QED  BY <2>2, <2>3
  <1>5. \A r \in R : Meant(s, r.key)'
    <2>1. \A c \in C \cup G : Meant(s, CmID(c))'
      BY <1>0, PoolMeant, ExecutedStays
    <2>2. \A r \in rl[n] : Meant(s, r.key)'
      BY <1>0, ExecutedStays DEF Tables
    <2> QED  BY <1>4, <2>1, <2>2
  <1>6. \A m \in Nodes : rl'[m] = IF m = n THEN R ELSE rl[m]
    BY <1>0, <1>1 DEF TypeInv, TypeOK
  <1>7. Tables'
    <2>1. \A r \in R : r \in rl[n] \/ (Meant(s, r.key)' /\ AllExecuted(s, r.packs)')
      <3> SUFFICES ASSUME NEW r \in R, r \notin rl[n]
                   PROVE  Meant(s, r.key)' /\ AllExecuted(s, r.packs)'
        OBVIOUS
      <3>1. r.packs = {}
        BY <1>4
      <3> QED  BY <1>5, <3>1 DEF AllExecuted
    <2>2. \A m \in Nodes : \A r \in rl'[m] :
            \/ \E q \in rl[m] : q.key = r.key /\ q.packs = r.packs
            \/ Meant(ShardOf[m], r.key)' /\ AllExecuted(ShardOf[m], r.packs)'
      BY <1>6, <2>1
    <2> QED  BY <1>0, <1>2, <2>2, TablesStep
  <1>8. Rounds'
    <2>1. \A p \in b.packs : Meant(s, p[1])'
      <3>1. \A p \in SearchRelationTable(R, h) : \E r \in R : p[1] = r.key
        BY SMTT(30) DEF SearchRelationTable, RowsAt
      <3> QED  BY <1>3, <1>5, <3>1
    <2>2. EnterRound(s, cons[s].round, n, b, {n})
      BY <1>1, <1>b
    <2> QED  BY <1>0, <2>1, <2>2, RoundsStep
  <1>9. \A z \in Shards : cons'[z] = IF z = s
           THEN [round |-> cons[s].round, leader |-> n, block |-> b, prevoted |-> {n}]
           ELSE cons[z]
    BY <1>0, <1>1, <1>b DEF EnterRound, TypeInv, TypeOK
  <1>10. cons'[s].block = b
    BY SMTT(30), <1>0, <1>9
  <1>11. ASSUME Simple(s), NEW r \in R, NEW c \in C, CmID(c) = r.key
         PROVE  Included(s, r.key)'
    <2>1. ASSUME r.key[1] # s, Solo(r.key[1], r.key[2])', NEW t \in BlockOf(r.key)'.outs
          PROVE  c \in b.ins /\ c.tx = t
      <3>1. Solo(r.key[1], r.key[2]) /\ t \in BlockOf(r.key).outs
        BY <1>2, <2>1 DEF Solo, BlockTxs, BlockOf
      <3>2. c \in pool[n]
        OBVIOUS
      <3>3. c.tx = t /\ c.tx # NoTx /\ ~JudgeCrossMessage(c)
        BY <1>11, <2>1, <3>1, <3>2, PoolMeant
      <3> QED  BY <1>3, <3>3
    <2> QED  BY <1>10, <2>1 DEF Included
  <1>12. Lonely'
    <2> SUFFICES ASSUME NEW m \in Nodes, Simple(ShardOf[m]), NEW r \in rl'[m]
                 PROVE  \/ r.cs \in 1..Len(chain'[ShardOf[m]]) /\ Executed(ShardOf[m], r.key)'
                        \/ r.cs = Len(chain'[ShardOf[m]]) + 1 /\ Current(m, r)'
      BY DEF Lonely
    <2>1. CASE ShardOf[m] # s
      <3>1. r \in rl[m] /\ cons'[ShardOf[m]] = cons[ShardOf[m]]
        BY <1>6, <1>9, <2>1, ConstantsAssumption
      <3>2. Current(m, r) => Current(m, r)'
        BY <1>2, <3>1 DEF Current, Included, Solo, BlockTxs, BlockOf
      <3> QED  BY <1>0, <1>2, <3>1, <3>2, ExecutedStays DEF Lonely
    <2>2. CASE ShardOf[m] = s
      <3>1. m = n /\ r \in R /\ Simple(s)
        <4>1. m \in NodesOf(s) /\ n \in NodesOf(s) /\ Lone(s)
          BY <2>2 DEF Simple, NodesOf
        <4>2. m = n
          BY <4>1 DEF Lone
        <4> QED  BY <1>6, <2>2, <4>2
      <3>2. G = {}
        BY <3>1 DEF Simple
      <3>3. CASE r \in rl[n] /\ r.cs \in 1..Len(chain[s]) /\ Executed(s, r.key)
        BY <1>0, <1>2, <2>2, <3>3, ExecutedStays
      <3>4. ASSUME NEW c \in C, CmID(c) = r.key, r.own, r.cs = h
            PROVE  r.cs = Len(chain'[s]) + 1 /\ Current(m, r)'
        <4>1. Included(s, r.key)'
          BY <1>11, <3>1, <3>4
        <4>2. \E x \in pool'[n] : CmID(x) = r.key
          BY <1>2, <3>4
        <4> QED  BY <1>2, <1>h, <3>1, <3>4, <4>1, <4>2 DEF Current
      <3>5. CASE r \in rl[n] /\ r.cs = Len(chain[s]) + 1 /\ Current(n, r)
        <4>1. r \in RowsAt(rl[n], Height(s)) /\ r.own /\ \E c \in pool[n] : CmID(c) = r.key
          BY <3>5 DEF RowsAt, Height, Current
        <4>2. \E c \in C : CmID(c) = r.key
          BY <3>2, <4>1 DEF ReapsAgain
        <4> QED  BY <1>h, <2>2, <3>4, <3>5, <4>1, <4>2
      <3>6. CASE r \notin rl[n]
        BY <1>4, <2>2, <3>1, <3>2, <3>4, <3>6
      <3> QED  BY <1>0, <3>1, <3>3, <3>5, <3>6 DEF Lonely
    <2> QED  BY <2>1, <2>2
  <1> QED  BY <1>7, <1>8, <1>12

(* A node applies a decided block: the rows it has were written for blocks   *)
(* that are decided, so it confirms, stores and saves what was executed.     *)
LEMMA ExecutedFinalize ==
    ASSUME EInv, TypeInv', Grows, NEW n \in Nodes, FinalizeCommit(n)
    PROVE  Sent' /\ Tables' /\ Rounds' /\ Lonely' /\ NotDeleted'
  <1> DEFINE s == ShardOf[n]
             b == chain[s][FHeight(n)]
  <1>0. /\ TypeInv /\ Sent /\ Tables /\ Rounds /\ Lonely /\ NotDeleted /\ OwnDebits
        /\ s \in Shards
    BY ConstantsAssumption DEF EInv, IInv
  <1> PICK packs, k : packs = FPacks(n) /\ k = FHeight(n)
    OBVIOUS
  <1>1. /\ app' = [app EXCEPT ![n] = FHeight(n)]
        /\ pool' = [pool EXCEPT ![n] = @ \ FGone(n)]
        /\ rl' = [rl EXCEPT ![n] = FRows(n) \ FSaved(n)]
        /\ done' = [done EXCEPT ![n] = Save(@, FSaved(n))]
        /\ cmdb' = [cmdb EXCEPT ![n] = UpdatecmDB(FEntries(n))]
        /\ \E S : /\ S \subseteq FConfirming(n) \cup Due(FEntries(n))
                 /\ net' = net \cup S
        /\ UNCHANGED <<chain, cons, cache, crashes>>
        /\ app[n] < Len(chain[s])
    BY FinalizeEffect
  <1>2. Rounds' /\ SameProposals
    BY <1>0, <1>1, RoundsFrame
  <1>3. /\ FHeight(n) \in 1..Len(chain[s])
        /\ b \in Block /\ FEntries(n) \subseteq Entry /\ FCms(n) \subseteq Cm
    BY <1>0, FinalizeType
  <1>4. ASSUME NEW r \in rl[n]
        PROVE  Executed(s, r.key) /\ (Simple(s) => r.cs \in 1..Len(chain[s]))
    <2>1. Meant(s, r.key)
      BY <1>0 DEF Tables
    <2>2. ASSUME Simple(s) PROVE r.cs \in 1..Len(chain[s]) /\ Executed(s, r.key)
      <3>1. app[n] # Len(chain[s])
        <4>1. app[n] \in Nat
          BY <1>0 DEF TypeInv, TypeOK
        <4> QED  BY SMTT(30), <1>1, <4>1
      <3>2. ~Current(n, r)
        BY <3>1 DEF Current
      <3> QED  BY <1>0, <2>2, <3>2 DEF Lonely
    <2> QED  BY <2>1, <2>2 DEF Executed
  <1>5. AllExecuted(s, packs) /\ AllExecuted(s, packs)'
    <2>1. \A p \in packs : \E r \in rl[n] : r.key = p[1]
      BY SMTT(30) DEF FPacks, SearchRelationTable, RowsAt
    <2>2. AllExecuted(s, packs)
      BY <1>4, <2>1 DEF AllExecuted
    <2> QED  BY <1>0, <2>2, SoundStays
  <1>6. \A c \in FCms(n) : /\ c.packs = packs /\ c.src = s /\ c.h = k
                           /\ c.tx \in BlockTxs(b) /\ c.src # c.dst
    <2>1. \A t \in BlockTxs(b) : t \in RelayTxs
      BY <1>3 DEF BlockTxs, Block, Cm
    <2>2. \A t \in RelayTxs : (IF Sender[t] = s THEN Receiver[t] ELSE Sender[t]) # s
      BY ConstantsAssumption
    <2> QED  BY SMTT(30), <2>1, <2>2 DEF FCms, ClassifyTxFromBlock
  <1>7. \A c \in FCms(n) : CmSound(c) /\ CmSound(c)' /\ c.src = s
    <2> TAKE c \in FCms(n)
    <2>1. c.tx # NoTx
      <3>1. c.tx \in BlockTxs(b)
        BY <1>6
      <3>2. \A t \in BlockTxs(b) : t \in RelayTxs
        BY <1>3 DEF BlockTxs, Block, Cm
      <3> QED  BY <3>1, <3>2, ConstantsAssumption
    <2>2. CmID(c)[1] = s /\ CmID(c)[2] = k
      BY <1>6 DEF CmID
    <2>3. Decided(CmID(c))
      BY <1>0, <1>3, <2>2 DEF Decided
    <2>4. Origin(c) = s
      BY <1>6, <2>1 DEF Origin
    <2>5. CmSound(c)
      BY <1>5, <1>6, <2>3, <2>4 DEF CmSound
    <2> QED  BY <1>0, <1>6, <2>5, SoundStays
  <1>8. \A e \in FEntries(n) : e \in cmdb[n] \/ e.cm \in FCms(n)
    BY SMTT(30) DEF FEntries, AddCrossMessagesDB
  <1>9. \A e \in FEntries(n) : CmSound(e.cm)' /\ e.cm.src = s
    <2>1. \A e \in cmdb[n] : CmSound(e.cm)' /\ e.cm.src = s
      BY <1>0, SoundStays DEF Sent
    <2> QED  BY <1>7, <1>8, <2>1
  <1>10. /\ \A e \in UpdatecmDB(FEntries(n)) : \E f \in FEntries(n) : f.cm = e.cm
         /\ \A f \in FEntries(n) : \E e \in UpdatecmDB(FEntries(n)) : e.cm = f.cm
    BY <1>3, UpdatecmDBKeeps
  <1>11. \A m \in Nodes : /\ cmdb'[m] = IF m = n THEN UpdatecmDB(FEntries(n)) ELSE cmdb[m]
                          /\ pool'[m] = IF m = n THEN pool[n] \ FGone(n) ELSE pool[m]
                          /\ rl'[m] = IF m = n THEN FRows(n) \ FSaved(n) ELSE rl[m]
                          /\ done'[m] = IF m = n THEN Save(done[n], FSaved(n)) ELSE done[m]
                          /\ app'[m] = IF m = n THEN FHeight(n) ELSE app[m]
    BY <1>0, <1>1 DEF TypeInv, TypeOK
  <1>12. Sent'
    <2>1. \A c \in net' : c \in net \/ CmSound(c)'
      BY <1>1, <1>7, <1>9 DEF FConfirming, Due
    <2>2. \A m \in Nodes : \A e \in cmdb'[m] :
            (\E f \in cmdb[m] : f.cm = e.cm) \/ (CmSound(e.cm)' /\ e.cm.src = ShardOf[m])
      BY <1>9, <1>10, <1>11
    <2>3. \A m \in Nodes : pool'[m] \subseteq cache'[m]
      <3>1. \A m \in Nodes : pool'[m] \subseteq pool[m]
        BY <1>11
      <3> QED  BY <1>0, <1>1, <3>1 DEF Sent
    <2>4. \A m \in Nodes : \A c \in cache'[m] : c \in cache[m] \/ CmSound(c)'
      BY <1>1
    <2> QED  BY <1>0, <2>1, <2>2, <2>3, <2>4, SentStep
  <1>13. \A r \in FRows(n) : \E q \in rl[n] :
           q.key = r.key /\ q.cs = r.cs /\ (q.packs = r.packs \/ r.packs = packs)
    <2> DEFINE mod(r) == IF r.cs = k THEN [r EXCEPT !.packs = packs] ELSE r
    <2>1. \A r \in Row : /\ mod(r).key = r.key /\ mod(r).cs = r.cs
                         /\ r.packs = mod(r).packs \/ mod(r).packs = packs
      BY SMTT(30) DEF Row
    <2>2. rl[n] \subseteq Row
      BY <1>0 DEF TypeInv, TypeOK
    <2>3. FRows(n) = {mod(r) : r \in rl[n]}
      BY DEF FRows, ModifyRelationTable
    <2> HIDE DEF mod
    <2> QED  BY <2>1, <2>2, <2>3
  <1>14. \A r \in FRows(n) : /\ Executed(s, r.key)' /\ AllExecuted(s, r.packs)'
                             /\ Simple(s) => r.cs \in 1..Len(chain[s])
    <2> TAKE r \in FRows(n)
    <2>1. PICK q \in rl[n] :
            q.key = r.key /\ q.cs = r.cs /\ (q.packs = r.packs \/ r.packs = packs)
      BY <1>13
    <2>2. Executed(s, r.key)' /\ (Simple(s) => r.cs \in 1..Len(chain[s]))
      BY <1>0, <1>4, <2>1, ExecutedStays
    <2>3. AllExecuted(s, r.packs)'
      <3>1. AllExecuted(s, q.packs)'
        BY <1>0, SoundStays DEF Tables
      <3> QED  BY <1>5, <2>1, <3>1
    <2> QED  BY <2>2, <2>3
  <1>15. Tables'
    <2>1. \A m \in Nodes : \A r \in rl'[m] :
            \/ \E q \in rl[m] : q.key = r.key /\ q.packs = r.packs
            \/ Meant(ShardOf[m], r.key)' /\ AllExecuted(ShardOf[m], r.packs)'
      <3>1. \A r \in FRows(n) : Meant(s, r.key)' /\ AllExecuted(s, r.packs)'
        BY <1>14 DEF Executed
      <3> QED  BY <1>11, <3>1
    <2>2. \A d \in Save(done[n], FSaved(n)) :
            d \in done[n] \/ \E r \in FRows(n) : d.key = r.key /\ d.packs = r.packs
      <3>1. FSaved(n) \subseteq FRows(n)
        BY DEF FSaved, RemovedRows
      <3> QED  BY SMTT(30), <3>1 DEF Save
    <2>3. \A d \in Save(done[n], FSaved(n)) :
            d \in done[n] \/ (Executed(s, d.key)' /\ AllExecuted(s, d.packs)')
      BY <1>14, <2>2
    <2>4. \A m \in Nodes : \A d \in done'[m] :
            d \in done[m] \/ (Executed(ShardOf[m], d.key)' /\ AllExecuted(ShardOf[m], d.packs)')
      BY <1>11, <2>3
    <2> QED  BY <1>0, <2>1, <2>4, TablesStep
  <1>16. Lonely'
    <2> SUFFICES ASSUME NEW m \in Nodes, Simple(ShardOf[m]), NEW r \in rl'[m]
                 PROVE  \/ r.cs \in 1..Len(chain'[ShardOf[m]]) /\ Executed(ShardOf[m], r.key)'
                        \/ r.cs = Len(chain'[ShardOf[m]]) + 1 /\ Current(m, r)'
      BY DEF Lonely
    <2>1. CASE m = n
      <3>1. r \in FRows(n) /\ Simple(s)
        BY <1>11, <2>1
      <3>2. r.cs \in 1..Len(chain'[s]) /\ Executed(s, r.key)'
        BY <1>1, <1>14, <3>1
      <3> QED  BY <2>1, <3>2
    <2>2. CASE m # n
      <3>1. r \in rl[m] /\ app'[m] = app[m] /\ pool'[m] = pool[m]
        BY <1>11, <2>2
      <3>2. Current(m, r) => Current(m, r)'
        BY <1>1, <3>1 DEF Current, Included, Solo, BlockTxs, BlockOf
      <3> QED  BY <1>0, <1>1, <3>1, <3>2, ExecutedStays DEF Lonely
    <2> QED  BY <2>1, <2>2
  <1>17. NotDeleted'
    <2>1. CASE crashes = 0
      BY <1>0, <2>1, FinalizeKeeps, NotDeletedStep
    <2>2. CASE crashes # 0
      BY <1>1, <2>2 DEF NotDeleted
    <2> QED  BY <2>1, <2>2
  <1> QED  BY <1>2, <1>12, <1>15, <1>16, <1>17

(* A follower's prevote writes rows for the packages of the proposal.  In a  *)
(* shard of one validator there is no follower.                              *)
LEMMA ExecutedPrevote ==
    ASSUME EInv, TypeInv', Grows, NEW n \in Nodes, Prevote(n)
    PROVE  Tables' /\ Rounds' /\ Lonely' /\ SameProposals
  <1> DEFINE s == ShardOf[n]
  <1>0. TypeInv /\ Tables /\ Rounds /\ Lonely /\ s \in Shards
    BY ConstantsAssumption DEF EInv, IInv
  <1>b. PICK b, h : b = cons[s].block /\ h = Height(s)
    OBVIOUS
  <1>1. /\ b # NoBlock /\ n \notin cons[s].prevoted
        /\ rl' = [rl EXCEPT ![n] = SyncRelationTable(rl[n], h, b.packs)]
        /\ EnterRound(s, cons[s].round, cons[s].leader, b, cons[s].prevoted \cup {n})
        /\ UNCHANGED <<chain, app, pool, done>>
    BY <1>b DEF Prevote
  <1>2. /\ \A p \in b.packs : Meant(s, p[1])
        /\ cons[s].leader \in cons[s].prevoted /\ ShardOf[cons[s].leader] = s
    BY <1>0, <1>1, <1>b DEF Rounds
  <1>3. \A p \in b.packs : Meant(s, p[1])'
    BY <1>0, <1>2, ExecutedStays
  <1>4. Rounds'
    BY <1>0, <1>1, <1>2, <1>3, RoundsStep
  <1>5. SameProposals
    BY <1>0, <1>1, <1>b, SameRound
  <1>r. PICK R : R = SyncRelationTable(rl[n], h, b.packs)
    OBVIOUS
  <1>6. \A m \in Nodes : rl'[m] = IF m = n THEN R ELSE rl[m]
    BY <1>0, <1>1, <1>r DEF TypeInv, TypeOK
  <1>7. ASSUME NEW r \in R, r \notin rl[n]
        PROVE  r.packs = {} /\ \E p \in b.packs : r.key = p[1]
    <2> DEFINE mult == [k \in {p[1] : p \in b.packs} |->
                          Cardinality({p \in b.packs : p[1] = k})]
    <2>1. r \in AppendRows(rl[n], h, mult, FALSE)
      BY <1>r DEF SyncRelationTable
    <2>2. DOMAIN mult = {p[1] : p \in b.packs}
      OBVIOUS
    <2> HIDE DEF mult
    <2>3. r.key \in DOMAIN mult /\ r.packs = {}
      BY <1>7, <2>1, AppendRowsAre
    <2> QED  BY <2>2, <2>3
  <1>8. Tables'
    <2>1. \A r \in R : r \in rl[n] \/ (Meant(s, r.key)' /\ AllExecuted(s, r.packs)')
      <3> SUFFICES ASSUME NEW r \in R, r \notin rl[n]
                   PROVE  Meant(s, r.key)' /\ AllExecuted(s, r.packs)'
        OBVIOUS
      <3>1. r.packs = {} /\ \E p \in b.packs : r.key = p[1]
        BY <1>7
      <3> QED  BY <1>3, <3>1 DEF AllExecuted
    <2>2. \A m \in Nodes : \A r \in rl'[m] :
            \/ \E q \in rl[m] : q.key = r.key /\ q.packs = r.packs
            \/ Meant(ShardOf[m], r.key)' /\ AllExecuted(ShardOf[m], r.packs)'
      BY <1>6, <2>1
    <2> QED  BY <1>0, <1>1, <2>2, TablesStep
  <1>9. ~Lone(s)
    <2>1. cons[s].leader \in NodesOf(s) /\ n \in NodesOf(s)
      BY <1>0, <1>2 DEF TypeInv, TypeOK, Round, NodesOf
    <2> QED  BY <1>1, <1>2, <2>1 DEF Lone
  <1>10. \A m \in Nodes : Simple(ShardOf[m]) => rl'[m] = rl[m]
    BY <1>6, <1>9 DEF Simple
  <1>11. Lonely'
    BY <1>0, <1>1, <1>5, <1>10, LonelyFrame
  <1> QED  BY <1>4, <1>5, <1>8, <1>11

(* Steps that leave cmDBs, caches and the network alone. *)
LEMMA ExecutedVotes ==
    ASSUME EInv, TypeInv', Grows, UNCHANGED <<app, pool, cache, cmdb, net, crashes>>
    PROVE  Sent' /\ NotDeleted'
  <1>1. TypeInv /\ Sent /\ OwnDebits /\ NotDeleted
    BY DEF EInv, IInv
  <1>2. Sent'
    <2>1. \A n \in Nodes : pool'[n] \subseteq cache'[n]
      BY <1>1 DEF Sent
    <2> QED  BY <1>1, <2>1, SentStep
  <1>3. CASE crashes = 0
    BY <1>1, <1>2, <1>3, NotDeletedStep
  <1>4. CASE crashes # 0
    BY <1>2, <1>4 DEF NotDeleted
  <1> QED  BY <1>3, <1>4

(* An empty block sends what is stored. *)
LEMMA ExecutedEmptyBlock ==
    ASSUME EInv, TypeInv', Grows, NEW s \in Shards, EmptyBlock(s)
    PROVE  Sent' /\ Tables' /\ Rounds' /\ Lonely' /\ NotDeleted' /\ SameProposals
  <1>0. TypeInv /\ Sent /\ Tables /\ Rounds /\ Lonely /\ NotDeleted /\ OwnDebits
    BY DEF EInv, IInv
  <1>1. /\ cmdb' = [n \in Nodes |-> IF ShardOf[n] = s THEN UpdatecmDB(cmdb[n])
                                                     ELSE cmdb[n]]
        /\ \E S : S \subseteq Due(cmdb[cons[s].leader]) /\ net' = net \cup S
        /\ UNCHANGED <<chain, app, pool, cache, rl, done, crashes>>
    BY DEF EmptyBlock, SendCrossMessages
  <1>2. PICK l : EnterRound(s, 0, l, NoBlock, {})
    BY DEF EmptyBlock
  <1>3. Rounds' /\ SameProposals
    BY <1>0, <1>2, RoundsStep, SameRound
  <1>4. Tables'
    BY <1>0, <1>1, TablesStep
  <1>5. Lonely'
    BY <1>0, <1>1, <1>3, LonelyFrame
  <1>6. \A n \in Nodes : cmdb[n] \subseteq Entry
    BY <1>0 DEF TypeInv, TypeOK
  <1>7. \A n \in Nodes : /\ \A e \in cmdb'[n] : \E f \in cmdb[n] : f.cm = e.cm
                         /\ \A e \in cmdb[n] : \E f \in cmdb'[n] : f.cm = e.cm
    BY <1>1, <1>6, UpdatecmDBKeeps
  <1>8. Sent'
    <2>1. cons[s].leader \in Nodes
      BY <1>0 DEF TypeInv, TypeOK, Round
    <2>2. \A c \in Due(cmdb[cons[s].leader]) : CmSound(c)
      BY <1>0, <2>1 DEF Due, Sent
    <2>3. \A c \in net' : c \in net \/ CmSound(c)'
      BY <1>0, <1>1, <2>2, SoundStays
    <2>4. \A n \in Nodes : pool'[n] \subseteq cache'[n]
      BY <1>0, <1>1 DEF Sent
    <2> QED  BY <1>0, <1>1, <1>7, <2>3, <2>4, SentStep
  <1>9. NotDeleted'
    <2>1. CASE crashes = 0
      BY <1>0, <1>1, <1>7, <2>1, NotDeletedStep
    <2>2. CASE crashes # 0
      BY <1>1, <2>2 DEF NotDeleted
    <2> QED  BY <2>1, <2>2
  <1> QED  BY <1>3, <1>4, <1>5, <1>8, <1>9

(* A round fails: the next proposal is a new one, or the same again. *)
LEMMA ExecutedNewRound ==
    ASSUME EInv, TypeInv', Grows, NEW s \in Shards, EnterNewRound(s)
    PROVE  Tables' /\ Rounds' /\ Lonely' /\ SameProposals
  <1>0. TypeInv /\ Tables /\ Rounds /\ Lonely
    BY DEF EInv, IInv
  <1>1. cons[s].block # NoBlock /\ UNCHANGED <<chain, app, pool, rl, done>>
    BY DEF EnterNewRound
  <1>2. PICK l \in NodesOf(s) :
           \/ EnterRound(s, cons[s].round + 1, l, NoBlock, {})
           \/ EnterRound(s, cons[s].round + 1, l, ProposedBy(cons[s].block, l), {l})
    BY DEF EnterNewRound
  <1>3. /\ ProposedBy(cons[s].block, l).packs = cons[s].block.packs
        /\ ProposedBy(cons[s].block, l).ins = cons[s].block.ins
        /\ ProposedBy(cons[s].block, l).outs = cons[s].block.outs
    BY DEF ProposedBy
  <1>4. \A p \in cons[s].block.packs : Meant(s, p[1])'
    BY <1>0, <1>1, ExecutedStays DEF Rounds
  <1>5. ShardOf[l] = s
    BY DEF NodesOf
  <1>6. Rounds' /\ SameProposals
    <2>1. CASE EnterRound(s, cons[s].round + 1, l, NoBlock, {})
      BY <1>0, <2>1, RoundsStep, SameRound
    <2>2. CASE EnterRound(s, cons[s].round + 1, l, ProposedBy(cons[s].block, l), {l})
      <3> PICK b : b = ProposedBy(cons[s].block, l)
        OBVIOUS
      <3>1. /\ EnterRound(s, cons[s].round + 1, l, b, {l})
            /\ b.packs = cons[s].block.packs
            /\ b.ins = cons[s].block.ins /\ b.outs = cons[s].block.outs
        BY <1>3, <2>2
      <3>2. Rounds'
        BY <1>0, <1>4, <1>5, <3>1, RoundsStep
      <3> QED  BY <1>0, <1>1, <3>1, <3>2, SameRound
    <2> QED  BY <1>2, <2>1, <2>2
  <1>7. Tables'
    BY <1>0, <1>1, TablesStep
  <1>8. Lonely'
    BY <1>0, <1>1, <1>6, LonelyFrame
  <1> QED  BY <1>6, <1>7, <1>8

(* A reply from checkdb confirms what the record says. *)
LEMMA ExecutedReply ==
    ASSUME EInv, TypeInv', Grows, NEW n \in Nodes, NEW cm \in net, ReplyFromCheckdb(n, cm)
    PROVE  Sent' /\ NotDeleted'
  <1>0. TypeInv /\ Sent /\ Tables /\ OwnDebits /\ NotDeleted
    BY DEF EInv, IInv
  <1>1. PICK d \in done[n] : /\ d.key = CmID(cm)
                             /\ \E S : S \subseteq {Receipt(n, d)} /\ net' = net \cup S
    BY DEF ReplyFromCheckdb, SendCrossMessages
  <1>2. cm.src # ShardOf[n] /\ UNCHANGED <<app, pool, cache, cmdb, crashes>>
    BY DEF ReplyFromCheckdb
  <1> PICK c : c = Receipt(n, d)
    OBVIOUS
  <1>3. c.src = d.key[1] /\ c.h = d.key[2] /\ c.dst = ShardOf[n] /\ c.tx = NoTx /\ c.packs = d.packs
    BY DEF Receipt
  <1>4. Executed(ShardOf[n], d.key) /\ AllExecuted(ShardOf[n], d.packs)
    BY <1>0 DEF Tables
  <1>5. CmSound(c)
    <2>1. CmID(c)[1] = d.key[1] /\ CmID(c)[2] = d.key[2]
      BY <1>3 DEF CmID
    <2>2. Decided(CmID(c))
      BY <1>4, <2>1 DEF Executed, Meant, Decided
    <2>3. c.src # c.dst
      <3>1. CmID(cm)[1] = cm.src
        BY DEF CmID
      <3> QED  BY <1>1, <1>2, <1>3, <3>1
    <2>4. Origin(c) = ShardOf[n]
      BY <1>3 DEF Origin
    <2> QED  BY <1>3, <1>4, <2>2, <2>3, <2>4 DEF CmSound
  <1>6. \A x \in net' : x \in net \/ CmSound(x)'
    BY <1>0, <1>1, <1>5, SoundStays
  <1>7. Sent'
    <2>1. \A m \in Nodes : pool'[m] \subseteq cache'[m]
      BY <1>0, <1>2 DEF Sent
    <2> QED  BY <1>0, <1>2, <1>6, <2>1, SentStep
  <1>8. NotDeleted'
    <2>1. CASE crashes = 0
      BY <1>0, <1>2, <2>1, NotDeletedStep
    <2>2. CASE crashes # 0
      BY <1>2, <2>2 DEF NotDeleted
    <2> QED  BY <2>1, <2>2
  <1> QED  BY <1>7, <1>8

(* Every step keeps confirmations behind executions. *)
LEMMA ExecutedNext ==
    ASSUME EInv, [Next]_vars
    PROVE  EInv'
  <1> DEFINE Goal == Sent' /\ Tables' /\ Rounds' /\ Lonely' /\ NotDeleted'
  <1>0. TypeInv /\ TypeInv' /\ Grows /\ IInv' /\ OwnDebits'
    BY NextGrows, SafeNext, OwnNext DEF EInv, IInv
  <1>1. Sent /\ Tables /\ Rounds /\ Lonely /\ NotDeleted
    BY DEF EInv
  <1>2. ASSUME NEW n \in Nodes, CreateProposalBlock(n) PROVE Goal
    <2>1. PICK T \in SUBSET Pending(ShardOf[n]), C \in SUBSET pool[n] :
            \E G \in GasStops(ShardOf[n], pool[n] \ C) :
                ReapsAgain(n, C \cup G) /\ Propose(n, T, C, G)
      BY <1>2 DEF CreateProposalBlock
    <2>2. PICK G \in GasStops(ShardOf[n], pool[n] \ C) :
            ReapsAgain(n, C \cup G) /\ Propose(n, T, C, G)
      BY <2>1
    <2>3. G \in SUBSET pool[n] /\ (~GasCap[ShardOf[n]] => G = {})
      BY DEF GasStops
    <2>4. UNCHANGED <<app, pool, cache, cmdb, net, crashes>>
      BY <2>2 DEF Propose
    <2> QED  BY <1>0, <2>2, <2>3, <2>4, ExecutedPropose, ExecutedVotes
  <1>3. ASSUME NEW n \in Nodes, Prevote(n) PROVE Goal
    <2>1. UNCHANGED <<app, pool, cache, cmdb, net, crashes>>
      BY <1>3 DEF Prevote
    <2> QED  BY <1>0, <1>3, <2>1, ExecutedPrevote, ExecutedVotes
  <1>4. ASSUME NEW n \in Nodes, FinalizeCommit(n) PROVE Goal
    BY <1>0, <1>4, ExecutedFinalize
  <1>5. ASSUME NEW n \in Nodes, Restart(n) PROVE Goal
    <2>1. /\ crashes' = crashes + 1 /\ UNCHANGED <<chain, cons, app, done, net>>
          /\ \A m \in Nodes : /\ pool'[m] = IF m = n THEN {} ELSE pool[m]
                              /\ cache'[m] = IF m = n THEN {} ELSE cache[m]
                              /\ rl'[m] = IF m = n THEN {} ELSE rl[m]
                              /\ cmdb'[m] = IF m = n THEN {} ELSE cmdb[m]
      BY <1>0, <1>5 DEF Restart, TypeInv, TypeOK
    <2>2. crashes' # 0
      <3>1. crashes \in Nat
        BY SMTT(30), <1>0, ConstantsAssumption DEF TypeInv, TypeOK
      <3> QED  BY SMTT(30), <2>1, <3>1
    <2>3. NotDeleted'
      BY <2>2 DEF NotDeleted
    <2>4. Sent'
      <3>1. \A m \in Nodes : pool'[m] \subseteq cache'[m]
        BY <1>1, <2>1 DEF Sent
      <3>2. \A m \in Nodes : cache'[m] \subseteq cache[m] /\ cmdb'[m] \subseteq cmdb[m]
        BY <2>1
      <3> QED  BY <1>0, <1>1, <2>1, <3>1, <3>2, SentStep
    <2>5. \A m \in Nodes : \A r \in rl'[m] : r \in rl[m] /\ pool[m] \subseteq pool'[m]
      BY <2>1
    <2>6. Tables'
      BY <1>0, <1>1, <2>1, <2>5, TablesStep
    <2>7. Rounds' /\ SameProposals
      BY <1>0, <1>1, <2>1, RoundsFrame
    <2>8. Lonely'
      BY <1>0, <1>1, <2>1, <2>5, <2>7, LonelyFrame
    <2> QED  BY <2>3, <2>4, <2>6, <2>7, <2>8
  <1>6. ASSUME NEW n \in Nodes, NEW cm \in net, ReceiveCm(n, cm) PROVE Goal
    <2>1. /\ CmSound(cm) /\ Dest(cm) = ShardOf[n]
          /\ UNCHANGED <<chain, cons, app, rl, done, net, crashes>>
      BY <1>1, <1>6 DEF Sent, ReceiveCm, Delivered
    <2>2. /\ cache' = [cache EXCEPT ![n] = @ \cup {cm}]
          /\ pool' = [pool EXCEPT ![n] = @ \cup {cm}]
          /\ \E E : /\ RemoveCrossMessagesDB(cmdb[n], cm.packs, E)
                   /\ cmdb' = [cmdb EXCEPT ![n] = E]
      BY <1>6 DEF ReceiveCm, CheckTxWithInfo
    <2> QED  BY <1>0, <2>1, <2>2, ExecutedArrival
  <1>7. ASSUME NEW n \in Nodes, NEW cm \in net, ReceiveReceipt(n, cm) PROVE Goal
    <2>1. /\ CmSound(cm) /\ Dest(cm) = ShardOf[n]
          /\ UNCHANGED <<chain, cons, app, rl, done, net, crashes>>
      BY <1>1, <1>7 DEF Sent, ReceiveReceipt, Delivered
    <2>2. /\ \/ /\ cache' = [cache EXCEPT ![n] = @ \cup {cm}]
                /\ pool' = [pool EXCEPT ![n] = @ \cup {cm}]
             \/ UNCHANGED <<pool, cache>>
          /\ \E E : /\ RemoveCrossMessagesDB(cmdb[n], cm.packs, E)
                   /\ cmdb' = [cmdb EXCEPT ![n] = E]
      BY <1>7 DEF ReceiveReceipt
    <2> QED  BY <1>0, <2>1, <2>2, ExecutedArrival
  <1>8. ASSUME NEW n \in Nodes, NEW m \in Nodes, NEW cm \in cache[m],
               GossipReceive(n, m, cm)
        PROVE  Goal
    <2>1. ShardOf[n] = ShardOf[m] /\ UNCHANGED <<chain, cons, app, rl, done, net, crashes>>
      BY <1>8 DEF GossipReceive
    <2>2. CmSound(cm) /\ Dest(cm) = ShardOf[n]
      BY <1>1, <2>1 DEF Sent, EInv, IInv, CmsGenuine
    <2>3. /\ \/ /\ cache' = [cache EXCEPT ![n] = @ \cup {cm}]
                /\ pool' = [pool EXCEPT ![n] = @ \cup {cm}]
             \/ UNCHANGED <<pool, cache>>
          /\ \E E : /\ RemoveCrossMessagesDB(cmdb[n], cm.packs, E)
                   /\ cmdb' = [cmdb EXCEPT ![n] = E]
      BY <1>8 DEF GossipReceive, CheckTxWithInfo
    <2> QED  BY <1>0, <2>1, <2>2, <2>3, ExecutedArrival
  <1>9. ASSUME NEW n \in Nodes, NEW cm \in net, ReplyFromCheckdb(n, cm) PROVE Goal
    <2>1. UNCHANGED <<chain, cons, app, pool, rl, done>>
      BY <1>9 DEF ReplyFromCheckdb
    <2>2. Sent' /\ NotDeleted'
      BY <1>0, <1>9, ExecutedReply
    <2>3. Tables'
      BY <1>0, <1>1, <2>1, TablesStep
    <2>4. Rounds' /\ SameProposals
      BY <1>0, <1>1, <2>1, RoundsFrame
    <2>5. Lonely'
      BY <1>0, <1>1, <2>1, <2>4, LonelyFrame
    <2> QED  BY <2>2, <2>3, <2>4, <2>5
  <1>10. ASSUME NEW s \in Shards, EnterNewRound(s) PROVE Goal
    <2>1. UNCHANGED <<app, pool, cache, cmdb, net, crashes>>
      BY <1>10 DEF EnterNewRound
    <2> QED  BY <1>0, <1>10, <2>1, ExecutedNewRound, ExecutedVotes
  <1>11. ASSUME NEW s \in Shards, EnterCommit(s) PROVE Goal
    <2>1. UNCHANGED <<app, pool, cache, rl, done, cmdb, net, crashes>>
      BY <1>11 DEF EnterCommit
    <2>2. Tables'
      BY <1>0, <1>1, <2>1, TablesStep
    <2> QED  BY <1>0, <1>11, <2>1, <2>2, ExecutedCommit, ExecutedVotes
  <1>12. ASSUME NEW s \in Shards, EmptyBlock(s) PROVE Goal
    BY <1>0, <1>12, ExecutedEmptyBlock
  <1>13. ASSUME UNCHANGED vars PROVE Goal
    <2>1. UNCHANGED <<chain, cons, app, pool, cache, rl, done, cmdb, net, crashes>>
      BY <1>13 DEF vars
    <2>2. Tables'
      BY <1>0, <1>1, <2>1, TablesStep
    <2>3. Rounds' /\ SameProposals
      BY <1>0, <1>1, <2>1, RoundsFrame
    <2>4. Lonely'
      BY <1>0, <1>1, <2>1, <2>3, LonelyFrame
    <2> QED  BY <1>0, <2>1, <2>2, <2>3, <2>4, ExecutedVotes
  <1> HIDE DEF Goal
  <1>14. Goal
    BY <1>2, <1>3, <1>4, <1>5, <1>6, <1>7, <1>8, <1>9, <1>10, <1>11, <1>12, <1>13
       DEF Next, Undisturbed
  <1> QED  BY <1>0, <1>14 DEF Goal, EInv

(* Nothing is sent or recorded at first. *)
LEMMA ExecutedInit == Init => EInv
  <1>1. Init => OwnDebits
    BY SMTT(30), ConstantsAssumption DEF Init, OwnDebits
  <1>2. Init => Sent /\ Tables /\ Rounds /\ Lonely
    BY SMTT(30), ConstantsAssumption DEF Init, Sent, Tables, Rounds, Lonely
  <1>3. Init => NotDeleted
    BY SMTT(30) DEF Init, NotDeleted
  <1> QED  BY <1>1, <1>2, <1>3, SafeInit DEF EInv

(* In a shard of one validator without a gas limit, checkdb says only of      *)
(* relaytx that it executed that they were packed, and a sender deletes only  *)
(* cms whose relaytx was executed, if each is alone in its block: for any     *)
(* shards, with any loss, repetition and failed rounds.                       *)
THEOREM ExecutedBeforeConfirmed == Spec => []ConfirmedAlone
  <1>1. Init => EInv
    BY ExecutedInit
  <1>2. EInv /\ [Next]_vars => EInv'
    BY ExecutedNext
  <1>3. EInv => ConfirmedAlone
    <2> SUFFICES ASSUME EInv, NEW n \in Nodes, NEW d \in done[n],
                        NEW t \in chain[d.key[1]][d.key[2]].outs,
                        Simple(ShardOf[n]), Solo(d.key[1], d.key[2]),
                        Receiver[t] = ShardOf[n]
                 PROVE  Credits(t) # {}
      BY DEF EInv, NotDeleted, ConfirmedAlone
    <2>1. Executed(ShardOf[n], d.key)
      BY DEF EInv, Tables
    <2>2. d.key[1] \in Shards /\ d.key[2] \in 1..Len(chain[d.key[1]])
      BY <2>1 DEF Executed, Meant, Decided
    <2>3. Sender[t] = d.key[1]
      BY <2>2 DEF EInv, OwnDebits
    <2>4. t \in RelayTxs
      <3>1. chain[d.key[1]][d.key[2]] \in Block
        BY SMTT(30), <2>2 DEF EInv, IInv, TypeInv, TypeOK
      <3> QED  BY <3>1 DEF Block
    <2>5. d.key[1] # ShardOf[n]
      BY <2>3, <2>4, ConstantsAssumption
    <2> QED  BY <2>1, <2>5 DEF Executed, BlockOf
  <1> QED  BY <1>1, <1>2, <1>3, PTL DEF Spec

---------------------------------------------------------------------------
(* Executed once *)

\* A cm brings a relaytx that its source debits.
Debit(c) == c.tx # NoTx /\ Sender[c.tx] = c.src

\* A cm that is on its way, in a mempool's cache, or stored.
Known(c) ==
    \/ c \in net
    \/ \E n \in Nodes : c \in cache[n] \/ \E e \in cmdb[n] : e.cm = c

\* Blocks and proposals execute debits, and a shard debits a relaytx once.
Ledger ==
    \A s \in Shards :
        /\ \A h \in 1..Len(chain[s]) : \A c \in chain[s][h].ins : Debit(c)
        /\ \A h, g \in 1..Len(chain[s]) : \A t \in chain[s][h].outs :
               t \in chain[s][g].outs => h = g
        /\ cons[s].block # NoBlock =>
             /\ \A c \in cons[s].block.ins : Debit(c)
             /\ \A t \in cons[s].block.outs : \A h \in 1..Len(chain[s]) :
                    t \notin chain[s][h].outs

\* A lone validator makes one cm of each debit, when it applies the block.
OneCm ==
    \A c : Known(c) /\ Debit(c) /\ Lone(c.src) =>
        /\ \A n \in NodesOf(c.src) : c.h <= app[n]
        /\ \A d : Known(d) /\ Debit(d) /\ d.tx = c.tx => d = c

\* The cm is in the pool with a row for height h: applying block h removes it.
Packed(n, h, c) ==
    /\ c \in pool[n]
    /\ \E r \in rl[n] : r.cs = h /\ r.key = CmID(c)

\* Lone validator n has removed from its pool what it executed, has not seen it
\* for the first time since, and is one block behind at most.
Spent(n, s) ==
    /\ Len(chain[s]) <= app[n] + 1
    /\ \A h \in 1..Len(chain[s]) : \A c \in chain[s][h].ins :
         /\ c \in cache[n]
         /\ IF h <= app[n] THEN c \notin pool[n] ELSE Packed(n, h, c)
         /\ \A g \in 1..Len(chain[s]) : c \in chain[s][g].ins => g = h
    /\ cons[s].block # NoBlock =>
         /\ app[n] = Len(chain[s])
         /\ \A c \in cons[s].block.ins : Packed(n, Len(chain[s]) + 1, c)

AllSpent == \A n \in Nodes : Lone(ShardOf[n]) => Spent(n, ShardOf[n])

OInv == EInv /\ Ledger /\ OneCm /\ (crashes = 0 => AllSpent)

\* Pools, caches and rows are added to, and a cm is pooled when it is first seen.
Settled ==
    \A n \in Nodes : /\ rl[n] \subseteq rl'[n] /\ cache[n] \subseteq cache'[n]
                     /\ pool[n] \subseteq pool'[n]
                     /\ \A c \in cache[n] : c \in pool'[n] => c \in pool[n]

\* A step that neither proposes nor decides nor applies a block.
Quiet ==
    /\ UNCHANGED <<chain, app>> /\ SameProposals
    /\ \A c : Known(c)' => Known(c) \/ c.tx = NoTx
    /\ crashes' = 0 => crashes = 0 /\ Settled

(* The arrival of a cm is quiet. *)
LEMMA QuietArrival ==
    ASSUME EInv, NEW n \in Nodes, NEW cm, Known(cm),
           \/ /\ cache' = [cache EXCEPT ![n] = @ \cup {cm}]
              /\ pool' = [pool EXCEPT ![n] = @ \cup {cm}]
              /\ cm \notin cache[n]
           \/ UNCHANGED <<pool, cache>>,
           NEW E, E \subseteq cmdb[n], cmdb' = [cmdb EXCEPT ![n] = E],
           UNCHANGED <<chain, cons, app, rl, net, crashes>>
    PROVE  Quiet
  <1>1. /\ cmdb \in [Nodes -> SUBSET Entry] /\ cache \in [Nodes -> SUBSET Cm]
        /\ pool \in [Nodes -> SUBSET Cm]
    BY DEF EInv, IInv, TypeInv, TypeOK
  <1>2. \A m \in Nodes : cmdb'[m] \subseteq cmdb[m]
    BY <1>1
  <1>3. \A m \in Nodes :
          /\ cache'[m] \subseteq cache[m] \cup {cm}
          /\ cache[m] \subseteq cache'[m] /\ pool[m] \subseteq pool'[m]
          /\ \A c \in cache[m] : c \in pool'[m] => c \in pool[m]
    BY SMTT(30), <1>1
  <1>4. \A c : Known(c)' => Known(c)
    BY <1>2, <1>3 DEF Known
  <1>5. SameProposals
    BY DEF SameProposals
  <1> QED  BY <1>3, <1>4, <1>5 DEF Quiet, Settled

(* Proposals, decisions and applied blocks apart, all steps are quiet. *)
LEMMA QuietSteps ==
    ASSUME EInv, [Next]_vars
    PROVE  \/ Quiet
           \/ \E n \in Nodes : CreateProposalBlock(n) \/ FinalizeCommit(n)
           \/ \E s \in Shards : EnterCommit(s)
  <1>0. TypeInv /\ TypeInv' /\ Grows
    BY NextGrows, TypeNext DEF EInv, IInv
  <1>1. ASSUME UNCHANGED <<chain, app, pool, cache, rl, cmdb, net, crashes>>, SameProposals
        PROVE  Quiet
    <2>1. \A c : Known(c)' => Known(c)
      BY <1>1 DEF Known
    <2> QED  BY <1>1, <2>1 DEF Quiet, Settled
  <1>2. ASSUME NEW n \in Nodes, Prevote(n) PROVE Quiet
    <2>1. UNCHANGED <<chain, app, pool, cache, cmdb, net, crashes>>
      BY <1>2 DEF Prevote
    <2>2. SameProposals
      BY <1>0, <1>2, ExecutedPrevote
    <2>3. PICK R, h, mult : /\ R = AppendRows(rl[n], h, mult, FALSE)
                            /\ rl' = [rl EXCEPT ![n] = R]
      BY <1>2 DEF Prevote, SyncRelationTable
    <2>4. \A m \in Nodes : rl[m] \subseteq rl'[m]
      <3>1. rl[n] \subseteq R
        BY <2>3, AppendRowsNew
      <3>2. \A m \in Nodes : rl'[m] = IF m = n THEN R ELSE rl[m]
        BY <1>0, <2>3 DEF TypeInv, TypeOK
      <3> QED  BY <3>1, <3>2
    <2>5. \A c : Known(c)' => Known(c)
      BY <2>1 DEF Known
    <2> QED  BY <2>1, <2>2, <2>4, <2>5 DEF Quiet, Settled
  <1>3. ASSUME NEW n \in Nodes, Restart(n) PROVE Quiet
    <2>1. /\ crashes' = crashes + 1 /\ UNCHANGED <<chain, cons, app, net>>
          /\ \A m \in Nodes : /\ cache'[m] = IF m = n THEN {} ELSE cache[m]
                              /\ cmdb'[m] = IF m = n THEN {} ELSE cmdb[m]
      BY <1>0, <1>3 DEF Restart, TypeInv, TypeOK
    <2>2. crashes' # 0
      <3>1. crashes \in Nat
        BY SMTT(30), <1>0, ConstantsAssumption DEF TypeInv, TypeOK
      <3> QED  BY SMTT(30), <2>1, <3>1
    <2>3. \A m \in Nodes : cache'[m] \subseteq cache[m] /\ cmdb'[m] \subseteq cmdb[m]
      BY <2>1
    <2>4. \A c : Known(c)' => Known(c)
      BY <2>1, <2>3 DEF Known
    <2> QED  BY <2>1, <2>2, <2>4 DEF Quiet, SameProposals
  <1>4. ASSUME NEW n \in Nodes, NEW cm \in net, ReceiveCm(n, cm) PROVE Quiet
    <2>1. Known(cm) /\ UNCHANGED <<chain, cons, app, rl, net, crashes>>
      BY <1>4 DEF Known, ReceiveCm
    <2>2. /\ cache' = [cache EXCEPT ![n] = @ \cup {cm}]
          /\ pool' = [pool EXCEPT ![n] = @ \cup {cm}]
          /\ cm \notin cache[n]
          /\ \E E : E \subseteq cmdb[n] /\ cmdb' = [cmdb EXCEPT ![n] = E]
      BY <1>4 DEF ReceiveCm, CheckTxWithInfo
    <2> QED  BY <2>1, <2>2, QuietArrival
  <1>5. ASSUME NEW n \in Nodes, NEW cm \in net, ReceiveReceipt(n, cm) PROVE Quiet
    <2>1. Known(cm) /\ UNCHANGED <<chain, cons, app, rl, net, crashes>>
      BY <1>5 DEF Known, ReceiveReceipt
    <2>2. /\ \/ /\ cache' = [cache EXCEPT ![n] = @ \cup {cm}]
                /\ pool' = [pool EXCEPT ![n] = @ \cup {cm}]
                /\ cm \notin cache[n]
             \/ UNCHANGED <<pool, cache>>
          /\ \E E : E \subseteq cmdb[n] /\ cmdb' = [cmdb EXCEPT ![n] = E]
      BY <1>5 DEF ReceiveReceipt
    <2> QED  BY <2>1, <2>2, QuietArrival
  <1>6. ASSUME NEW n \in Nodes, NEW m \in Nodes, NEW cm \in cache[m],
               GossipReceive(n, m, cm)
        PROVE  Quiet
    <2>1. Known(cm) /\ UNCHANGED <<chain, cons, app, rl, net, crashes>>
      BY <1>6 DEF Known, GossipReceive
    <2>2. /\ \/ /\ cache' = [cache EXCEPT ![n] = @ \cup {cm}]
                /\ pool' = [pool EXCEPT ![n] = @ \cup {cm}]
                /\ cm \notin cache[n]
             \/ UNCHANGED <<pool, cache>>
          /\ \E E : E \subseteq cmdb[n] /\ cmdb' = [cmdb EXCEPT ![n] = E]
      BY <1>6 DEF GossipReceive, CheckTxWithInfo
    <2> QED  BY <2>1, <2>2, QuietArrival
  <1>7. ASSUME NEW n \in Nodes, NEW cm \in net, ReplyFromCheckdb(n, cm) PROVE Quiet
    <2>1. PICK d : \E S : S \subseteq {Receipt(n, d)} /\ net' = net \cup S
      BY <1>7 DEF ReplyFromCheckdb, SendCrossMessages
    <2>2. Receipt(n, d).tx = NoTx
      BY DEF Receipt
    <2>3. UNCHANGED <<chain, cons, app, pool, cache, rl, cmdb, crashes>>
      BY <1>7 DEF ReplyFromCheckdb
    <2>4. \A c : Known(c)' => Known(c) \/ c.tx = NoTx
      BY <2>1, <2>2, <2>3 DEF Known
    <2> QED  BY <2>3, <2>4 DEF Quiet, Settled, SameProposals
  <1>8. ASSUME NEW s \in Shards, EnterNewRound(s) PROVE Quiet
    <2>1. UNCHANGED <<chain, app, pool, cache, rl, cmdb, net, crashes>>
      BY <1>8 DEF EnterNewRound
    <2> QED  BY <1>0, <1>1, <1>8, <2>1, ExecutedNewRound
  <1>9. ASSUME NEW s \in Shards, EmptyBlock(s) PROVE Quiet
    <2>1. /\ cmdb' = [n \in Nodes |-> IF ShardOf[n] = s THEN UpdatecmDB(cmdb[n])
                                                       ELSE cmdb[n]]
          /\ \E S : S \subseteq Due(cmdb[cons[s].leader]) /\ net' = net \cup S
          /\ UNCHANGED <<chain, app, pool, cache, rl, crashes>>
      BY <1>9 DEF EmptyBlock, SendCrossMessages
    <2>2. SameProposals
      BY <1>0, <1>9, ExecutedEmptyBlock
    <2>3. cons[s].leader \in Nodes /\ \A n \in Nodes : cmdb[n] \subseteq Entry
      BY <1>0 DEF TypeInv, TypeOK, Round
    <2>4. \A n \in Nodes : \A e \in cmdb'[n] : \E f \in cmdb[n] : f.cm = e.cm
      BY <2>1, <2>3, UpdatecmDBKeeps
    <2>5. \A c \in net' : Known(c)
      BY <2>1, <2>3 DEF Due, Known
    <2>6. \A c : Known(c)' => Known(c)
      <3>1. cache' = cache
        BY <2>1
      <3>2. \A n \in Nodes : \A e \in cmdb'[n] : Known(e.cm)
        BY <2>4 DEF Known
      <3>3. \A n \in Nodes : \A c \in cache[n] : Known(c)
        BY DEF Known
      <3>4. \A c : Known(c)' =>
              c \in net' \/ \E n \in Nodes : c \in cache'[n] \/ \E e \in cmdb'[n] : e.cm = c
        BY DEF Known
      <3> QED  BY <2>5, <3>1, <3>2, <3>3, <3>4
    <2> QED  BY <2>1, <2>2, <2>6 DEF Quiet, Settled
  <1>10. ASSUME UNCHANGED vars PROVE Quiet
    BY <1>1, <1>10 DEF vars, SameProposals
  <1> HIDE DEF Quiet
  <1> QED
    BY <1>2, <1>3, <1>4, <1>5, <1>6, <1>7, <1>8, <1>9, <1>10 DEF Next, Undisturbed

(* A known debit is in the block its cm names. *)
LEMMA KnownDebit ==
    ASSUME EInv, NEW c, Known(c), Debit(c)
    PROVE  /\ c \in Cm /\ c.src \in Shards /\ c.tx \in RelayTxs
           /\ c.dst = Receiver[c.tx]
           /\ c.h \in 1..Len(chain[c.src]) /\ c.tx \in chain[c.src][c.h].outs
  <1>1. c \in Cm /\ Genuine(c)
    <2>1. \A n \in Nodes : \A e \in cmdb[n] : e.cm \in Cm
      <3>1. \A n \in Nodes : \A e \in cmdb[n] : e \in Entry
        BY DEF EInv, IInv, TypeInv, TypeOK
      <3>2. \A e \in Entry : e.cm \in Cm
        BY DEF Entry
      <3> QED  BY <3>1, <3>2
    <2>2. net \subseteq Cm /\ \A n \in Nodes : cache[n] \subseteq Cm
      BY DEF EInv, IInv, TypeInv, TypeOK
    <2>3. c \in Cm
      BY <2>1, <2>2 DEF Known
    <2>4. Genuine(c)
      BY DEF Known, EInv, IInv, CmsGenuine
    <2> QED  BY <2>3, <2>4
  <1>2. c.tx \in RelayTxs /\ Sender[c.tx] = c.src /\ c.src \in Shards
    BY <1>1 DEF Debit, Cm
  <1>3. /\ c.h \in 1..Len(chain[c.src]) /\ c.tx \in BlockTxs(chain[c.src][c.h])
        /\ c.dst = Receiver[c.tx]
    BY <1>1, <1>2 DEF Genuine, Debit
  <1>4. ASSUME NEW d \in chain[c.src][c.h].ins, d.tx = c.tx PROVE FALSE
    <2>1. Receiver[c.tx] = c.src
      BY <1>2, <1>3, <1>4 DEF EInv, IInv, NoCreditWithoutDebit, Payable
    <2> QED  BY <1>2, <2>1, ConstantsAssumption
  <1>5. c.tx \in chain[c.src][c.h].outs
    BY <1>3, <1>4 DEF BlockTxs
  <1> QED  BY <1>1, <1>2, <1>3, <1>5

(* Quiet steps keep the bookkeeping. *)
LEMMA OnceQuiet ==
    ASSUME OInv, TypeInv', Quiet
    PROVE  Ledger' /\ OneCm' /\ (crashes' = 0 => AllSpent')
  <1>1. Ledger'
    <2>1. chain' = chain /\ SameProposals /\ Ledger
      BY DEF OInv, Quiet
    <2> QED  BY <2>1 DEF Ledger, SameProposals
  <1>2. OneCm'
    <2>1. OneCm /\ app' = app /\ \A c : Known(c)' => Known(c) \/ c.tx = NoTx
      BY DEF OInv, Quiet
    <2>2. \A c : Known(c)' /\ Debit(c) => Known(c)
      BY <2>1 DEF Debit
    <2> HIDE DEF Known
    <2> QED  BY <2>1, <2>2 DEF OneCm
  <1>3. ASSUME crashes' = 0, NEW n \in Nodes, Lone(ShardOf[n])
        PROVE  Spent(n, ShardOf[n])'
    <2> DEFINE s == ShardOf[n]
    <2>1. /\ Spent(n, s) /\ chain' = chain /\ app' = app /\ s \in Shards
          /\ rl[n] \subseteq rl'[n] /\ cache[n] \subseteq cache'[n]
          /\ pool[n] \subseteq pool'[n]
          /\ \A c \in cache[n] : c \in pool'[n] => c \in pool[n]
      BY <1>3, ConstantsAssumption DEF OInv, Quiet, Settled, AllSpent
    <2>2. cons'[s].block # NoBlock =>
            cons[s].block # NoBlock /\ cons'[s].block.ins = cons[s].block.ins
      BY <2>1 DEF Quiet, SameProposals
    <2>3. \A h, c : Packed(n, h, c) => Packed(n, h, c)'
      BY <2>1 DEF Packed
    <2>4. ASSUME NEW h \in 1..Len(chain[s]), NEW c \in chain[s][h].ins
          PROVE  /\ c \in cache'[n]
                 /\ IF h <= app[n] THEN c \notin pool'[n] ELSE Packed(n, h, c)'
                 /\ \A g \in 1..Len(chain[s]) : c \in chain[s][g].ins => g = h
      BY <2>1, <2>3 DEF Spent
    <2>5. cons'[s].block # NoBlock =>
            /\ app[n] = Len(chain[s])
            /\ \A c \in cons'[s].block.ins : Packed(n, Len(chain[s]) + 1, c)'
      BY <2>1, <2>2, <2>3 DEF Spent
    <2>6. Len(chain[s]) <= app[n] + 1
      BY <2>1 DEF Spent
    <2> HIDE DEF Packed
    <2> QED  BY <2>1, <2>4, <2>5, <2>6 DEF Spent
  <1> QED  BY <1>1, <1>2, <1>3 DEF AllSpent

(* Every cm that is reaped gets a row. *)
LEMMA AddedRows ==
    ASSUME NEW R, NEW h, NEW cms, IsFiniteSet(cms), NEW c \in cms
    PROVE  /\ R \subseteq AddRelationTable(R, h, cms)
           /\ \E r \in AddRelationTable(R, h, cms) : r.cs = h /\ r.key = CmID(c)
  <1> DEFINE same(k) == {d \in cms : CmID(d) = k}
             mult == [k \in {CmID(d) : d \in cms} |-> Cardinality(same(k))]
             base(k) == Cardinality({q \in RowsAt(R, h) : q.key = k})
             row(k, j) == [cs |-> h, key |-> k, own |-> TRUE, packs |-> {}, i |-> base(k) + j]
             new(k) == {row(k, j) : j \in 1..mult[k]}
  <1>k. PICK k : k = CmID(c)
    OBVIOUS
  <1>1. AddRelationTable(R, h, cms) = R \cup UNION {new(x) : x \in DOMAIN mult}
    BY DEF AddRelationTable, AppendRows
  <1>2. k \in DOMAIN mult /\ mult[k] = Cardinality(same(k))
    BY <1>k
  <1>3. 1 \in 1..Cardinality(same(k))
    <2>1. same(k) \in SUBSET cms /\ same(k) # {}
      BY <1>k
    <2>2. IsFiniteSet(same(k))
      BY <2>1, FS_Subset
    <2> HIDE DEF same
    <2>3. Cardinality(same(k)) \in Nat /\ Cardinality(same(k)) # 0
      BY <2>1, <2>2, FS_CardinalityType, FS_EmptySet
    <2> QED  BY SMTT(30), <2>3
  <1>4. row(k, 1).cs = h /\ row(k, 1).key = k
    <2> HIDE DEF base
    <2> QED  OBVIOUS
  <1> HIDE DEF mult, row, same
  <1>5. row(k, 1) \in new(k)
    BY <1>2, <1>3
  <1> HIDE DEF new
  <1> QED  BY <1>1, <1>2, <1>4, <1>5, <1>k

(* A proposal debits what is pending, and what it credits is in the pool     *)
(* with a row.                                                               *)
LEMMA OncePropose ==
    ASSUME OInv, TypeInv', NEW n \in Nodes, NEW T \in SUBSET Pending(ShardOf[n]),
           NEW C \in SUBSET pool[n], NEW G \in SUBSET pool[n], Propose(n, T, C, G)
    PROVE  Ledger' /\ OneCm' /\ (crashes' = 0 => AllSpent')
  <1> DEFINE s == ShardOf[n]
             ins == {c \in C : c.tx # NoTx /\ ~JudgeCrossMessage(c)}
  <1>0. TypeInv /\ Ledger /\ OneCm /\ s \in Shards
    BY ConstantsAssumption DEF OInv, EInv, IInv
  <1>h. PICK h : h = Len(chain[s]) + 1
    OBVIOUS
  <1>1. PICK R : /\ R = AddRelationTable(rl[n], h, C \cup G)
                 /\ rl' = [rl EXCEPT ![n] = R]
                 /\ EnterRound(s, cons[s].round, n,
                       [outs |-> T, ins |-> ins, packs |-> SearchRelationTable(R, h),
                        leader |-> n], {n})
    BY <1>h DEF Propose, Height
  <1>2. /\ UNCHANGED <<chain, app, pool, cache, cmdb, net, crashes>>
        /\ app[n] = Len(chain[s])
    BY DEF Propose
  <1>b. PICK b : b = [outs |-> T, ins |-> ins, packs |-> SearchRelationTable(R, h),
                      leader |-> n]
    OBVIOUS
  <1>3. b.ins = ins /\ b.outs = T
    BY <1>b
  <1>4. \A z \in Shards : cons'[z] = IF z = s
           THEN [round |-> cons[s].round, leader |-> n, block |-> b, prevoted |-> {n}]
           ELSE cons[z]
    BY <1>0, <1>1, <1>b DEF EnterRound, TypeInv, TypeOK
  <1>5. cons'[s].block = b /\ \A z \in Shards : z # s => cons'[z] = cons[z]
    BY SMTT(30), <1>0, <1>4
  <1>6. \A c \in ins : Debit(c)
    BY DEF Debit, JudgeCrossMessage
  <1>7. \A t \in T : \A g \in 1..Len(chain[s]) : t \notin chain[s][g].outs
    BY DEF Pending
  <1>8. Ledger'
    <2> SUFFICES ASSUME NEW z \in Shards, cons'[z].block # NoBlock
                 PROVE  /\ \A c \in cons'[z].block.ins : Debit(c)
                        /\ \A t \in cons'[z].block.outs : \A g \in 1..Len(chain[z]) :
                               t \notin chain[z][g].outs
      BY <1>0, <1>2 DEF Ledger
    <2>1. CASE z = s
      BY <1>3, <1>5, <1>6, <1>7, <2>1
    <2>2. CASE z # s
      BY <1>0, <1>5, <2>2 DEF Ledger
    <2> QED  BY <2>1, <2>2
  <1>9. OneCm'
    <2>1. \A c : Known(c)' <=> Known(c)
      BY <1>2 DEF Known
    <2> HIDE DEF Known
    <2> QED  BY <1>0, <1>2, <2>1 DEF OneCm
  <1>10. rl[n] \subseteq R /\ \A c \in C : \E r \in R : r.cs = h /\ r.key = CmID(c)
    <2>1. IsFiniteSet(C \cup G)
      <3>1. IsFiniteSet(pool[n]) /\ C \cup G \in SUBSET pool[n]
        BY <1>0 DEF TypeInv, FiniteOK
      <3> QED  BY <3>1, FS_Subset
    <2>2. \A c \in C : \E r \in R : r.cs = h /\ r.key = CmID(c)
      BY <1>1, <2>1, AddedRows
    <2>3. rl[n] \subseteq R
      BY <1>1, AppendRowsNew DEF AddRelationTable
    <2> QED  BY <2>2, <2>3
  <1>11. \A m \in Nodes : rl'[m] = IF m = n THEN R ELSE rl[m]
    BY <1>0, <1>1 DEF TypeInv, TypeOK
  <1>12. ASSUME crashes' = 0, NEW m \in Nodes, Lone(ShardOf[m])
         PROVE  Spent(m, ShardOf[m])'
    <2> DEFINE z == ShardOf[m]
    <2>1. Spent(m, z) /\ z \in Shards /\ rl[m] \subseteq rl'[m]
      BY <1>2, <1>10, <1>11, <1>12, ConstantsAssumption DEF OInv, AllSpent
    <2>2. \A g, c : Packed(m, g, c) => Packed(m, g, c)'
      BY <1>2, <2>1 DEF Packed
    <2>3. ASSUME NEW g \in 1..Len(chain[z]), NEW c \in chain[z][g].ins
          PROVE  /\ c \in cache[m]
                 /\ IF g <= app[m] THEN c \notin pool[m] ELSE Packed(m, g, c)'
                 /\ \A f \in 1..Len(chain[z]) : c \in chain[z][f].ins => f = g
      BY <2>1, <2>2 DEF Spent
    <2>4. Len(chain[z]) <= app[m] + 1
      BY <2>1 DEF Spent
    <2>5. cons'[z].block # NoBlock =>
            /\ app[m] = Len(chain[z])
            /\ \A c \in cons'[z].block.ins : Packed(m, Len(chain[z]) + 1, c)'
      <3>1. CASE z # s
        <4> HIDE DEF Packed
        <4>1. cons'[z].block = cons[z].block /\ chain' = chain
          BY <1>2, <1>5, <2>1, <3>1
        <4>2. cons[z].block # NoBlock =>
                /\ app[m] = Len(chain[z])
                /\ \A c \in cons[z].block.ins : Packed(m, Len(chain[z]) + 1, c)
          BY <2>1 DEF Spent
        <4> QED  BY <2>2, <4>1, <4>2
      <3>2. CASE z = s
        <4>1. m = n
          <5>1. m \in NodesOf(s) /\ n \in NodesOf(s)
            BY <3>2 DEF NodesOf
          <5> QED  BY <1>12, <3>2, <5>1 DEF Lone
        <4>2. \A c \in ins : Packed(n, h, c)'
          BY <1>2, <1>10, <1>11 DEF Packed
        <4> QED  BY <1>2, <1>3, <1>5, <1>h, <4>1, <4>2
      <3> QED  BY <3>1, <3>2
    <2> HIDE DEF Packed
    <2> QED  BY <1>2, <2>3, <2>4, <2>5 DEF Spent
  <1> QED  BY <1>8, <1>9, <1>12 DEF AllSpent

(* A decided block debits what no earlier block debited, and a lone          *)
(* validator's credits cms that it still has in its pool.                    *)
LEMMA OnceCommit ==
    ASSUME OInv, NEW s \in Shards, EnterCommit(s)
    PROVE  Ledger' /\ OneCm' /\ (crashes' = 0 => AllSpent')
  <1>0. TypeInv /\ Ledger /\ OneCm /\ Sent
    BY DEF OInv, EInv, IInv
  <1>1. /\ cons[s].block # NoBlock
        /\ chain' = [chain EXCEPT ![s] = Append(@, cons[s].block)]
        /\ UNCHANGED <<app, pool, cache, rl, cmdb, net, crashes>>
    BY DEF EnterCommit
  <1>2. PICK l : EnterRound(s, 0, l, NoBlock, {})
    BY DEF EnterCommit
  <1>3. \A z \in Shards : cons'[z] = IF z = s
          THEN [round |-> 0, leader |-> l, block |-> NoBlock, prevoted |-> {}] ELSE cons[z]
    BY <1>0, <1>2 DEF EnterRound, TypeInv, TypeOK
  <1>4. cons'[s].block = NoBlock /\ \A z \in Shards : z # s => cons'[z] = cons[z]
    BY SMTT(30), <1>3
  <1>5. PICK b, k : b = cons[s].block /\ k = Len(chain[s]) + 1
    OBVIOUS
  <1>6. /\ \A z \in Shards \ {s} : chain'[z] = chain[z]
        /\ k \in 1..Len(chain'[s]) /\ chain'[s][k] = b /\ Len(chain'[s]) = k
        /\ \A h \in 1..Len(chain'[s]) :
             \/ h \in 1..Len(chain[s]) /\ chain'[s][h] = chain[s][h]
             \/ h = k
    <2>1. /\ Len(chain[s]) \in Nat /\ Len(chain'[s]) = Len(chain[s]) + 1
          /\ chain'[s][Len(chain[s]) + 1] = cons[s].block
          /\ \A z \in Shards \ {s} : chain'[z] = chain[z]
      BY <1>0, <1>1, LastBlock
    <2>2. chain \in [Shards -> Seq(Block)] /\ cons[s].block \in Block
      BY <1>0, <1>1 DEF TypeInv, TypeOK, Round
    <2>3. \A h \in 1..Len(chain[s]) : chain'[s][h] = chain[s][h]
      BY SMTT(30), <1>1, <2>2
    <2>4. k \in 1..Len(chain'[s]) /\ \A h \in 1..Len(chain'[s]) : h \in 1..Len(chain[s]) \/ h = k
      BY SMTT(30), <1>5, <2>1
    <2> QED  BY <1>5, <2>1, <2>3, <2>4
  <1>7. /\ \A c \in b.ins : Debit(c)
        /\ \A t \in b.outs : \A h \in 1..Len(chain[s]) : t \notin chain[s][h].outs
    BY <1>0, <1>1, <1>5 DEF Ledger
  <1>8. Ledger'
    <2> SUFFICES ASSUME NEW z \in Shards
                 PROVE  /\ \A h \in 1..Len(chain'[z]) : \A c \in chain'[z][h].ins : Debit(c)
                        /\ \A h, g \in 1..Len(chain'[z]) : \A t \in chain'[z][h].outs :
                               t \in chain'[z][g].outs => h = g
                        /\ cons'[z].block # NoBlock =>
                             /\ \A c \in cons'[z].block.ins : Debit(c)
                             /\ \A t \in cons'[z].block.outs : \A h \in 1..Len(chain'[z]) :
                                    t \notin chain'[z][h].outs
      BY DEF Ledger
    <2>1. CASE z # s
      <3>1. chain'[z] = chain[z] /\ cons'[z] = cons[z]
        BY <1>4, <1>6, <2>1
      <3> QED  BY <1>0, <3>1 DEF Ledger
    <2>2. CASE z = s
      <3>1. \A h \in 1..Len(chain'[s]) : \A c \in chain'[s][h].ins : Debit(c)
        BY <1>0, <1>6, <1>7 DEF Ledger
      <3>2. ASSUME NEW h \in 1..Len(chain'[s]), NEW g \in 1..Len(chain'[s]),
                   NEW t \in chain'[s][h].outs, t \in chain'[s][g].outs
            PROVE  h = g
        <4>1. CASE h \in 1..Len(chain[s]) /\ chain'[s][h] = chain[s][h]
                    /\ g \in 1..Len(chain[s]) /\ chain'[s][g] = chain[s][g]
          BY <1>0, <3>2, <4>1 DEF Ledger
        <4>2. CASE h \in 1..Len(chain[s]) /\ chain'[s][h] = chain[s][h] /\ g = k
          BY <1>6, <1>7, <3>2, <4>2
        <4>3. CASE g \in 1..Len(chain[s]) /\ chain'[s][g] = chain[s][g] /\ h = k
          BY <1>6, <1>7, <3>2, <4>3
        <4> QED  BY <1>6, <4>1, <4>2, <4>3
      <3> QED  BY <1>4, <2>2, <3>1, <3>2
    <2> QED  BY <2>1, <2>2
  <1>9. OneCm'
    <2>1. \A c : Known(c)' <=> Known(c)
      BY <1>1 DEF Known
    <2> HIDE DEF Known
    <2> QED  BY <1>0, <1>1, <2>1 DEF OneCm
  <1>10. ASSUME crashes' = 0, NEW m \in Nodes, Lone(ShardOf[m])
         PROVE  Spent(m, ShardOf[m])'
    <2> DEFINE z == ShardOf[m]
    <2>1. Spent(m, z) /\ z \in Shards
      BY <1>1, <1>10, ConstantsAssumption DEF OInv, AllSpent
    <2>2. \A h, c : Packed(m, h, c)' <=> Packed(m, h, c)
      BY <1>1 DEF Packed
    <2>3. CASE z # s
      <3>1. chain'[z] = chain[z] /\ cons'[z] = cons[z]
        BY <1>4, <1>6, <2>1, <2>3
      <3> HIDE DEF Packed
      <3> QED  BY <1>1, <2>1, <2>2, <3>1 DEF Spent
    <2>4. CASE z = s
      <3>1. /\ app[m] = Len(chain[s]) /\ \A c \in b.ins : Packed(m, k, c)
            /\ \A h \in 1..Len(chain[s]) : \A c \in chain[s][h].ins :
                 /\ c \in cache[m]
                 /\ IF h <= app[m] THEN c \notin pool[m] ELSE Packed(m, h, c)
                 /\ \A g \in 1..Len(chain[s]) : c \in chain[s][g].ins => g = h
        BY <1>1, <1>5, <2>1, <2>4 DEF Spent
      <3>2. Len(chain[s]) \in Nat
        BY <1>0, <1>1, LastBlock
      <3>3. k = app[m] + 1 /\ ~(k <= app[m]) /\ \A h \in 1..Len(chain[s]) : h <= app[m]
        BY SMTT(30), <1>5, <3>1, <3>2
      <3>4. \A c \in b.ins : c \in pool[m] /\ c \in cache[m]
        BY <1>0, <3>1 DEF Packed, Sent
      <3>5. \A h \in 1..Len(chain[s]) : \A c \in chain[s][h].ins : c \notin pool[m]
        BY <3>1, <3>3
      <3> HIDE DEF Packed
      <3>6. ASSUME NEW h \in 1..Len(chain'[s]), NEW c \in chain'[s][h].ins
            PROVE  /\ c \in cache[m]
                   /\ IF h <= app[m] THEN c \notin pool[m] ELSE Packed(m, h, c)
                   /\ \A g \in 1..Len(chain'[s]) : c \in chain'[s][g].ins => g = h
        <4>1. CASE h \in 1..Len(chain[s]) /\ chain'[s][h] = chain[s][h]
          <5>1. c \in cache[m] /\ h <= app[m] /\ c \notin pool[m]
            BY <3>1, <3>3, <4>1
          <5>2. \A g \in 1..Len(chain'[s]) : c \in chain'[s][g].ins => g = h
            BY <1>6, <3>1, <3>4, <4>1, <5>1
          <5> QED  BY <5>1, <5>2
        <4>2. CASE h = k
          <5>1. c \in b.ins
            BY <1>6, <4>2
          <5>2. c \in cache[m] /\ ~(h <= app[m]) /\ Packed(m, h, c)
            BY <3>1, <3>3, <3>4, <4>2, <5>1
          <5>3. \A g \in 1..Len(chain'[s]) : c \in chain'[s][g].ins => g = h
            BY <1>6, <3>4, <3>5, <4>2, <5>1
          <5> QED  BY <5>2, <5>3
        <4> QED  BY <1>6, <4>1, <4>2
      <3>7. Len(chain'[s]) <= app[m] + 1
        BY SMTT(30), <1>6, <3>2, <3>3, <1>5
      <3>8. app'[m] = app[m] /\ pool'[m] = pool[m] /\ cache'[m] = cache[m]
        BY <1>1
      <3>9. ASSUME NEW h \in 1..Len(chain'[s]), NEW c \in chain'[s][h].ins
            PROVE  /\ c \in cache'[m]
                   /\ IF h <= app'[m] THEN c \notin pool'[m] ELSE Packed(m, h, c)'
                   /\ \A g \in 1..Len(chain'[s]) : c \in chain'[s][g].ins => g = h
        BY <2>2, <3>6, <3>8
      <3> QED  BY <1>4, <2>4, <3>7, <3>8, <3>9 DEF Spent
    <2> QED  BY <2>3, <2>4
  <1> QED  BY <1>8, <1>9, <1>10 DEF AllSpent

(* What a lone validator's credits depend on. *)
LEMMA SpentKept ==
    ASSUME NEW n, NEW s, Spent(n, s), chain'[s] = chain[s], cons'[s] = cons[s],
           app'[n] = app[n], pool'[n] = pool[n], rl'[n] = rl[n], cache'[n] = cache[n]
    PROVE  Spent(n, s)'
  <1>1. \A h, c : Packed(n, h, c)' <=> Packed(n, h, c)
    BY DEF Packed
  <1>2. ASSUME NEW h \in 1..Len(chain'[s]), NEW c \in chain'[s][h].ins
        PROVE  /\ c \in cache'[n]
               /\ IF h <= app'[n] THEN c \notin pool'[n] ELSE Packed(n, h, c)'
               /\ \A g \in 1..Len(chain'[s]) : c \in chain'[s][g].ins => g = h
    <2>1. h \in 1..Len(chain[s]) /\ c \in chain[s][h].ins
      OBVIOUS
    <2>2. /\ c \in cache[n]
          /\ IF h <= app[n] THEN c \notin pool[n] ELSE Packed(n, h, c)
          /\ \A g \in 1..Len(chain[s]) : c \in chain[s][g].ins => g = h
      BY <2>1 DEF Spent
    <2> QED  BY <1>1, <2>2
  <1>3. cons'[s].block # NoBlock =>
          /\ app'[n] = Len(chain'[s])
          /\ \A c \in cons'[s].block.ins : Packed(n, Len(chain[s]) + 1, c)'
    <2>1. cons[s].block # NoBlock =>
            /\ app[n] = Len(chain[s])
            /\ \A c \in cons[s].block.ins : Packed(n, Len(chain[s]) + 1, c)
      BY DEF Spent
    <2> QED  BY <1>1, <2>1
  <1>4. Len(chain'[s]) <= app'[n] + 1
    BY DEF Spent
  <1> QED  BY <1>2, <1>3, <1>4 DEF Spent

(* A node that applies a block makes its cms, and a lone validator takes out *)
(* of its pool what the block credits.                                       *)
LEMMA OnceFinalize ==
    ASSUME OInv, NEW n \in Nodes, FinalizeCommit(n)
    PROVE  Ledger' /\ OneCm' /\ (crashes' = 0 => AllSpent')
  <1> DEFINE s == ShardOf[n]
  <1>0. TypeInv /\ Ledger /\ OneCm /\ EInv /\ NoCreditWithoutDebit /\ s \in Shards
    BY ConstantsAssumption DEF OInv, EInv, IInv
  <1>k. PICK k, b, packs : k = FHeight(n) /\ b = chain[s][k] /\ packs = FPacks(n)
    OBVIOUS
  <1>1. /\ app' = [app EXCEPT ![n] = FHeight(n)]
        /\ pool' = [pool EXCEPT ![n] = @ \ FGone(n)]
        /\ cmdb' = [cmdb EXCEPT ![n] = UpdatecmDB(FEntries(n))]
        /\ rl' = [rl EXCEPT ![n] = FRows(n) \ FSaved(n)]
        /\ UNCHANGED <<chain, cons, cache, crashes>>
        /\ app[n] < Len(chain[s])
    BY FinalizeEffect
  <1>2. \E S : S \subseteq FConfirming(n) \cup Due(FEntries(n)) /\ net' = net \cup S
    BY FinalizeEffect
  <1>3. k \in 1..Len(chain[s]) /\ b \in Block /\ FEntries(n) \subseteq Entry
    BY <1>0, <1>k, FinalizeType
  <1>4. k = app[n] + 1 /\ app[n] \in Nat /\ Len(chain[s]) \in Nat
    BY SMTT(30), <1>0, <1>k DEF FHeight, TypeInv, TypeOK
  <1>5. \A m \in Nodes : /\ cmdb'[m] = IF m = n THEN UpdatecmDB(FEntries(n)) ELSE cmdb[m]
                         /\ pool'[m] = IF m = n THEN pool[n] \ FGone(n) ELSE pool[m]
                         /\ rl'[m] = IF m = n THEN FRows(n) \ FSaved(n) ELSE rl[m]
                         /\ app'[m] = IF m = n THEN k ELSE app[m]
    BY <1>0, <1>1, <1>k DEF TypeInv, TypeOK
  <1>6. Ledger'
    BY <1>0, <1>1 DEF Ledger
  <1>7. \A c : Known(c)' => Known(c) \/ c \in FCms(n)
    <2>1. \A e \in FEntries(n) : e \in cmdb[n] \/ e.cm \in FCms(n)
      BY SMTT(30) DEF FEntries, AddCrossMessagesDB
    <2>2. \A e \in UpdatecmDB(FEntries(n)) : \E f \in FEntries(n) : f.cm = e.cm
      BY <1>3, UpdatecmDBKeeps
    <2>3. \A e \in FEntries(n) : Known(e.cm) \/ e.cm \in FCms(n)
      BY <2>1 DEF Known
    <2>4. \A c \in net' : Known(c) \/ c \in FCms(n)
      <3>1. \A c \in net' : c \in net \/ c \in FCms(n) \/ \E e \in FEntries(n) : e.cm = c
        BY <1>2 DEF FConfirming, Due
      <3>2. \A c \in net : Known(c)
        BY DEF Known
      <3> QED  BY <2>3, <3>1, <3>2
    <2>5. \A m \in Nodes : \A e \in cmdb'[m] : Known(e.cm) \/ e.cm \in FCms(n)
      <3>1. \A m \in Nodes : \A e \in cmdb[m] : Known(e.cm)
        BY DEF Known
      <3> QED  BY <1>5, <2>2, <2>3, <3>1
    <2>6. \A m \in Nodes : \A c \in cache'[m] : Known(c)
      BY <1>1 DEF Known
    <2>7. \A c : Known(c)' =>
            c \in net' \/ \E m \in Nodes : c \in cache'[m] \/ \E e \in cmdb'[m] : e.cm = c
      BY DEF Known
    <2> QED  BY <2>4, <2>5, <2>6, <2>7
  <1>8. \A c \in FCms(n) : /\ c = [src |-> s, dst |-> IF Sender[c.tx] = s THEN Receiver[c.tx]
                                                                      ELSE Sender[c.tx],
                                  h |-> k, tx |-> c.tx, packs |-> packs, by |-> n]
                           /\ c.src = s /\ c.h = k /\ c.tx \in BlockTxs(b)
    BY SMTT(30), <1>k DEF FCms, ClassifyTxFromBlock
  <1>9. ASSUME NEW c \in FCms(n), Debit(c) PROVE c.tx \in b.outs
    <2>1. c.tx \in BlockTxs(b) /\ Sender[c.tx] = s
      BY <1>8, <1>9 DEF Debit
    <2>2. ASSUME NEW d \in b.ins, d.tx = c.tx PROVE FALSE
      <3>1. Receiver[c.tx] = s
        <4>1. k \in 1..Len(chain[s]) /\ d \in chain[s][k].ins
          BY <1>3, <1>k
        <4>2. Receiver[d.tx] = s
          BY <1>0, <4>1 DEF NoCreditWithoutDebit, Payable
        <4> QED  BY <2>2, <4>2
      <3>2. c.tx \in RelayTxs
        <4>1. b.ins \subseteq {e \in Cm : e.tx # NoTx}
          BY <1>3 DEF Block
        <4>2. d \in Cm /\ d.tx # NoTx
          BY <2>2, <4>1
        <4> QED  BY <2>2, <4>2 DEF Cm
      <3> QED  BY <2>1, <3>1, <3>2, ConstantsAssumption
    <2> QED  BY <2>1, <2>2 DEF BlockTxs
  <1> HIDE DEF Known
  <1>10. \A c, d : Known(c) /\ Debit(c) /\ Lone(c.src) /\ d \in FCms(n) /\ Debit(d)
                     => d.tx # c.tx
    <2> SUFFICES ASSUME NEW c, NEW d, Known(c), Debit(c), Lone(c.src), d \in FCms(n),
                        Debit(d), d.tx = c.tx
                 PROVE  FALSE
      OBVIOUS
    <2>1. c.src = s
      BY <1>8 DEF Debit
    <2>2. c.h \in 1..Len(chain[s]) /\ c.tx \in chain[s][c.h].outs
      BY <1>0, <2>1, KnownDebit
    <2>3. c.tx \in chain[s][k].outs
      BY <1>9, <1>k
    <2>4. c.h = k
      BY <1>0, <1>3, <2>2, <2>3 DEF Ledger
    <2>5. c.h <= app[n]
      BY <1>0, <2>1 DEF OneCm, NodesOf
    <2> QED  BY SMTT(30), <1>4, <2>4, <2>5
  <1>11. OneCm'
    <2> SUFFICES ASSUME NEW c, Known(c)', Debit(c), Lone(c.src)
                 PROVE  /\ \A m \in NodesOf(c.src) : c.h <= app'[m]
                        /\ \A d : Known(d)' /\ Debit(d) /\ d.tx = c.tx => d = c
      BY DEF OneCm
    <2>1. \A m \in NodesOf(c.src) : c.h <= app'[m]
      <3> TAKE m \in NodesOf(c.src)
      <3>0. m \in Nodes /\ ShardOf[m] = c.src
        BY DEF NodesOf
      <3>1. CASE Known(c)
        <4>1. c.h <= app[m] /\ c.h \in Nat
          <5>1. c \in Cm /\ c.h <= app[m]
            BY <1>0, <3>1, KnownDebit DEF OneCm
          <5> QED  BY SMTT(30), <5>1 DEF Cm
        <4>2. CASE m = n
          <5>1. app'[m] = k
            BY <1>5, <4>2
          <5> QED  BY SMTT(30), <1>4, <4>1, <4>2, <5>1
        <4>3. CASE m # n
          BY <1>5, <3>0, <4>1, <4>3
        <4> QED  BY <4>2, <4>3
      <3>2. CASE c \in FCms(n)
        <4>1. c.src = s /\ c.h = k
          BY <1>8, <3>2
        <4>2. m = n
          BY <3>0, <4>1 DEF Lone, NodesOf
        <4>3. app'[m] = k
          BY <1>5, <4>2
        <4> QED  BY SMTT(30), <1>4, <4>1, <4>3
      <3> QED  BY <1>7, <3>1, <3>2
    <2>2. ASSUME NEW d, Known(d)', Debit(d), d.tx = c.tx PROVE d = c
      <3>1. d.src = c.src
        BY <2>2 DEF Debit
      <3>2. CASE Known(c) /\ Known(d)
        BY <1>0, <2>2, <3>2 DEF OneCm
      <3>3. CASE c \in FCms(n) /\ d \in FCms(n)
        BY <1>8, <2>2, <3>3
      <3> QED  BY <1>7, <1>10, <2>2, <3>1, <3>2, <3>3
    <2> QED  BY <2>1, <2>2
  <1>12. \A c : Packed(n, k, c) => c \in FGone(n)
    <2> DEFINE mod(r) == IF r.cs = k THEN [r EXCEPT !.packs = packs] ELSE r
    <2>1. \A r \in Row : mod(r).key = r.key /\ mod(r).cs = r.cs
      BY SMTT(30) DEF Row
    <2>2. rl[n] \subseteq Row
      BY <1>0 DEF TypeInv, TypeOK
    <2>3. FRows(n) = {mod(r) : r \in rl[n]}
      BY <1>k DEF FRows, ModifyRelationTable
    <2> HIDE DEF mod
    <2>4. \A r \in rl[n] : \E q \in FRows(n) : q.key = r.key /\ q.cs = r.cs
      BY <2>1, <2>2, <2>3
    <2> QED  BY <1>k, <2>4 DEF Packed, FGone, RemovedCms, RowsAt
  <1>13. ASSUME crashes' = 0, NEW m \in Nodes, Lone(ShardOf[m])
         PROVE  Spent(m, ShardOf[m])'
    <2> DEFINE z == ShardOf[m]
    <2>1. Spent(m, z) /\ z \in Shards
      BY <1>1, <1>13, ConstantsAssumption DEF OInv, AllSpent
    <2>2. chain' = chain /\ cons' = cons /\ cache' = cache
      BY <1>1
    <2>3. CASE m # n
      <3>1. app'[m] = app[m] /\ pool'[m] = pool[m] /\ rl'[m] = rl[m]
        BY <1>5, <2>3
      <3> QED  BY <2>1, <2>2, <3>1, SpentKept
    <2>4. CASE m = n
      <3>1. /\ Len(chain[s]) <= app[n] + 1
            /\ \A h \in 1..Len(chain[s]) : \A c \in chain[s][h].ins :
                 /\ c \in cache[n]
                 /\ IF h <= app[n] THEN c \notin pool[n] ELSE Packed(n, h, c)
                 /\ \A g \in 1..Len(chain[s]) : c \in chain[s][g].ins => g = h
            /\ cons[s].block # NoBlock => app[n] = Len(chain[s])
        BY <2>1, <2>4 DEF Spent
      <3>2. /\ Len(chain[s]) = k /\ app[n] # Len(chain[s]) /\ k <= k + 1
            /\ \A h \in 1..Len(chain[s]) : h <= k /\ (h <= app[n] \/ h = k)
        BY SMTT(30), <1>1, <1>4, <3>1
      <3>3. app'[n] = k /\ pool'[n] = pool[n] \ FGone(n)
        BY <1>5
      <3> HIDE DEF Packed
      <3>4. ASSUME NEW h \in 1..Len(chain[s]), NEW c \in chain[s][h].ins
            PROVE  /\ c \in cache[n] /\ h <= k /\ c \notin pool'[n]
                   /\ \A g \in 1..Len(chain[s]) : c \in chain[s][g].ins => g = h
        <4>1. h <= k /\ c \in cache[n]
               /\ \A g \in 1..Len(chain[s]) : c \in chain[s][g].ins => g = h
          BY <3>1, <3>2
        <4>2. CASE h <= app[n]
          BY <3>1, <3>3, <4>1, <4>2
        <4>3. CASE ~(h <= app[n])
          <5>1. h = k /\ Packed(n, h, c)
            BY <3>1, <3>2, <4>3
          <5>2. c \notin pool'[n]
            BY <1>12, <3>3, <5>1
          <5> QED  BY <4>1, <5>2
        <4> QED  BY <4>2, <4>3
      <3>5. cons'[s].block = NoBlock /\ Len(chain'[s]) <= app'[n] + 1
        BY <2>2, <3>1, <3>2, <3>3
      <3>6. ASSUME NEW h \in 1..Len(chain'[s]), NEW c \in chain'[s][h].ins
            PROVE  /\ c \in cache'[n] /\ h <= app'[n] /\ c \notin pool'[n]
                   /\ \A g \in 1..Len(chain'[s]) : c \in chain'[s][g].ins => g = h
        BY <2>2, <3>3, <3>4
      <3> QED  BY <2>4, <3>5, <3>6 DEF Spent
    <2> QED  BY <2>3, <2>4
  <1> QED  BY <1>6, <1>11, <1>13 DEF AllSpent

(* Every step keeps the bookkeeping. *)
LEMMA OnceNext ==
    ASSUME OInv, [Next]_vars
    PROVE  OInv'
  <1> DEFINE Goal == Ledger' /\ OneCm' /\ (crashes' = 0 => AllSpent')
  <1>0. EInv /\ EInv' /\ TypeInv'
    BY ExecutedNext, TypeNext DEF OInv, EInv, IInv
  <1>1. ASSUME Quiet PROVE Goal
    BY <1>0, <1>1, OnceQuiet
  <1>2. ASSUME NEW n \in Nodes, CreateProposalBlock(n) PROVE Goal
    <2>1. PICK T \in SUBSET Pending(ShardOf[n]), C \in SUBSET pool[n] :
            \E G \in GasStops(ShardOf[n], pool[n] \ C) :
                ReapsAgain(n, C \cup G) /\ Propose(n, T, C, G)
      BY <1>2 DEF CreateProposalBlock
    <2>2. PICK G \in GasStops(ShardOf[n], pool[n] \ C) : Propose(n, T, C, G)
      BY <2>1
    <2>3. G \in SUBSET pool[n]
      BY DEF GasStops
    <2> QED  BY <1>0, <2>2, <2>3, OncePropose
  <1>3. ASSUME NEW n \in Nodes, FinalizeCommit(n) PROVE Goal
    BY <1>3, OnceFinalize
  <1>4. ASSUME NEW s \in Shards, EnterCommit(s) PROVE Goal
    BY <1>4, OnceCommit
  <1> HIDE DEF Goal
  <1>5. Goal
    BY <1>0, <1>1, <1>2, <1>3, <1>4, QuietSteps
  <1> QED  BY <1>0, <1>5 DEF Goal, OInv

(* A set whose elements are all equal has at most one. *)
LEMMA AtMostOne ==
    ASSUME NEW S, \A x, y \in S : x = y
    PROVE  Cardinality(S) <= 1
  <1>1. CASE S = {}
    <2>1. Cardinality(S) = 0
      BY <1>1, FS_EmptySet
    <2> QED  BY SMTT(30), <2>1
  <1>2. CASE S # {}
    <2>1. PICK x : x \in S
      BY <1>2
    <2>2. S = {x}
      BY <2>1
    <2>3. Cardinality(S) = 1
      BY <2>2, FS_Singleton
    <2> QED  BY SMTT(30), <2>3
  <1> QED  BY <1>1, <1>2

(* Between shards of one validator each, a relaytx is executed once as long  *)
(* as no node restarts: for any shards beside them, and with any loss and    *)
(* any repetition of cms, of packages and of rounds.                         *)
THEOREM ExecutedOnce == Spec => []OnceAlone
  <1>1. Init => OInv
    <2>1. Init => EInv
      BY ExecutedInit
    <2>2. Init => Ledger
      BY SMTT(30) DEF Init, Ledger
    <2>3. Init => OneCm
      BY SMTT(30) DEF Init, OneCm, Known
    <2>4. Init => AllSpent
      BY SMTT(30), ConstantsAssumption DEF Init, AllSpent, Spent
    <2> QED  BY <2>1, <2>2, <2>3, <2>4 DEF OInv
  <1>2. OInv /\ [Next]_vars => OInv'
    BY OnceNext
  <1>3. OInv => OnceAlone
    <2> SUFFICES ASSUME OInv, crashes = 0, NEW t \in RelayTxs,
                        Lone(Sender[t]), Lone(Receiver[t])
                 PROVE  Cardinality(Credits(t)) <= 1
      BY DEF OnceAlone
    <2> DEFINE z == Receiver[t]
    <2>1. Ledger /\ OneCm /\ AllSpent /\ z \in Shards
      BY ConstantsAssumption DEF OInv
    <2>2. PICK m \in Nodes : ShardOf[m] = z
      BY <2>1, ConstantsAssumption
    <2>3. Spent(m, z)
      BY <2>1, <2>2 DEF AllSpent
    <2>4. ASSUME NEW h \in 1..Len(chain[z]), NEW c \in chain[z][h].ins, c.tx = t
          PROVE  Known(c) /\ Debit(c) /\ Lone(c.src)
      <3>1. c \in cache[m]
        BY <2>3 DEF Spent
      <3>2. Debit(c)
        BY <2>1 DEF Ledger
      <3> QED  BY <2>4, <3>1, <3>2 DEF Known, Debit
    <2>5. ASSUME NEW h \in 1..Len(chain[z]), NEW c \in chain[z][h].ins, c.tx = t,
                 NEW g \in 1..Len(chain[z]), NEW d \in chain[z][g].ins, d.tx = t
          PROVE  h = g /\ c = d
      <3>1. c = d
        BY <2>1, <2>4, <2>5 DEF OneCm
      <3> QED  BY <2>3, <3>1 DEF Spent
    <2>6. \A p \in Credits(t) : \E h \in 1..Len(chain[z]) : \E c \in chain[z][h].ins :
            c.tx = t /\ p = <<h, c>>
      BY DEF Credits
    <2>7. \A p, q \in Credits(t) : p = q
      <3> TAKE p, q \in Credits(t)
      <3>1. PICK h \in 1..Len(chain[z]) : \E c \in chain[z][h].ins : c.tx = t /\ p = <<h, c>>
        BY <2>6
      <3>2. PICK c \in chain[z][h].ins : c.tx = t /\ p = <<h, c>>
        BY <3>1
      <3>3. PICK g \in 1..Len(chain[z]) : \E d \in chain[z][g].ins : d.tx = t /\ q = <<g, d>>
        BY <2>6
      <3>4. PICK d \in chain[z][g].ins : d.tx = t /\ q = <<g, d>>
        BY <3>3
      <3>5. h = g /\ c = d
        BY <2>5, <3>2, <3>4
      <3> QED  BY <3>2, <3>4, <3>5
    <2> QED  BY <2>7, AtMostOne
  <1> QED  BY <1>1, <1>2, <1>3, PTL DEF Spec

=============================================================================
