-------------------------- MODULE CrossShardProofs --------------------------
(***************************************************************************)
(* Proofs of the safety of cross-shard transactions: a relaytx is credited *)
(* only after it was debited.  The inductive invariant adds to this that   *)
(* every cm in flight or stored is genuine, that mempools hold only cms    *)
(* for their own shard, and that proposals contain only debited relaytx.   *)
(* Then, that a cm is deleted only for a block that is on record: all      *)
(* packages that travel or are kept come from rows of relation tables.     *)
(***************************************************************************)
EXTENDS CrossShard, FiniteSetTheorems, WellFoundedInduction, TLAPS

(* Leaves that need arithmetic, records or sequences name SMT. *)
USE ZenonT(60)

---------------------------------------------------------------------------
(* Finiteness: the tables of a node are finite, so their rows can be counted *)

(* The image of a finite set under a function is finite. *)
LEMMA ImageFinite ==
    ASSUME NEW S, IsFiniteSet(S), NEW f, f = [x \in S |-> f[x]]
    PROVE  IsFiniteSet({f[x] : x \in S})
  <1> DEFINE T == {f[x] : x \in S}
  <1>1. f \in Surjection(S, T)
    BY DEF Surjection
  <1> QED  BY <1>1, FS_Surjection

(* AppendRows, the append to RlDB, keeps a relation table well-formed. *)
LEMMA AppendRowsType ==
    ASSUME NEW R, R \subseteq Row, IsFiniteSet(R), NEW h \in Nat,
           NEW mult, IsFiniteSet(DOMAIN mult),
           \A k \in DOMAIN mult : k \in Key /\ mult[k] \in Nat,
           NEW own \in BOOLEAN
    PROVE  /\ AppendRows(R, h, mult, own) \subseteq Row
           /\ IsFiniteSet(AppendRows(R, h, mult, own))
  <1> DEFINE base(k) == Cardinality({r \in RowsAt(R, h) : r.key = k})
             row(k, j) == [cs |-> h, key |-> k, own |-> own, packs |-> {},
                           i |-> base(k) + j]
             new(k) == {row(k, j) : j \in 1..mult[k]}
             f == [k \in DOMAIN mult |-> new(k)]
  <1>1. \A k : base(k) \in Nat
    <2> TAKE k
    <2>1. {r \in RowsAt(R, h) : r.key = k} \in SUBSET R
      BY DEF RowsAt
    <2> QED  BY <2>1, FS_Subset, FS_CardinalityType
  <1>2. \A k \in DOMAIN mult : new(k) \subseteq Row
    <2> SUFFICES ASSUME NEW k \in DOMAIN mult, NEW j \in 1..mult[k]
                 PROVE  row(k, j) \in Row
      OBVIOUS
    <2>1. base(k) + j \in Nat
      BY SMTT(30), <1>1
    <2>2. {} \in Packages
      BY DEF Packages
    <2> HIDE DEF base
    <2> QED  BY <2>1, <2>2 DEF Row
  <1>3. \A k \in DOMAIN mult : IsFiniteSet(new(k))
    <2> SUFFICES ASSUME NEW k \in DOMAIN mult PROVE IsFiniteSet(new(k))
      OBVIOUS
    <2> DEFINE g == [j \in 1..mult[k] |-> row(k, j)]
    <2>1. IsFiniteSet(1..mult[k])
      BY SMTT(30), FS_Interval
    <2>2. IsFiniteSet({g[j] : j \in 1..mult[k]})
      <3> HIDE DEF row
      <3> QED  BY <2>1, ImageFinite
    <2>3. {g[j] : j \in 1..mult[k]} = new(k)
      OBVIOUS
    <2> QED  BY <2>2, <2>3
  <1>4. IsFiniteSet({f[k] : k \in DOMAIN mult})
    <2> HIDE DEF new
    <2> QED  BY ImageFinite
  <1>5. \A T \in {f[k] : k \in DOMAIN mult} : IsFiniteSet(T)
    <2> HIDE DEF new
    <2> QED  BY <1>3
  <1>6. IsFiniteSet(UNION {f[k] : k \in DOMAIN mult})
    <2> HIDE DEF f
    <2> QED  BY <1>4, <1>5, FS_UNION
  <1>7. AppendRows(R, h, mult, own) = R \cup UNION {f[k] : k \in DOMAIN mult}
    <2>1. AppendRows(R, h, mult, own) = R \cup UNION {new(k) : k \in DOMAIN mult}
      BY DEF AppendRows
    <2>2. {new(k) : k \in DOMAIN mult} = {f[k] : k \in DOMAIN mult}
      <3> HIDE DEF new
      <3> QED  OBVIOUS
    <2> HIDE DEF f, new
    <2> QED  BY <2>1, <2>2
  <1>8. UNION {f[k] : k \in DOMAIN mult} \subseteq Row
    <2> HIDE DEF new
    <2> QED  BY <1>2
  <1> DEFINE U == UNION {f[k] : k \in DOMAIN mult}
  <1> HIDE DEF U
  <1>9. IsFiniteSet(U) /\ U \subseteq Row
    BY <1>6, <1>8 DEF U
  <1>10. AppendRows(R, h, mult, own) = R \cup U
    BY <1>7 DEF U
  <1>11. IsFiniteSet(R \cup U)
    BY <1>9, FS_Union
  <1> QED  BY <1>9, <1>10, <1>11

---------------------------------------------------------------------------
(* Types of the operators.                                                 *)

(* The name of a cm is a key. *)
LEMMA CmIDType == \A cm \in Cm : CmID(cm) \in Key
  BY DEF Cm, Key, CmID

(* AddRelationTable writes well-formed rows for the reaped cms. *)
LEMMA AddRelationTableType ==
    ASSUME NEW R, R \subseteq Row, IsFiniteSet(R), NEW h \in Nat,
           NEW cms, cms \subseteq Cm, IsFiniteSet(cms)
    PROVE  /\ AddRelationTable(R, h, cms) \subseteq Row
           /\ IsFiniteSet(AddRelationTable(R, h, cms))
  <1> DEFINE keys == {CmID(c) : c \in cms}
             mult == [k \in keys |-> Cardinality({c \in cms : CmID(c) = k})]
             f == [c \in cms |-> CmID(c)]
  <1>1. IsFiniteSet(keys)
    <2>1. IsFiniteSet({f[c] : c \in cms})
      BY ImageFinite
    <2> QED  BY <2>1
  <1>2. keys \subseteq Key
    BY CmIDType
  <1>3. \A k : Cardinality({c \in cms : CmID(c) = k}) \in Nat
    <2> TAKE k
    <2>1. {c \in cms : CmID(c) = k} \in SUBSET cms
      OBVIOUS
    <2> QED  BY <2>1, FS_Subset, FS_CardinalityType
  <1>4. DOMAIN mult = keys /\ \A k \in keys : mult[k] \in Nat
    <2> HIDE DEF keys
    <2> QED  BY <1>3
  <1>5. AddRelationTable(R, h, cms) = AppendRows(R, h, mult, TRUE)
    BY DEF AddRelationTable
  <1> HIDE DEF mult, keys
  <1> QED  BY <1>1, <1>2, <1>4, <1>5, AppendRowsType

(* SyncRelationTable writes well-formed rows for the packages of a block. *)
LEMMA SyncRelationTableType ==
    ASSUME NEW R, R \subseteq Row, IsFiniteSet(R), NEW h \in Nat,
           NEW packs \in Packages, IsFiniteSet(packs)
    PROVE  /\ SyncRelationTable(R, h, packs) \subseteq Row
           /\ IsFiniteSet(SyncRelationTable(R, h, packs))
  <1> DEFINE keys == {p[1] : p \in packs}
             mult == [k \in keys |-> Cardinality({p \in packs : p[1] = k})]
             f == [p \in packs |-> p[1]]
  <1>1. IsFiniteSet(keys)
    <2>1. IsFiniteSet({f[p] : p \in packs})
      BY ImageFinite
    <2> QED  BY <2>1
  <1>2. keys \subseteq Key
    BY DEF Packages
  <1>3. \A k : Cardinality({p \in packs : p[1] = k}) \in Nat
    <2> TAKE k
    <2>1. {p \in packs : p[1] = k} \in SUBSET packs
      OBVIOUS
    <2> QED  BY <2>1, FS_Subset, FS_CardinalityType
  <1>4. DOMAIN mult = keys /\ \A k \in keys : mult[k] \in Nat
    <2> HIDE DEF keys
    <2> QED  BY <1>3
  <1>5. SyncRelationTable(R, h, packs) = AppendRows(R, h, mult, FALSE)
    BY DEF SyncRelationTable
  <1> HIDE DEF mult, keys
  <1> QED  BY <1>1, <1>2, <1>4, <1>5, AppendRowsType

(* SearchRelationTable returns a finite list of packages. *)
LEMMA SearchRelationTableType ==
    ASSUME NEW R, R \subseteq Row, IsFiniteSet(R), NEW h
    PROVE  /\ SearchRelationTable(R, h) \in Packages
           /\ IsFiniteSet(SearchRelationTable(R, h))
  <1> DEFINE rows == RowsAt(R, h)
             f == [r \in rows |-> <<r.key, r.i>>]
  <1>1. IsFiniteSet(rows)
    <2>1. rows \in SUBSET R
      BY DEF RowsAt
    <2> QED  BY <2>1, FS_Subset
  <1>2. SearchRelationTable(R, h) = {f[r] : r \in rows}
    BY DEF SearchRelationTable
  <1>3. IsFiniteSet({f[r] : r \in rows})
    <2> HIDE DEF rows
    <2> QED  BY <1>1, ImageFinite
  <1>4. SearchRelationTable(R, h) \in Packages
    <2>1. \A r \in Row : <<r.key, r.i>> \in Key \X Nat
      BY DEF Row
    <2> QED  BY <2>1 DEF SearchRelationTable, RowsAt, Packages
  <1> QED  BY <1>2, <1>3, <1>4

(* ModifyRelationTable keeps the table well-formed, and its rows' keys. *)
LEMMA ModifyRelationTableType ==
    ASSUME NEW R, R \subseteq Row, IsFiniteSet(R), NEW h, NEW packs \in Packages
    PROVE  /\ ModifyRelationTable(R, h, packs) \subseteq Row
           /\ IsFiniteSet(ModifyRelationTable(R, h, packs))
  <1> DEFINE mod(r) == IF r.cs = h THEN [r EXCEPT !.packs = packs] ELSE r
             f == [r \in R |-> mod(r)]
  <1>1. ModifyRelationTable(R, h, packs) = {f[r] : r \in R}
    <2>1. ModifyRelationTable(R, h, packs) = {mod(r) : r \in R}
      BY DEF ModifyRelationTable
    <2> HIDE DEF mod
    <2> QED  BY <2>1
  <1>2. IsFiniteSet({f[r] : r \in R})
    <2> HIDE DEF mod
    <2> QED  BY ImageFinite
  <1>3. ModifyRelationTable(R, h, packs) \subseteq Row
    <2>1. \A r \in Row : [r EXCEPT !.packs = packs] \in Row
      BY DEF Row
    <2> QED  BY <2>1 DEF ModifyRelationTable
  <1> QED  BY <1>1, <1>2, <1>3

(* checkdb.Save of rows of the relation table. *)
LEMMA SaveType ==
    ASSUME NEW db, db \subseteq Saved, NEW rows, rows \subseteq Row
    PROVE  Save(db, rows) \subseteq Saved
  BY SMTT(30) DEF Save, Saved, Row

(* ClassifyTxFromBlock builds well-formed cms. *)
LEMMA ClassifyType ==
    ASSUME NEW n \in Nodes, NEW h \in Nat \ {0}, NEW b \in Block,
           NEW packs \in Packages
    PROVE  /\ BlockTxs(b) \subseteq RelayTxs
           /\ ClassifyTxFromBlock(n, h, b, packs) \subseteq Cm
  <1>1. BlockTxs(b) \subseteq RelayTxs
    BY DEF BlockTxs, Block, Cm
  <1>2. ClassifyTxFromBlock(n, h, b, packs) \subseteq Cm
    <2> SUFFICES ASSUME NEW t \in RelayTxs, NEW d \in Shards
                 PROVE  [src |-> ShardOf[n], dst |-> d, h |-> h, tx |-> t,
                         packs |-> packs, by |-> n] \in Cm
      BY SMTT(30), <1>1, ConstantsAssumption DEF ClassifyTxFromBlock
    <2> QED  BY ConstantsAssumption DEF Cm
  <1> QED  BY <1>1, <1>2

(* UpdatecmDB keeps every counter between 0 and ResendAt. *)
LEMMA UpdatecmDBType ==
    ASSUME NEW D, D \subseteq Entry
    PROVE  UpdatecmDB(D) \subseteq Entry /\ Due(D) \subseteq Cm
  <1> DEFINE next(a) == IF a = ResendAt THEN 1 ELSE a + 1
             old(e) == [e EXCEPT !.age = next(e.age)]
  <1>1. \A a \in 0..ResendAt : next(a) \in 0..ResendAt
    BY SMTT(30), ConstantsAssumption
  <1>2. UpdatecmDB(D) = {old(e) : e \in D}
    BY DEF UpdatecmDB
  <1> HIDE DEF next
  <1>3. \A e \in Entry : old(e) \in Entry
    BY <1>1 DEF Entry
  <1>4. \A e \in D : e.cm \in Cm
    BY DEF Entry
  <1>5. Due(D) \subseteq Cm
    BY <1>4 DEF Due
  <1> HIDE DEF old
  <1> QED  BY <1>2, <1>3, <1>5

---------------------------------------------------------------------------
(* Type correctness.                                                       *)

FiniteOK ==
    /\ \A n \in Nodes : IsFiniteSet(pool[n]) /\ IsFiniteSet(rl[n])
    /\ \A s \in Shards : cons[s].block # NoBlock => IsFiniteSet(cons[s].block.packs)

TypeInv == TypeOK /\ FiniteOK

(* The initial states are well formed. *)
LEMMA TypeInit == Init => TypeInv
  <1> SUFFICES ASSUME Init PROVE TypeInv
    OBVIOUS
  <1>1. cons \in [Shards -> Round] /\ \A s \in Shards : cons[s].block = NoBlock
    BY SMTT(30) DEF Init, Round
  <1>2. chain \in [Shards -> Seq(Block)]
    BY SMTT(30) DEF Init
  <1>3. TypeOK
    BY SMTT(30), <1>1, <1>2, ConstantsAssumption DEF Init, TypeOK
  <1>4. FiniteOK
    BY <1>1, FS_EmptySet DEF Init, FiniteOK
  <1> QED  BY <1>3, <1>4 DEF TypeInv

(* A round with a well-formed proposal keeps the voting state well formed. *)
LEMMA EnterRoundType ==
    ASSUME TypeInv, NEW s \in Shards, NEW r \in Nat, NEW l \in Nodes,
           NEW b \in Block \cup {NoBlock}, NEW P \in SUBSET Nodes,
           b # NoBlock => IsFiniteSet(b.packs), EnterRound(s, r, l, b, P)
    PROVE  /\ cons' \in [Shards -> Round]
           /\ \A z \in Shards : cons'[z].block # NoBlock
                                    => IsFiniteSet(cons'[z].block.packs)
  <1>1. cons \in [Shards -> Round]
    BY DEF TypeInv, TypeOK
  <1> DEFINE q == [round |-> r, leader |-> l, block |-> b, prevoted |-> P]
  <1>2. q \in Round /\ q.block = b
    BY DEF Round
  <1> HIDE DEF q
  <1>3. cons' = [cons EXCEPT ![s] = q]
    BY DEF EnterRound, q
  <1> QED  BY <1>1, <1>2, <1>3 DEF TypeInv, FiniteOK

(* The leader's reap and the block it proposes. *)
LEMMA TypePropose ==
    ASSUME TypeInv, NEW n \in Nodes, NEW T \in SUBSET RelayTxs,
           NEW C \in SUBSET pool[n], NEW G \in SUBSET pool[n], Propose(n, T, C, G)
    PROVE  TypeInv'
  <1> DEFINE s == ShardOf[n]
             h == Height(s)
             R == AddRelationTable(rl[n], h, C \cup G)
             ins == {c \in C : c.tx # NoTx /\ ~JudgeCrossMessage(c)}
             b == [outs |-> T, ins |-> ins,
                   packs |-> SearchRelationTable(R, h), leader |-> n]
  <1>1. s \in Shards /\ h \in Nat
    BY SMTT(30), ConstantsAssumption DEF TypeInv, TypeOK, Height
  <1>2. R \subseteq Row /\ IsFiniteSet(R)
    <2>1. rl[n] \subseteq Row /\ IsFiniteSet(rl[n])
      BY DEF TypeInv, TypeOK, FiniteOK
    <2>2. C \cup G \in SUBSET pool[n] /\ C \cup G \subseteq Cm
      BY DEF TypeInv, TypeOK
    <2>3. IsFiniteSet(C \cup G)
      BY <2>2, FS_Subset DEF TypeInv, FiniteOK
    <2> HIDE DEF h
    <2> QED  BY <1>1, <2>1, <2>2, <2>3, AddRelationTableType
  <1> HIDE DEF R, h
  <1>3. SearchRelationTable(R, h) \in Packages /\ IsFiniteSet(SearchRelationTable(R, h))
    BY <1>2, SearchRelationTableType
  <1>4. ins \in SUBSET {c \in Cm : c.tx # NoTx}
    BY DEF TypeInv, TypeOK
  <1> HIDE DEF ins
  <1>5. b \in Block
    BY <1>3, <1>4 DEF Block
  <1>6. /\ rl' = [rl EXCEPT ![n] = R]
        /\ EnterRound(s, cons[s].round, n, b, {n})
        /\ UNCHANGED <<chain, app, pool, cache, done, cmdb, net, crashes>>
    BY DEF Propose, R, h, ins
  <1>7. b.packs = SearchRelationTable(R, h)
    OBVIOUS
  <1> HIDE DEF s, b
  <1>8. cons' \in [Shards -> Round] /\ \A z \in Shards :
           cons'[z].block # NoBlock => IsFiniteSet(cons'[z].block.packs)
    <2>1. cons[s].round \in Nat /\ {n} \in SUBSET Nodes /\ b \in Block \cup {NoBlock}
      BY <1>1, <1>5 DEF TypeInv, TypeOK, Round
    <2>2. IsFiniteSet(b.packs)
      BY <1>3, <1>7
    <2> QED  BY <1>1, <1>6, <2>1, <2>2, EnterRoundType
  <1>9. TypeOK'
    BY <1>2, <1>6, <1>8 DEF TypeInv, TypeOK
  <1>10. \A m \in Nodes : IsFiniteSet(pool'[m]) /\ IsFiniteSet(rl'[m])
    BY <1>2, <1>6 DEF TypeInv, TypeOK, FiniteOK
  <1> QED  BY <1>8, <1>9, <1>10 DEF TypeInv, FiniteOK

(* A follower's prevote. *)
LEMMA TypePrevote ==
    ASSUME TypeInv, NEW n \in Nodes, Prevote(n)
    PROVE  TypeInv'
  <1> DEFINE s == ShardOf[n]
             h == Height(s)
             b == cons[s].block
             R == SyncRelationTable(rl[n], h, b.packs)
  <1>1. s \in Shards /\ h \in Nat
    BY SMTT(30), ConstantsAssumption DEF TypeInv, TypeOK, Height
  <1>2. b \in Block /\ b \in Block \cup {NoBlock} /\ IsFiniteSet(b.packs)
    BY <1>1 DEF TypeInv, TypeOK, FiniteOK, Prevote, Round
  <1>3. b.packs \in Packages
    BY <1>2 DEF Block
  <1>4. /\ cons[s].round \in Nat /\ cons[s].leader \in Nodes
        /\ cons[s].prevoted \cup {n} \in SUBSET Nodes
    BY <1>1 DEF TypeInv, TypeOK, Round
  <1>5. /\ rl' = [rl EXCEPT ![n] = R]
        /\ EnterRound(s, cons[s].round, cons[s].leader, b, cons[s].prevoted \cup {n})
        /\ UNCHANGED <<chain, app, pool, cache, done, cmdb, net, crashes>>
    BY DEF Prevote
  <1> HIDE DEF s, h, b
  <1>6. R \subseteq Row /\ IsFiniteSet(R)
    <2>1. rl[n] \subseteq Row /\ IsFiniteSet(rl[n])
      BY DEF TypeInv, TypeOK, FiniteOK
    <2> QED  BY <1>1, <1>2, <1>3, <2>1, SyncRelationTableType
  <1> HIDE DEF R
  <1>7. cons' \in [Shards -> Round] /\ \A z \in Shards :
           cons'[z].block # NoBlock => IsFiniteSet(cons'[z].block.packs)
    BY <1>1, <1>2, <1>4, <1>5, EnterRoundType
  <1>8. TypeOK'
    BY <1>5, <1>6, <1>7 DEF TypeInv, TypeOK
  <1>9. \A m \in Nodes : IsFiniteSet(pool'[m]) /\ IsFiniteSet(rl'[m])
    BY <1>5, <1>6 DEF TypeInv, TypeOK, FiniteOK
  <1> QED  BY <1>7, <1>8, <1>9 DEF TypeInv, FiniteOK

(* A failed round. *)
LEMMA TypeNewRound ==
    ASSUME TypeInv, NEW s \in Shards, EnterNewRound(s)
    PROVE  TypeInv'
  <1> DEFINE b == cons[s].block
  <1>1. /\ cons[s].round + 1 \in Nat
        /\ b \in Block /\ IsFiniteSet(b.packs)
    BY SMTT(30) DEF TypeInv, TypeOK, FiniteOK, EnterNewRound, Round
  <1>2. \A l \in Nodes : ProposedBy(b, l) \in Block /\ ProposedBy(b, l).packs = b.packs
    BY <1>1 DEF ProposedBy, Block
  <1>3. PICK l \in Nodes :
          \/ EnterRound(s, cons[s].round + 1, l, NoBlock, {})
          \/ EnterRound(s, cons[s].round + 1, l, ProposedBy(b, l), {l})
    BY DEF EnterNewRound, NodesOf
  <1>4. UNCHANGED <<chain, app, pool, cache, rl, done, cmdb, net, crashes>>
    BY DEF EnterNewRound
  <1> HIDE DEF b
  <1>5. cons' \in [Shards -> Round] /\ \A z \in Shards :
           cons'[z].block # NoBlock => IsFiniteSet(cons'[z].block.packs)
    <2>1. CASE EnterRound(s, cons[s].round + 1, l, NoBlock, {})
      <3>1. NoBlock \in Block \cup {NoBlock} /\ {} \in SUBSET Nodes
        OBVIOUS
      <3> QED  BY <1>1, <2>1, <3>1, EnterRoundType
    <2>2. CASE EnterRound(s, cons[s].round + 1, l, ProposedBy(b, l), {l})
      <3>1. ProposedBy(b, l) \in Block \cup {NoBlock} /\ {l} \in SUBSET Nodes
        BY <1>2
      <3>2. IsFiniteSet(ProposedBy(b, l).packs)
        BY <1>1, <1>2
      <3> HIDE DEF ProposedBy
      <3> QED  BY <1>1, <2>2, <3>1, <3>2, EnterRoundType
    <2> QED  BY <1>3, <2>1, <2>2
  <1>6. TypeOK'
    BY <1>4, <1>5 DEF TypeInv, TypeOK
  <1> QED  BY <1>4, <1>5, <1>6 DEF TypeInv, FiniteOK

(* A decision. *)
LEMMA TypeEnterCommit ==
    ASSUME TypeInv, NEW s \in Shards, EnterCommit(s)
    PROVE  TypeInv'
  <1>1. cons[s].block \in Block
    BY DEF TypeInv, TypeOK, EnterCommit, Round
  <1>2. PICK l \in Nodes : EnterRound(s, 0, l, NoBlock, {})
    BY DEF EnterCommit, NodesOf
  <1>3. /\ chain' = [chain EXCEPT ![s] = Append(@, cons[s].block)]
        /\ UNCHANGED <<app, pool, cache, rl, done, cmdb, net, crashes>>
    BY DEF EnterCommit
  <1>4. chain' \in [Shards -> Seq(Block)]
    BY SMTT(30), <1>1, <1>3 DEF TypeInv, TypeOK
  <1>5. cons' \in [Shards -> Round] /\ \A z \in Shards :
           cons'[z].block # NoBlock => IsFiniteSet(cons'[z].block.packs)
    <2>1. NoBlock \in Block \cup {NoBlock} /\ {} \in SUBSET Nodes /\ 0 \in Nat
      OBVIOUS
    <2> QED  BY <1>2, <2>1, EnterRoundType
  <1>6. TypeOK'
    BY <1>3, <1>4, <1>5 DEF TypeInv, TypeOK
  <1> QED  BY <1>3, <1>5, <1>6 DEF TypeInv, FiniteOK

\* The values FinalizeCommit(n) computes.
FHeight(n) == app[n] + 1
FPacks(n) == SearchRelationTable(rl[n], FHeight(n))
FCms(n) == ClassifyTxFromBlock(n, FHeight(n), chain[ShardOf[n]][FHeight(n)], FPacks(n))
FConfirming(n) == {c \in FCms(n) : JudgeCrossMessage(c)}
FRows(n) == ModifyRelationTable(rl[n], FHeight(n), FPacks(n))
FGone(n) == RemovedCms(FRows(n), FHeight(n), pool[n])
FEntries(n) == AddCrossMessagesDB(cmdb[n], FCms(n) \ FConfirming(n))
FSaved(n) == RemovedRows(FRows(n), FGone(n))

(* FinalizeCommit in terms of those values. *)
LEMMA FinalizeEffect ==
    ASSUME NEW n \in Nodes, FinalizeCommit(n)
    PROVE  /\ app[n] < Len(chain[ShardOf[n]])
           /\ app' = [app EXCEPT ![n] = FHeight(n)]
           /\ pool' = [pool EXCEPT ![n] = @ \ FGone(n)]
           /\ rl' = [rl EXCEPT ![n] = FRows(n) \ FSaved(n)]
           /\ done' = [done EXCEPT ![n] = Save(@, FSaved(n))]
           /\ cmdb' = [cmdb EXCEPT ![n] = UpdatecmDB(FEntries(n))]
           /\ \E S : /\ S \subseteq FConfirming(n) \cup Due(FEntries(n))
                    /\ net' = net \cup S
           /\ UNCHANGED <<chain, cons, cache, crashes>>
  BY DEF FinalizeCommit, SendCrossMessages, FHeight, FPacks, FCms, FConfirming,
         FRows, FGone, FEntries, FSaved

(* Those values are well formed. *)
LEMMA FinalizeType ==
    ASSUME TypeInv, NEW n \in Nodes, FinalizeCommit(n)
    PROVE  /\ FHeight(n) \in 1..Len(chain[ShardOf[n]])
           /\ chain[ShardOf[n]][FHeight(n)] \in Block
           /\ FCms(n) \subseteq Cm
           /\ FRows(n) \subseteq Row /\ IsFiniteSet(FRows(n))
           /\ FEntries(n) \subseteq Entry
  <1> DEFINE s == ShardOf[n]
  <1>1. app[n] < Len(chain[s])
    BY FinalizeEffect
  <1>2. /\ s \in Shards
        /\ FHeight(n) \in Nat \ {0} /\ FHeight(n) \in 1..Len(chain[s])
    BY SMTT(30), <1>1, ConstantsAssumption DEF TypeInv, TypeOK, FHeight
  <1>3. chain[s][FHeight(n)] \in Block
    BY SMTT(30), <1>2 DEF TypeInv, TypeOK
  <1>4. rl[n] \subseteq Row /\ IsFiniteSet(rl[n]) /\ cmdb[n] \subseteq Entry
    BY DEF TypeInv, TypeOK, FiniteOK
  <1>5. FPacks(n) \in Packages
    BY <1>4, SearchRelationTableType DEF FPacks
  <1>6. FCms(n) \subseteq Cm
    BY <1>2, <1>3, <1>5, ClassifyType DEF FCms
  <1>7. FRows(n) \subseteq Row /\ IsFiniteSet(FRows(n))
    BY <1>4, <1>5, ModifyRelationTableType DEF FRows
  <1>8. FEntries(n) \subseteq Entry
    BY SMTT(30), <1>4, <1>6, ConstantsAssumption DEF FEntries, AddCrossMessagesDB, Entry
  <1> QED  BY <1>2, <1>3, <1>6, <1>7, <1>8

(* A node applies a decided block. *)
LEMMA TypeFinalize ==
    ASSUME TypeInv, NEW n \in Nodes, FinalizeCommit(n)
    PROVE  TypeInv'
  <1> DEFINE keep == FRows(n) \ FSaved(n)
  <1>0. /\ app' = [app EXCEPT ![n] = FHeight(n)]
        /\ pool' = [pool EXCEPT ![n] = @ \ FGone(n)]
        /\ rl' = [rl EXCEPT ![n] = keep]
        /\ done' = [done EXCEPT ![n] = Save(@, FSaved(n))]
        /\ cmdb' = [cmdb EXCEPT ![n] = UpdatecmDB(FEntries(n))]
        /\ \E S : /\ S \subseteq FConfirming(n) \cup Due(FEntries(n))
                 /\ net' = net \cup S
        /\ UNCHANGED <<chain, cons, cache, crashes>>
    BY FinalizeEffect
  <1>1. /\ FHeight(n) \in Nat
        /\ FConfirming(n) \subseteq Cm
        /\ FRows(n) \subseteq Row /\ IsFiniteSet(FRows(n))
        /\ FEntries(n) \subseteq Entry
    BY SMTT(30), FinalizeType DEF FConfirming
  <1>2. FSaved(n) \subseteq Row
    BY <1>1 DEF FSaved, RemovedRows
  <1>3. IsFiniteSet(keep) /\ keep \subseteq Row
    <2>1. keep \in SUBSET FRows(n)
      OBVIOUS
    <2> QED  BY <1>1, <2>1, FS_Subset
  <1>4. IsFiniteSet(pool[n] \ FGone(n))
    <2>1. pool[n] \ FGone(n) \in SUBSET pool[n] /\ IsFiniteSet(pool[n])
      BY DEF TypeInv, FiniteOK
    <2> QED  BY <2>1, FS_Subset
  <1>5. Save(done[n], FSaved(n)) \subseteq Saved
    <2>1. done[n] \subseteq Saved
      BY DEF TypeInv, TypeOK
    <2> QED  BY <1>2, <2>1, SaveType
  <1>6. UpdatecmDB(FEntries(n)) \subseteq Entry /\ Due(FEntries(n)) \subseteq Cm
    BY <1>1, UpdatecmDBType
  <1>7. TypeOK'
    <2>1. app' \in [Nodes -> Nat] /\ pool' \in [Nodes -> SUBSET Cm]
      BY <1>1, <1>0 DEF TypeInv, TypeOK
    <2>2. rl' \in [Nodes -> SUBSET Row] /\ done' \in [Nodes -> SUBSET Saved]
      BY <1>3, <1>5, <1>0 DEF TypeInv, TypeOK
    <2>3. cmdb' \in [Nodes -> SUBSET Entry]
      BY <1>6, <1>0 DEF TypeInv, TypeOK
    <2>4. net' \in SUBSET Cm
      BY <1>1, <1>6, <1>0 DEF TypeInv, TypeOK
    <2>5. UNCHANGED <<chain, cons, cache, crashes>>
      BY <1>0
    <2> QED  BY <2>1, <2>2, <2>3, <2>4, <2>5 DEF TypeInv, TypeOK
  <1>8. FiniteOK'
    BY <1>3, <1>4, <1>0 DEF TypeInv, TypeOK, FiniteOK
  <1> QED  BY <1>7, <1>8 DEF TypeInv

(* An empty block. *)
LEMMA TypeEmptyBlock ==
    ASSUME TypeInv, NEW s \in Shards, EmptyBlock(s)
    PROVE  TypeInv'
  <1>1. cons[s].leader \in Nodes
    BY DEF TypeInv, TypeOK, Round
  <1>2. \A n \in Nodes : UpdatecmDB(cmdb[n]) \subseteq Entry /\ Due(cmdb[n]) \subseteq Cm
    BY UpdatecmDBType DEF TypeInv, TypeOK
  <1>3. PICK l \in Nodes : EnterRound(s, 0, l, NoBlock, {})
    BY DEF EmptyBlock, NodesOf
  <1>4. /\ cmdb' = [n \in Nodes |-> IF ShardOf[n] = s THEN UpdatecmDB(cmdb[n])
                                                     ELSE cmdb[n]]
        /\ \E S : S \subseteq Due(cmdb[cons[s].leader]) /\ net' = net \cup S
        /\ UNCHANGED <<chain, app, pool, cache, rl, done, crashes>>
    BY DEF EmptyBlock, SendCrossMessages
  <1>5. cons' \in [Shards -> Round] /\ \A z \in Shards :
           cons'[z].block # NoBlock => IsFiniteSet(cons'[z].block.packs)
    <2>1. NoBlock \in Block \cup {NoBlock} /\ {} \in SUBSET Nodes /\ 0 \in Nat
      OBVIOUS
    <2> QED  BY <1>3, <2>1, EnterRoundType
  <1>6. TypeOK'
    BY <1>1, <1>2, <1>4, <1>5 DEF TypeInv, TypeOK
  <1> QED  BY <1>4, <1>5, <1>6 DEF TypeInv, FiniteOK

(* Packages delete entries, and a new cm joins the mempool. *)
LEMMA TypeCheckTx ==
    ASSUME TypeInv, NEW n \in Nodes, NEW cm \in Cm, CheckTxWithInfo(n, cm),
           UNCHANGED <<chain, cons, app, rl, done, net, crashes>>
    PROVE  TypeInv'
  <1>1. /\ cache' = [cache EXCEPT ![n] = @ \cup {cm}]
        /\ pool' = [pool EXCEPT ![n] = @ \cup {cm}]
    BY DEF CheckTxWithInfo
  <1>2. cmdb' \in [Nodes -> SUBSET Entry]
    BY DEF CheckTxWithInfo, TypeInv, TypeOK
  <1>3. IsFiniteSet(pool[n] \cup {cm})
    BY FS_AddElement DEF TypeInv, FiniteOK
  <1>4. TypeOK'
    BY <1>1, <1>2 DEF TypeInv, TypeOK
  <1>5. FiniteOK'
    BY <1>1, <1>3 DEF TypeInv, TypeOK, FiniteOK
  <1> QED  BY <1>4, <1>5 DEF TypeInv

(* A receipt deletes entries. *)
LEMMA TypeReceipt ==
    ASSUME TypeInv, NEW n \in Nodes, NEW E \in SUBSET cmdb[n],
           cmdb' = [cmdb EXCEPT ![n] = E],
           UNCHANGED <<chain, cons, app, pool, cache, rl, done, net, crashes>>
    PROVE  TypeInv'
  BY DEF TypeInv, TypeOK, FiniteOK

(* Every step of the protocol keeps the state well formed. *)
LEMMA TypeNext == TypeInv /\ [Next]_vars => TypeInv'
  <1> SUFFICES ASSUME TypeInv, [Next]_vars PROVE TypeInv'
    OBVIOUS
  <1>1. ASSUME NEW n \in Nodes, CreateProposalBlock(n) PROVE TypeInv'
    <2>1. PICK T \in SUBSET RelayTxs, C \in SUBSET pool[n] :
            \E G \in GasStops(ShardOf[n], pool[n] \ C) : Propose(n, T, C, G)
      BY <1>1 DEF CreateProposalBlock, Pending
    <2>2. PICK G \in SUBSET pool[n] : Propose(n, T, C, G)
      BY <2>1 DEF GasStops
    <2> QED  BY <2>2, TypePropose
  <1>2. ASSUME NEW n \in Nodes, Prevote(n) PROVE TypeInv'
    BY <1>2, TypePrevote
  <1>3. ASSUME NEW n \in Nodes, FinalizeCommit(n) PROVE TypeInv'
    BY <1>3, TypeFinalize
  <1>4. ASSUME NEW n \in Nodes, Restart(n) PROVE TypeInv'
    <2>1. TypeOK'
      BY SMTT(30), <1>4, ConstantsAssumption DEF Restart, TypeInv, TypeOK
    <2>2. FiniteOK'
      BY <1>4, FS_EmptySet DEF Restart, TypeInv, TypeOK, FiniteOK
    <2> QED  BY <2>1, <2>2 DEF TypeInv
  <1>5. ASSUME NEW n \in Nodes, NEW cm \in net, ReceiveCm(n, cm) PROVE TypeInv'
    <2>1. cm \in Cm
      BY DEF TypeInv, TypeOK
    <2> QED  BY <1>5, <2>1, TypeCheckTx DEF ReceiveCm
  <1>6. ASSUME NEW n \in Nodes, NEW cm \in net, ReplyFromCheckdb(n, cm) PROVE TypeInv'
    <2>1. net' \in SUBSET Cm
      <3>1. PICK d \in done[n] : \E S : S \subseteq {Receipt(n, d)} /\ net' = net \cup S
        BY <1>6 DEF ReplyFromCheckdb, SendCrossMessages
      <3>2. d \in Saved
        BY DEF TypeInv, TypeOK
      <3>3. Receipt(n, d) \in Cm
        BY <3>2, ConstantsAssumption DEF Receipt, Saved, Key, Cm
      <3> QED  BY <3>1, <3>3 DEF TypeInv, TypeOK
    <2> QED  BY <1>6, <2>1 DEF ReplyFromCheckdb, TypeInv, TypeOK, FiniteOK
  <1>7. ASSUME NEW n \in Nodes, NEW cm \in net, ReceiveReceipt(n, cm) PROVE TypeInv'
    <2>1. CASE cm \in cache[n]
      BY <1>7, <2>1, TypeReceipt DEF ReceiveReceipt
    <2>2. CASE cm \notin cache[n]
      <3>1. cm \in Cm /\ CheckTxWithInfo(n, cm)
        BY <1>7, <2>2 DEF ReceiveReceipt, CheckTxWithInfo, TypeInv, TypeOK
      <3> QED  BY <1>7, <3>1, TypeCheckTx DEF ReceiveReceipt
    <2> QED  BY <2>1, <2>2
  <1>8. ASSUME NEW n \in Nodes, NEW m \in Nodes, NEW cm \in cache[m],
               GossipReceive(n, m, cm)
        PROVE  TypeInv'
    <2>1. cm \in Cm
      BY DEF TypeInv, TypeOK
    <2>2. CASE CheckTxWithInfo(n, cm)
      <3>1. UNCHANGED <<chain, cons, app, rl, done, net, crashes>>
        BY <1>8 DEF GossipReceive
      <3> QED  BY <2>1, <2>2, <3>1, TypeCheckTx
    <2>3. CASE ~CheckTxWithInfo(n, cm)
      <3>1. PICK E \in SUBSET cmdb[n] : cmdb' = [cmdb EXCEPT ![n] = E]
        BY <1>8, <2>3 DEF GossipReceive
      <3>2. UNCHANGED <<chain, cons, app, pool, cache, rl, done, net, crashes>>
        BY <1>8, <2>3 DEF GossipReceive
      <3> QED  BY <3>1, <3>2, TypeReceipt
    <2> QED  BY <2>2, <2>3
  <1>9. ASSUME NEW s \in Shards, EnterNewRound(s) \/ EnterCommit(s) \/ EmptyBlock(s)
        PROVE  TypeInv'
    BY <1>9, TypeNewRound, TypeEnterCommit, TypeEmptyBlock
  <1>10. CASE UNCHANGED vars
    BY <1>10 DEF vars, TypeInv, TypeOK, FiniteOK
  <1> QED
    BY <1>1, <1>2, <1>3, <1>4, <1>5, <1>6, <1>7, <1>8, <1>9, <1>10 DEF Next, Undisturbed

(* The state of every node stays well formed, whatever is lost, gossiped,  *)
(* sent again or restarted, for any shards, nodes and transactions.        *)
THEOREM TypeCorrect == Spec => []TypeOK
  <1>1. TypeInv => TypeOK
    BY DEF TypeInv
  <1> QED  BY TypeInit, TypeNext, <1>1, PTL DEF Spec

---------------------------------------------------------------------------
(* Credits and debits *)

IInv == TypeInv /\ CmsGenuine /\ NoCreditWithoutDebit

\* Decided blocks stay.
Grows ==
    \A s \in Shards : /\ Len(chain[s]) <= Len(chain'[s])
                      /\ \A h \in 1..Len(chain[s]) : chain'[s][h] = chain[s][h]

(* A genuine cm stays genuine as chains grow. *)
LEMMA GenuineStays ==
    ASSUME TypeInv, TypeInv', Grows, NEW cm \in Cm, Genuine(cm)
    PROVE  Genuine(cm)'
  <1>1. CASE cm.tx = NoTx
    BY <1>1 DEF Genuine
  <1>2. CASE cm.tx # NoTx
    <2>1. cm.src \in Shards /\ cm.h \in 1..Len(chain[cm.src])
      BY <1>2 DEF Genuine, Cm
    <2>2. Len(chain[cm.src]) \in Nat /\ Len(chain'[cm.src]) \in Nat
      BY SMTT(30), <2>1 DEF TypeInv, TypeOK
    <2>3. cm.h \in 1..Len(chain'[cm.src]) /\ chain'[cm.src][cm.h] = chain[cm.src][cm.h]
      BY SMTT(30), <2>1, <2>2 DEF Grows
    <2>4. Genuine(cm)' <=>
            (cm.tx # NoTx =>
              /\ cm.h \in 1..Len(chain'[cm.src])
              /\ cm.tx \in BlockTxs(chain'[cm.src][cm.h])
              /\ cm.dst = IF Sender[cm.tx] = cm.src THEN Receiver[cm.tx]
                                                   ELSE Sender[cm.tx])
      BY DEF Genuine, BlockTxs
    <2> QED  BY <1>2, <2>3, <2>4 DEF Genuine
  <1> QED  BY <1>1, <1>2

(* A relaytx that may be credited may be credited later as well. *)
LEMMA PayableStays ==
    ASSUME TypeInv, TypeInv', Grows, NEW s \in Shards, NEW c \in Cm,
           c.tx # NoTx, Payable(s, c)
    PROVE  Payable(s, c)'
  <1> DEFINE z == Sender[c.tx]
  <1>1. z \in Shards
    BY ConstantsAssumption DEF Cm
  <1>2. PICK h \in 1..Len(chain[z]) : c.tx \in chain[z][h].outs
    BY DEF Payable, Debited
  <1>3. Len(chain[z]) \in Nat /\ Len(chain'[z]) \in Nat
    BY SMTT(30), <1>1 DEF TypeInv, TypeOK
  <1>4. h \in 1..Len(chain'[z]) /\ chain'[z][h] = chain[z][h]
    BY SMTT(30), <1>1, <1>3 DEF Grows
  <1> QED  BY <1>2, <1>4 DEF Payable, Debited

(* What a step has to show: only new cms and new proposals matter. *)
LEMMA CmsGenuineStep ==
    ASSUME IInv, TypeInv', Grows,
           \A cm \in net' : cm \in net \/ Genuine(cm)',
           \A n \in Nodes : \A cm \in pool'[n] \cup cache'[n] :
               \/ cm \in pool[n] \cup cache[n]
               \/ Genuine(cm)' /\ Dest(cm) = ShardOf[n],
           \A n \in Nodes : \A e \in cmdb'[n] :
               (\E f \in cmdb[n] : f.cm = e.cm) \/ Genuine(e.cm)',
           \A s \in Shards : cons'[s].block # NoBlock =>
               \A c \in cons'[s].block.ins :
                   \/ cons[s].block # NoBlock /\ c \in cons[s].block.ins
                   \/ Payable(s, c)'
    PROVE  CmsGenuine'
  <1>1. \A cm \in net' : Genuine(cm)'
    BY GenuineStays DEF IInv, CmsGenuine, TypeInv, TypeOK
  <1>2. \A n \in Nodes : \A cm \in pool'[n] \cup cache'[n] :
          Genuine(cm)' /\ Dest(cm) = ShardOf[n]
    <2> SUFFICES ASSUME NEW n \in Nodes, NEW cm \in pool[n] \cup cache[n]
                 PROVE  Genuine(cm)' /\ Dest(cm) = ShardOf[n]
      OBVIOUS
    <2>1. cm \in Cm /\ Genuine(cm) /\ Dest(cm) = ShardOf[n]
      BY DEF IInv, CmsGenuine, TypeInv, TypeOK
    <2> QED  BY <2>1, GenuineStays DEF IInv
  <1>3. \A n \in Nodes : \A e \in cmdb'[n] : Genuine(e.cm)'
    <2> SUFFICES ASSUME NEW n \in Nodes, NEW e \in cmdb'[n], NEW f \in cmdb[n],
                        f.cm = e.cm
                 PROVE  Genuine(f.cm)'
      OBVIOUS
    <2>1. f \in Entry
      BY DEF IInv, TypeInv, TypeOK
    <2>2. f.cm \in Cm
      BY <2>1 DEF Entry
    <2>3. Genuine(f.cm)
      BY DEF IInv, CmsGenuine
    <2> QED  BY <2>2, <2>3, GenuineStays DEF IInv
  <1>4. \A s \in Shards : cons'[s].block # NoBlock =>
          \A c \in cons'[s].block.ins : Payable(s, c)'
    <2> SUFFICES ASSUME NEW s \in Shards, cons[s].block # NoBlock,
                        NEW c \in cons[s].block.ins
                 PROVE  Payable(s, c)'
      OBVIOUS
    <2>1. c \in Cm /\ c.tx # NoTx /\ Payable(s, c)
      BY DEF IInv, CmsGenuine, TypeInv, TypeOK, Round, Block
    <2> QED  BY <2>1, PayableStays DEF IInv
  <1> QED  BY <1>1, <1>2, <1>3, <1>4 DEF CmsGenuine, Dest

(* A relaytx that a mempool's cm brings, and that is a debit of the cm's     *)
(* source, may be credited: if the source had credited it instead, it would  *)
(* be both parties of the relaytx.                                           *)
LEMMA PoolPayable ==
    ASSUME IInv, NEW n \in Nodes, NEW c \in pool[n], c.tx # NoTx, ~JudgeCrossMessage(c)
    PROVE  Payable(ShardOf[n], c)
  <1>1. c \in Cm /\ Genuine(c) /\ Dest(c) = ShardOf[n]
    BY DEF IInv, CmsGenuine, TypeInv, TypeOK
  <1>2. c.tx \in RelayTxs /\ c.src = Sender[c.tx] /\ c.src \in Shards
    BY <1>1 DEF JudgeCrossMessage, Cm
  <1>3. Receiver[c.tx] = ShardOf[n]
    BY <1>1, <1>2 DEF Genuine, Dest
  <1>4. c.h \in 1..Len(chain[c.src]) /\ c.tx \in BlockTxs(chain[c.src][c.h])
    BY <1>1 DEF Genuine
  <1>5. c.tx \in chain[c.src][c.h].outs
    <2> SUFFICES ASSUME c.tx \notin chain[c.src][c.h].outs PROVE FALSE
      OBVIOUS
    <2>1. PICK d \in chain[c.src][c.h].ins : d.tx = c.tx
      BY <1>4 DEF BlockTxs
    <2>2. Receiver[c.tx] = c.src
      BY SMTT(30), <1>2, <1>4, <2>1 DEF IInv, NoCreditWithoutDebit, Payable
    <2> QED  BY <1>2, <2>2, ConstantsAssumption
  <1> QED  BY <1>2, <1>3, <1>4, <1>5 DEF Payable, Debited

(* Steps that decide no block keep the chains. *)
LEMMA SameChain ==
    ASSUME IInv, UNCHANGED chain
    PROVE  Grows /\ NoCreditWithoutDebit'
  <1>1. Grows
    BY SMTT(30) DEF IInv, TypeInv, TypeOK, Grows
  <1>2. NoCreditWithoutDebit'
    BY SMTT(30) DEF IInv, NoCreditWithoutDebit, Payable, Debited
  <1> QED  BY <1>1, <1>2

(* The proposal of a leader contains debited relaytx only. *)
LEMMA SafePropose ==
    ASSUME IInv, TypeInv', NEW n \in Nodes, NEW T \in SUBSET RelayTxs,
           NEW C \in SUBSET pool[n], NEW G \in SUBSET pool[n], Propose(n, T, C, G)
    PROVE  IInv'
  <1> DEFINE ins == {c \in C : c.tx # NoTx /\ ~JudgeCrossMessage(c)}
  <1>1. UNCHANGED <<chain, app, pool, cache, done, cmdb, net, crashes>>
    BY DEF Propose
  <1>2. PICK p : EnterRound(ShardOf[n], cons[ShardOf[n]].round, n,
           [outs |-> T, ins |-> ins, packs |-> p, leader |-> n], {n})
    BY DEF Propose
  <1>3. \A s \in Shards : cons'[s].block # NoBlock =>
           \A c \in cons'[s].block.ins :
               \/ cons[s].block # NoBlock /\ c \in cons[s].block.ins
               \/ Payable(s, c)'
    <2>1. \A c \in ins : Payable(ShardOf[n], c)'
      BY <1>1, PoolPayable DEF Payable, Debited
    <2>2. \A s \in Shards : cons'[s] = IF s = ShardOf[n]
             THEN [round |-> cons[ShardOf[n]].round, leader |-> n, block |->
                     [outs |-> T, ins |-> ins, packs |-> p, leader |-> n],
                   prevoted |-> {n}]
             ELSE cons[s]
      BY <1>2 DEF EnterRound, IInv, TypeInv, TypeOK
    <2> HIDE DEF ins
    <2> QED  BY SMTT(30), <2>1, <2>2
  <1>4. CmsGenuine'
    BY <1>1, <1>3, SameChain, CmsGenuineStep
  <1> QED  BY <1>1, <1>4, SameChain DEF IInv

(* Voting rounds and decisions: proposals carry over, and a decided block's  *)
(* credits were those of the proposal.                                       *)
LEMMA SafeRounds ==
    ASSUME IInv, TypeInv', NEW s \in Shards, NEW r, NEW l, NEW b, NEW P,
           EnterRound(s, r, l, b, P),
           b # NoBlock => cons[s].block # NoBlock /\ b.ins = cons[s].block.ins,
           Grows, UNCHANGED <<pool, cache, net>>,
           \A n \in Nodes : \A e \in cmdb'[n] : \E f \in cmdb[n] : f.cm = e.cm
    PROVE  CmsGenuine'
  <1>1. \A z \in Shards : cons'[z] = IF z = s
           THEN [round |-> r, leader |-> l, block |-> b, prevoted |-> P] ELSE cons[z]
    BY DEF EnterRound, IInv, TypeInv, TypeOK
  <1>2. \A z \in Shards : cons'[z].block # NoBlock =>
           cons[z].block # NoBlock /\ cons'[z].block.ins = cons[z].block.ins
    BY SMTT(30), <1>1
  <1> QED  BY <1>2, CmsGenuineStep

(* A decision appends the proposal, whose relaytx are debited. *)
LEMMA SafeEnterCommit ==
    ASSUME IInv, TypeInv', NEW s \in Shards, EnterCommit(s)
    PROVE  IInv'
  <1>1. /\ cons[s].block \in Block
        /\ chain' = [chain EXCEPT ![s] = Append(@, cons[s].block)]
        /\ UNCHANGED <<pool, cache, cmdb, net>>
    BY DEF EnterCommit, IInv, TypeInv, TypeOK, Round
  <1>2. chain \in [Shards -> Seq(Block)]
    BY DEF IInv, TypeInv, TypeOK
  <1>3. Grows
    BY SMTT(30), <1>1, <1>2 DEF Grows
  <1>4. CmsGenuine'
    <2>1. PICK l : EnterRound(s, 0, l, NoBlock, {})
      BY DEF EnterCommit
    <2> QED  BY <1>1, <1>3, <2>1, SafeRounds
  <1>5. ASSUME NEW z \in Shards, NEW h \in 1..Len(chain'[z]), NEW c \in chain'[z][h].ins
        PROVE  Payable(z, c)'
    <2>1. CASE h \in 1..Len(chain[z])
      <3>1. chain'[z][h] = chain[z][h] /\ chain[z][h] \in Block
        BY SMTT(30), <1>2, <1>3, <2>1 DEF Grows
      <3>2. c \in Cm /\ c.tx # NoTx
        BY <1>5, <3>1 DEF Block
      <3>3. Payable(z, c)
        BY <1>5, <2>1, <3>1 DEF IInv, NoCreditWithoutDebit
      <3> QED  BY <1>3, <3>2, <3>3, PayableStays DEF IInv
    <2>2. CASE h \notin 1..Len(chain[z])
      <3>1. z = s /\ chain'[z][h] = cons[s].block
        BY SMTT(30), <1>1, <1>2, <2>2
      <3>2. c \in Cm /\ c.tx # NoTx
        BY <1>1, <1>5, <3>1 DEF Block
      <3>3. Payable(z, c)
        BY <1>5, <3>1 DEF IInv, CmsGenuine, EnterCommit
      <3> QED  BY <1>3, <3>2, <3>3, PayableStays DEF IInv
    <2> QED  BY <2>1, <2>2
  <1> QED  BY <1>4, <1>5 DEF IInv, NoCreditWithoutDebit

(* A node that applies a decided block makes cms of what the block executed. *)
LEMMA SafeFinalize ==
    ASSUME IInv, TypeInv', NEW n \in Nodes, FinalizeCommit(n)
    PROVE  IInv'
  <1> DEFINE s == ShardOf[n]
  <1>1. /\ pool' = [pool EXCEPT ![n] = @ \ FGone(n)]
        /\ cmdb' = [cmdb EXCEPT ![n] = UpdatecmDB(FEntries(n))]
        /\ \E S : /\ S \subseteq FConfirming(n) \cup Due(FEntries(n))
                 /\ net' = net \cup S
        /\ UNCHANGED <<chain, cons, cache>>
    BY FinalizeEffect
  <1>2. \A cm \in FCms(n) : Genuine(cm)
    <2>1. FHeight(n) \in 1..Len(chain[s])
      BY FinalizeType DEF IInv
    <2> QED  BY SMTT(30), <2>1 DEF FCms, ClassifyTxFromBlock, Genuine
  <1>3. \A e \in FEntries(n) : (\E f \in cmdb[n] : f.cm = e.cm) \/ Genuine(e.cm)
    BY SMTT(30), <1>2 DEF FEntries, AddCrossMessagesDB
  <1>4. \A e \in FEntries(n) : Genuine(e.cm)
    BY <1>3 DEF IInv, CmsGenuine
  <1>5. \A e \in UpdatecmDB(FEntries(n)) : \E f \in FEntries(n) : f.cm = e.cm
    <2>1. FEntries(n) \subseteq Entry
      BY FinalizeType DEF IInv
    <2> QED  BY <2>1 DEF UpdatecmDB, Entry
  <1>6. \A cm : Genuine(cm)' <=> Genuine(cm)
    BY <1>1 DEF Genuine, BlockTxs
  <1>7. \A cm \in net' : cm \in net \/ Genuine(cm)'
    BY <1>1, <1>2, <1>4, <1>6 DEF FConfirming, Due
  <1>8. \A m \in Nodes : \A e \in cmdb'[m] :
          (\E f \in cmdb[m] : f.cm = e.cm) \/ Genuine(e.cm)'
    BY <1>1, <1>4, <1>5, <1>6 DEF IInv, TypeInv, TypeOK
  <1>9. \A m \in Nodes : pool'[m] \cup cache'[m] \subseteq pool[m] \cup cache[m]
    BY <1>1 DEF IInv, TypeInv, TypeOK
  <1>10. CmsGenuine'
    BY <1>1, <1>7, <1>8, <1>9, SameChain, CmsGenuineStep
  <1> QED  BY <1>1, <1>10, SameChain DEF IInv

(* An empty block sends cms that were in the leader's cmDB. *)
LEMMA SafeEmptyBlock ==
    ASSUME IInv, TypeInv', NEW s \in Shards, EmptyBlock(s)
    PROVE  IInv'
  <1>1. /\ cmdb' = [n \in Nodes |-> IF ShardOf[n] = s THEN UpdatecmDB(cmdb[n])
                                                     ELSE cmdb[n]]
        /\ \E S : S \subseteq Due(cmdb[cons[s].leader]) /\ net' = net \cup S
        /\ UNCHANGED <<chain, pool, cache>>
    BY DEF EmptyBlock, SendCrossMessages
  <1>2. PICK l : EnterRound(s, 0, l, NoBlock, {})
    BY DEF EmptyBlock
  <1>3. \A n \in Nodes : cmdb[n] \subseteq Entry
    BY DEF IInv, TypeInv, TypeOK
  <1>4. \A n \in Nodes : \A e \in UpdatecmDB(cmdb[n]) : \E f \in cmdb[n] : f.cm = e.cm
    BY <1>3 DEF UpdatecmDB, Entry
  <1>5. \A n \in Nodes : \A e \in cmdb'[n] : \E f \in cmdb[n] : f.cm = e.cm
    BY <1>1, <1>4
  <1>6. \A cm : Genuine(cm)' <=> Genuine(cm)
    BY <1>1 DEF Genuine, BlockTxs
  <1>7. \A cm \in Due(cmdb[cons[s].leader]) : Genuine(cm)
    <2>1. cons[s].leader \in Nodes
      BY DEF IInv, TypeInv, TypeOK, Round
    <2> QED  BY <2>1 DEF Due, IInv, CmsGenuine
  <1>8. \A z \in Shards : cons'[z].block # NoBlock => cons'[z] = cons[z]
    BY <1>2 DEF EnterRound, IInv, TypeInv, TypeOK
  <1>9. \A cm \in net' : cm \in net \/ Genuine(cm)'
    BY <1>1, <1>6, <1>7
  <1>10. CmsGenuine'
    BY <1>1, <1>5, <1>8, <1>9, SameChain, CmsGenuineStep
  <1> QED  BY <1>1, <1>10, SameChain DEF IInv

(* A genuine cm that reaches a node of the shard it is addressed to. *)
LEMMA SafeArrival ==
    ASSUME IInv, TypeInv', NEW n \in Nodes, NEW cm \in Cm,
           Genuine(cm), Dest(cm) = ShardOf[n],
           cache' = [cache EXCEPT ![n] = @ \cup {cm}] \/ UNCHANGED cache,
           pool' = [pool EXCEPT ![n] = @ \cup {cm}] \/ UNCHANGED pool,
           NEW E \in SUBSET cmdb[n], cmdb' = [cmdb EXCEPT ![n] = E],
           UNCHANGED <<chain, cons, net>>
    PROVE  IInv'
  <1>1. \A c : Genuine(c)' <=> Genuine(c)
    BY DEF Genuine, BlockTxs
  <1>2. \A m \in Nodes : \A c \in pool'[m] \cup cache'[m] :
          \/ c \in pool[m] \cup cache[m]
          \/ Genuine(c)' /\ Dest(c) = ShardOf[m]
    <2>1. \A m \in Nodes : pool'[m] \subseteq pool[m] \cup (IF m = n THEN {cm} ELSE {})
      BY SMTT(30) DEF IInv, TypeInv, TypeOK
    <2>2. \A m \in Nodes : cache'[m] \subseteq cache[m] \cup (IF m = n THEN {cm} ELSE {})
      BY SMTT(30) DEF IInv, TypeInv, TypeOK
    <2>3. Genuine(cm)'
      BY <1>1
    <2> QED  BY <2>1, <2>2, <2>3
  <1>3. \A m \in Nodes : \A e \in cmdb'[m] : \E f \in cmdb[m] : f.cm = e.cm
    BY DEF IInv, TypeInv, TypeOK
  <1>4. CmsGenuine'
    BY <1>2, <1>3, SameChain, CmsGenuineStep
  <1> QED  BY <1>4, SameChain DEF IInv

(* Every step of the protocol keeps the inductive invariant. *)
LEMMA SafeNext == IInv /\ [Next]_vars => IInv'
  <1> SUFFICES ASSUME IInv, [Next]_vars PROVE IInv'
    OBVIOUS
  <1> TypeInv'
    BY TypeNext DEF IInv
  <1>1. ASSUME NEW n \in Nodes, CreateProposalBlock(n) PROVE IInv'
    <2>1. PICK T \in SUBSET RelayTxs, C \in SUBSET pool[n] :
            \E G \in GasStops(ShardOf[n], pool[n] \ C) : Propose(n, T, C, G)
      BY <1>1 DEF CreateProposalBlock, Pending
    <2>2. PICK G \in SUBSET pool[n] : Propose(n, T, C, G)
      BY <2>1 DEF GasStops
    <2> QED  BY <2>2, SafePropose
  <1>2. ASSUME NEW n \in Nodes, Prevote(n) PROVE IInv'
    <2>1. ShardOf[n] \in Shards
      BY ConstantsAssumption
    <2>2. UNCHANGED <<chain, pool, cache, cmdb, net>>
      BY <1>2 DEF Prevote
    <2>3. PICK r, l, P : EnterRound(ShardOf[n], r, l, cons[ShardOf[n]].block, P)
      BY <1>2 DEF Prevote
    <2>4. CmsGenuine'
      BY <2>1, <2>2, <2>3, SameChain, SafeRounds
    <2> QED  BY <2>2, <2>4, SameChain DEF IInv
  <1>3. ASSUME NEW n \in Nodes, FinalizeCommit(n) PROVE IInv'
    BY <1>3, SafeFinalize
  <1>4. ASSUME NEW n \in Nodes, Restart(n) PROVE IInv'
    <2>1. \A m \in Nodes : /\ pool'[m] \subseteq pool[m]
                           /\ cache'[m] \subseteq cache[m]
                           /\ cmdb'[m] \subseteq cmdb[m]
      BY SMTT(30), <1>4 DEF Restart, IInv, TypeInv, TypeOK
    <2>2. UNCHANGED <<chain, cons, net>>
      BY <1>4 DEF Restart
    <2>3. CmsGenuine'
      BY <2>1, <2>2, SameChain, CmsGenuineStep
    <2> QED  BY <2>2, <2>3, SameChain DEF IInv
  <1>5. ASSUME NEW n \in Nodes, NEW cm \in net, ReceiveCm(n, cm) PROVE IInv'
    <2>1. cm \in Cm /\ Genuine(cm) /\ Dest(cm) = ShardOf[n]
      BY <1>5 DEF ReceiveCm, Delivered, IInv, CmsGenuine, TypeInv, TypeOK
    <2> QED  BY <1>5, <2>1, SafeArrival DEF ReceiveCm, CheckTxWithInfo
  <1>6. ASSUME NEW n \in Nodes, NEW cm \in net, ReplyFromCheckdb(n, cm) PROVE IInv'
    <2>1. PICK d \in done[n] : \E S : S \subseteq {Receipt(n, d)} /\ net' = net \cup S
      BY <1>6 DEF ReplyFromCheckdb, SendCrossMessages
    <2>2. Genuine(Receipt(n, d)) /\ UNCHANGED <<chain, cons, pool, cache, cmdb>>
      BY <1>6 DEF ReplyFromCheckdb, Genuine, Receipt
    <2>3. \A c : Genuine(c)' <=> Genuine(c)
      BY <2>2 DEF Genuine, BlockTxs
    <2>4. \A c \in net' : c \in net \/ Genuine(c)'
      BY <2>1, <2>2, <2>3
    <2>5. CmsGenuine'
      BY <2>2, <2>4, SameChain, CmsGenuineStep
    <2> QED  BY <2>2, <2>5, SameChain DEF IInv
  <1>7. ASSUME NEW n \in Nodes, NEW cm \in net, ReceiveReceipt(n, cm) PROVE IInv'
    <2>1. cm \in Cm /\ Genuine(cm) /\ Dest(cm) = ShardOf[n]
      BY <1>7 DEF ReceiveReceipt, Delivered, IInv, CmsGenuine, TypeInv, TypeOK
    <2> QED  BY <1>7, <2>1, SafeArrival DEF ReceiveReceipt
  <1>8. ASSUME NEW n \in Nodes, NEW m \in Nodes, NEW cm \in cache[m],
               GossipReceive(n, m, cm)
        PROVE  IInv'
    <2>1. cm \in Cm /\ Genuine(cm) /\ Dest(cm) = ShardOf[n]
      BY <1>8 DEF GossipReceive, IInv, CmsGenuine, TypeInv, TypeOK
    <2>2. PICK E \in SUBSET cmdb[n] : cmdb' = [cmdb EXCEPT ![n] = E]
      BY <1>8 DEF GossipReceive, CheckTxWithInfo
    <2>3. /\ UNCHANGED <<chain, cons, net>>
          /\ cache' = [cache EXCEPT ![n] = @ \cup {cm}] \/ UNCHANGED cache
          /\ pool' = [pool EXCEPT ![n] = @ \cup {cm}] \/ UNCHANGED pool
      BY <1>8 DEF GossipReceive, CheckTxWithInfo
    <2> QED  BY <2>1, <2>2, <2>3, SafeArrival
  <1>9. ASSUME NEW s \in Shards, EnterNewRound(s) PROVE IInv'
    <2>1. cons[s].block # NoBlock /\ UNCHANGED <<chain, pool, cache, cmdb, net>>
      BY <1>9 DEF EnterNewRound
    <2>2. PICK l : \/ EnterRound(s, cons[s].round + 1, l, NoBlock, {})
                   \/ EnterRound(s, cons[s].round + 1, l,
                                 ProposedBy(cons[s].block, l), {l})
      BY <1>9 DEF EnterNewRound
    <2>3. ProposedBy(cons[s].block, l).ins = cons[s].block.ins
      BY DEF ProposedBy
    <2>4. CmsGenuine'
      BY <2>1, <2>2, <2>3, SameChain, SafeRounds
    <2> QED  BY <2>1, <2>4, SameChain DEF IInv
  <1>10. ASSUME NEW s \in Shards, EnterCommit(s) \/ EmptyBlock(s) PROVE IInv'
    BY <1>10, SafeEnterCommit, SafeEmptyBlock
  <1>11. CASE UNCHANGED vars
    <2>1. CmsGenuine'
      BY <1>11, SameChain, CmsGenuineStep DEF vars
    <2> QED  BY <1>11, <2>1, SameChain DEF vars, IInv
  <1> QED
    BY <1>1, <1>2, <1>3, <1>4, <1>5, <1>6, <1>7, <1>8, <1>9, <1>10, <1>11 DEF Next, Undisturbed

(* The initial states satisfy the inductive invariant. *)
LEMMA SafeInit == Init => IInv
  <1>1. Init => CmsGenuine
    BY SMTT(30) DEF Init, CmsGenuine
  <1>2. Init => NoCreditWithoutDebit
    BY SMTT(30) DEF Init, NoCreditWithoutDebit
  <1> QED  BY <1>1, <1>2, TypeInit DEF IInv

(* A relaytx is credited only in its Receiver shard and only after its       *)
(* Sender shard debited it, for any number of shards, nodes, transactions,   *)
(* heights, rounds, lost or repeated sends and restarts.                     *)
THEOREM CreditNeedsDebit == Spec => []NoCreditWithoutDebit
  <1>1. IInv => NoCreditWithoutDebit
    BY DEF IInv
  <1> QED  BY <1>1, SafeInit, SafeNext, PTL DEF Spec

(* Every cm anywhere in the system stands for a relaytx that its source      *)
(* shard executed, and no mempool holds a cm of another shard.               *)
THEOREM OnlyGenuineCms == Spec => []CmsGenuine
  <1>1. IInv => CmsGenuine
    BY DEF IInv
  <1> QED  BY <1>1, SafeInit, SafeNext, PTL DEF Spec
---------------------------------------------------------------------------
(* Receipts and records *)

\* Every block that a list of packages confirms is on record somewhere.
Backed(packs) == \A p \in packs : OnRecord(p[1])

\* What can delete a cm, or become what can: cms in flight and in caches, stored
\* cms, which are a node's own shard's, rows, and checkdb.
Recorded ==
    /\ \A cm \in net : Backed(cm.packs)
    /\ \A n \in Nodes :
         /\ \A cm \in cache[n] : Backed(cm.packs)
         /\ \A e \in cmdb[n] : Backed(e.cm.packs) /\ e.cm.src = ShardOf[n]
         /\ \A r \in rl[n] : Backed(r.packs)
         /\ \A d \in done[n] : Backed(d.packs)

\* Nodes apply decided blocks, which debit relaytx of their own shard.
OwnDebits ==
    /\ \A n \in Nodes : app[n] <= Len(chain[ShardOf[n]])
    /\ \A s \in Shards : \A h \in 1..Len(chain[s]) : \A t \in chain[s][h].outs :
           Sender[t] = s
    /\ \A s \in Shards : cons[s].block # NoBlock =>
           \A t \in cons[s].block.outs : Sender[t] = s

RInv == TypeInv /\ OwnDebits /\ DeletedOnRecord /\ (crashes = 0 => Recorded)

\* No record is lost.
RecordsStay == \A k : OnRecord(k) => OnRecord(k)'

(* Of the rows of a table one is last in the table's order. *)
LEMMA LastRow ==
    ASSUME NEW S, S \subseteq Row, IsFiniteSet(S), S # {}
    PROVE  \E q \in S : \A p \in S : ~Before(q, p)
  <1> DEFINE Bad == {T \in SUBSET S : T # {} /\ \A q \in T : \E p \in T : Before(q, p)}
             Less == StrictSubsetOrdering(S)
  <1>1. \A q, p, r \in Row : /\ ~Before(q, q)
                             /\ Before(q, p) /\ Before(p, r) => Before(q, r)
    BY SMTT(30) DEF Before, Row
  <1>2. SUFFICES ASSUME Bad # {} PROVE FALSE
    OBVIOUS
  <1>3. IsWellFoundedOn(Less, SUBSET S)
    BY FS_StrictSubsetOrderingWellFounded, FS_FiniteSubsetsOfFinite
  <1>4. PICK T \in Bad : \A U \in Bad : ~(<<U, T>> \in Less)
    <2>1. Bad \subseteq SUBSET S
      OBVIOUS
    <2> HIDE DEF Bad, Less
    <2> QED  BY <1>2, <1>3, <2>1, WFMin
  <1>5. PICK x \in T : TRUE
    OBVIOUS
  <1> DEFINE U == T \ {x}
  <1>6. U \notin Bad
    <2>1. <<U, T>> \in Less
      BY <1>5 DEF StrictSubsetOrdering
    <2> QED  BY <1>4, <2>1
  <1>7. PICK y \in T : Before(x, y)
    BY <1>5
  <1>8. y \in U
    BY <1>1, <1>7
  <1>9. PICK q \in U : \A p \in U : ~Before(q, p)
    BY <1>6, <1>8
  <1>10. Before(q, x)
    BY <1>9
  <1> QED  BY <1>1, <1>5, <1>7, <1>8, <1>9, <1>10

HasKey(S, k) == \E x \in S : x.key = k

(* checkdb.Save forgets no key, and has one for every row it was given. *)
LEMMA SaveKeeps ==
    ASSUME NEW db, NEW rows, rows \subseteq Row, IsFiniteSet(rows), NEW k,
           HasKey(db, k) \/ HasKey(rows, k)
    PROVE  HasKey(Save(db, rows), k)
  <1>1. CASE HasKey(rows, k)
    <2> DEFINE S == {r \in rows : r.key = k}
    <2>1. S \in SUBSET rows /\ S \subseteq Row /\ S # {}
      BY <1>1 DEF HasKey
    <2>2. IsFiniteSet(S)
      BY <2>1, FS_Subset
    <2> HIDE DEF S
    <2>3. PICK q \in S : \A p \in S : ~Before(q, p)
      BY <2>1, <2>2, LastRow
    <2>4. q \in rows /\ q.key = k /\ \A p \in rows : p.key = q.key => ~Before(q, p)
      BY <2>3 DEF S
    <2>5. [key |-> q.key, packs |-> q.packs] \in Save(db, rows)
      BY <2>4 DEF Save
    <2> QED  BY <2>4, <2>5 DEF HasKey
  <1>2. CASE ~HasKey(rows, k)
    BY <1>2 DEF Save, HasKey
  <1> QED  BY <1>1, <1>2

(* What is backed stays backed. *)
LEMMA BackedStays ==
    ASSUME RecordsStay, NEW packs, Backed(packs)
    PROVE  Backed(packs)'
  BY DEF Backed, RecordsStay

(* A step that takes no row and no record away loses no record. *)
LEMMA Untouched ==
    ASSUME \A m \in Nodes : rl[m] \subseteq rl'[m] /\ done[m] \subseteq done'[m]
    PROVE  RecordsStay
  BY DEF RecordsStay, OnRecord

(* What a step has to show: only new cms, entries, rows and records matter. *)
LEMMA RecordedStep ==
    ASSUME Recorded, RecordsStay,
           \A cm \in net' : cm \in net \/ Backed(cm.packs)',
           \A n \in Nodes : \A cm \in cache'[n] : cm \in cache[n] \/ Backed(cm.packs)',
           \A n \in Nodes : \A e \in cmdb'[n] :
               \/ \E f \in cmdb[n] : f.cm = e.cm
               \/ Backed(e.cm.packs)' /\ e.cm.src = ShardOf[n],
           \A n \in Nodes : \A r \in rl'[n] :
               (\E q \in rl[n] : q.packs = r.packs) \/ Backed(r.packs)',
           \A n \in Nodes : \A d \in done'[n] : d \in done[n] \/ Backed(d.packs)'
    PROVE  Recorded'
  <1>1. \A cm \in net' : Backed(cm.packs)'
    BY BackedStays DEF Recorded
  <1>2. ASSUME NEW n \in Nodes
        PROVE  /\ \A cm \in cache'[n] : Backed(cm.packs)'
               /\ \A e \in cmdb'[n] : Backed(e.cm.packs)' /\ e.cm.src = ShardOf[n]
               /\ \A r \in rl'[n] : Backed(r.packs)'
               /\ \A d \in done'[n] : Backed(d.packs)'
    <2>1. \A cm \in cache'[n] : Backed(cm.packs)'
      BY BackedStays DEF Recorded
    <2>2. ASSUME NEW e \in cmdb'[n]
          PROVE  Backed(e.cm.packs)' /\ e.cm.src = ShardOf[n]
      <3>1. CASE \E f \in cmdb[n] : f.cm = e.cm
        <4>1. Backed(e.cm.packs) /\ e.cm.src = ShardOf[n]
          BY <3>1 DEF Recorded
        <4> QED  BY <4>1, BackedStays
      <3> QED  BY <3>1
    <2>3. ASSUME NEW r \in rl'[n] PROVE Backed(r.packs)'
      <3>1. CASE \E q \in rl[n] : q.packs = r.packs
        <4>1. Backed(r.packs)
          BY <3>1 DEF Recorded
        <4> QED  BY <4>1, BackedStays
      <3> QED  BY <3>1
    <2>4. \A d \in done'[n] : Backed(d.packs)'
      BY BackedStays DEF Recorded
    <2> QED  BY <2>1, <2>2, <2>3, <2>4
  <1> QED  BY <1>1, <1>2 DEF Recorded

(* A cm that was kept is kept, or its block is on record; a block that is    *)
(* newly applied has all its cms.                                            *)
LEMMA DeletedStep ==
    ASSUME RInv, TypeInv', Grows, crashes' = 0 => crashes = 0, RecordsStay,
           \A n \in Nodes : \A e \in cmdb[n] :
               (\E f \in cmdb'[n] : f.cm = e.cm) \/ OnRecord(CmID(e.cm)),
           \A n \in Nodes : \A h \in 1..app'[n] :
               h \in 1..app[n] \/ \A t \in chain'[ShardOf[n]][h].outs : Kept(n, h, t)'
    PROVE  DeletedOnRecord'
  <1> SUFFICES ASSUME crashes' = 0, NEW n \in Nodes, NEW h \in 1..app'[n],
                      NEW t \in chain'[ShardOf[n]][h].outs
               PROVE  Kept(n, h, t)' \/ OnRecord(<<ShardOf[n], h>>)'
    BY DEF DeletedOnRecord
  <1>1. CASE h \in 1..app[n]
    <2>1. chain'[ShardOf[n]][h] = chain[ShardOf[n]][h]
      <3>1. /\ ShardOf[n] \in Shards /\ app[n] \in Nat
            /\ app[n] <= Len(chain[ShardOf[n]]) /\ Len(chain[ShardOf[n]]) \in Nat
        BY SMTT(30), ConstantsAssumption DEF RInv, TypeInv, TypeOK, OwnDebits
      <3>2. h \in 1..Len(chain[ShardOf[n]])
        BY SMTT(30), <1>1, <3>1
      <3> QED  BY <3>1, <3>2 DEF Grows
    <2>2. crashes = 0
      OBVIOUS
    <2>3. CASE Kept(n, h, t)
      <3>1. PICK e \in cmdb[n] : e.cm.h = h /\ e.cm.tx = t
        BY <2>3 DEF Kept
      <3>2. CASE \E f \in cmdb'[n] : f.cm = e.cm
        BY <3>1, <3>2 DEF Kept
      <3>3. CASE OnRecord(CmID(e.cm))
        <4>1. e.cm.src = ShardOf[n]
          BY <2>2 DEF RInv, Recorded
        <4>2. OnRecord(<<ShardOf[n], h>>)
          BY <3>1, <3>3, <4>1 DEF CmID
        <4> QED  BY <4>2 DEF RecordsStay
      <3> QED  BY <3>2, <3>3
    <2>4. CASE OnRecord(<<ShardOf[n], h>>)
      BY <2>4 DEF RecordsStay
    <2> QED  BY <1>1, <2>1, <2>2, <2>3, <2>4 DEF RInv, DeletedOnRecord
  <1> QED  BY <1>1

(* Decided blocks stay, whatever step is taken. *)
LEMMA NextGrows ==
    ASSUME TypeInv, [Next]_vars
    PROVE  Grows
  <1>1. chain \in [Shards -> Seq(Block)]
    BY DEF TypeInv, TypeOK
  <1>2. CASE UNCHANGED chain
    BY SMTT(30), <1>1, <1>2 DEF Grows
  <1>3. ASSUME NEW s \in Shards, EnterCommit(s) PROVE Grows
    <2>1. /\ cons[s].block \in Block
          /\ chain' = [chain EXCEPT ![s] = Append(@, cons[s].block)]
      BY <1>3 DEF EnterCommit, TypeInv, TypeOK, Round
    <2> QED  BY SMTT(30), <1>1, <2>1 DEF Grows
  <1>4. ASSUME NEW n \in Nodes, \/ CreateProposalBlock(n) \/ Prevote(n)
                              \/ FinalizeCommit(n) \/ Restart(n)
        PROVE  UNCHANGED chain
    BY <1>4, FinalizeEffect DEF CreateProposalBlock, Propose, Prevote, Restart
  <1>5. ASSUME NEW n, NEW m, NEW cm, \/ ReceiveCm(n, cm) \/ ReplyFromCheckdb(n, cm)
                                    \/ ReceiveReceipt(n, cm) \/ GossipReceive(n, m, cm)
        PROVE  UNCHANGED chain
    BY <1>5 DEF ReceiveCm, ReplyFromCheckdb, ReceiveReceipt, GossipReceive
  <1>6. ASSUME NEW s, EmptyBlock(s) \/ EnterNewRound(s) PROVE UNCHANGED chain
    BY <1>6 DEF EmptyBlock, EnterNewRound
  <1> QED
    BY <1>2, <1>3, <1>4, <1>5, <1>6 DEF Next, Undisturbed, vars

(* A round whose proposal debits relaytx of its shard. *)
LEMMA OwnRound ==
    ASSUME TypeInv, OwnDebits, UNCHANGED <<chain, app>>, NEW s \in Shards,
           NEW r, NEW l, NEW b, NEW P, EnterRound(s, r, l, b, P),
           b # NoBlock => \A t \in b.outs : Sender[t] = s
    PROVE  OwnDebits'
  <1>1. \A z \in Shards : cons'[z] = IF z = s
           THEN [round |-> r, leader |-> l, block |-> b, prevoted |-> P] ELSE cons[z]
    BY DEF EnterRound, TypeInv, TypeOK
  <1>2. \A z \in Shards : cons'[z].block # NoBlock =>
           \A t \in cons'[z].block.outs : Sender[t] = z
    BY SMTT(30), <1>1 DEF OwnDebits
  <1> QED  BY <1>2 DEF OwnDebits

(* Nodes apply decided blocks, and shards debit their own relaytx. *)
LEMMA OwnNext ==
    ASSUME TypeInv, OwnDebits, [Next]_vars
    PROVE  OwnDebits'
  <1>1. CASE UNCHANGED <<chain, cons, app>>
    BY <1>1 DEF OwnDebits
  <1>2. ASSUME NEW n \in Nodes, CreateProposalBlock(n) PROVE OwnDebits'
    <2>0. PICK T \in SUBSET Pending(ShardOf[n]) : \E C, G : Propose(n, T, C, G)
      BY <1>2 DEF CreateProposalBlock
    <2>1. PICK C, G : Propose(n, T, C, G)
      BY <2>0
    <2>2. PICK i, p : EnterRound(ShardOf[n], cons[ShardOf[n]].round, n,
             [outs |-> T, ins |-> i, packs |-> p, leader |-> n], {n})
      BY <2>1 DEF Propose
    <2>3. UNCHANGED <<chain, app>> /\ ShardOf[n] \in Shards
      BY <2>1, ConstantsAssumption DEF Propose
    <2>4. \A t \in [outs |-> T, ins |-> i, packs |-> p, leader |-> n].outs :
             Sender[t] = ShardOf[n]
      BY DEF Pending
    <2> QED  BY <2>2, <2>3, <2>4, OwnRound
  <1>3. ASSUME NEW n \in Nodes, Prevote(n) PROVE OwnDebits'
    <2>1. ShardOf[n] \in Shards /\ UNCHANGED <<chain, app>>
      BY <1>3, ConstantsAssumption DEF Prevote
    <2>2. PICK r, l, P : EnterRound(ShardOf[n], r, l, cons[ShardOf[n]].block, P)
      BY <1>3 DEF Prevote
    <2>3. cons[ShardOf[n]].block # NoBlock =>
            \A t \in cons[ShardOf[n]].block.outs : Sender[t] = ShardOf[n]
      BY <2>1 DEF OwnDebits
    <2> QED  BY <2>1, <2>2, <2>3, OwnRound
  <1>4. ASSUME NEW n \in Nodes, FinalizeCommit(n) PROVE OwnDebits'
    <2>1. /\ app' = [app EXCEPT ![n] = app[n] + 1]
          /\ app[n] < Len(chain[ShardOf[n]])
          /\ UNCHANGED <<chain, cons>>
      BY <1>4, FinalizeEffect DEF FHeight
    <2>2. \A m \in Nodes : app'[m] <= Len(chain[ShardOf[m]])
      <3> TAKE m \in Nodes
      <3>1. /\ app[m] <= Len(chain[ShardOf[m]]) /\ app[n] \in Nat
            /\ app'[m] = IF m = n THEN app[n] + 1 ELSE app[m]
        BY <2>1 DEF OwnDebits, TypeInv, TypeOK
      <3>2. Len(chain[ShardOf[n]]) \in Nat
        BY SMTT(30), ConstantsAssumption DEF TypeInv, TypeOK
      <3> QED  BY SMTT(30), <2>1, <3>1, <3>2
    <2> QED  BY <2>1, <2>2 DEF OwnDebits
  <1>5. ASSUME NEW s \in Shards, EnterNewRound(s) PROVE OwnDebits'
    <2>1. cons[s].block # NoBlock /\ UNCHANGED <<chain, app>>
      BY <1>5 DEF EnterNewRound
    <2>2. PICK l : \/ EnterRound(s, cons[s].round + 1, l, NoBlock, {})
                   \/ EnterRound(s, cons[s].round + 1, l,
                                 ProposedBy(cons[s].block, l), {l})
      BY <1>5 DEF EnterNewRound
    <2>3. \A t \in ProposedBy(cons[s].block, l).outs : Sender[t] = s
      BY <2>1 DEF ProposedBy, OwnDebits
    <2> QED  BY <2>1, <2>2, <2>3, OwnRound
  <1>6. ASSUME NEW s \in Shards, EmptyBlock(s) PROVE OwnDebits'
    <2>1. UNCHANGED <<chain, app>>
      BY <1>6 DEF EmptyBlock
    <2>2. PICK l : EnterRound(s, 0, l, NoBlock, {})
      BY <1>6 DEF EmptyBlock
    <2> QED  BY <2>1, <2>2, OwnRound
  <1>7. ASSUME NEW s \in Shards, EnterCommit(s) PROVE OwnDebits'
    <2>1. PICK l : EnterRound(s, 0, l, NoBlock, {})
      BY <1>7 DEF EnterCommit
    <2>2. /\ cons[s].block \in Block /\ cons[s].block # NoBlock /\ UNCHANGED app
          /\ chain' = [chain EXCEPT ![s] = Append(@, cons[s].block)]
          /\ chain \in [Shards -> Seq(Block)] /\ app \in [Nodes -> Nat]
      BY <1>7 DEF EnterCommit, TypeInv, TypeOK, Round
    <2>3. \A n \in Nodes : app'[n] <= Len(chain'[ShardOf[n]])
      BY SMTT(30), <2>2, ConstantsAssumption DEF OwnDebits
    <2>4. ASSUME NEW z \in Shards, NEW h \in 1..Len(chain'[z])
          PROVE  chain'[z][h] = IF h \in 1..Len(chain[z]) THEN chain[z][h]
                                                         ELSE cons[s].block
      BY SMTT(30), <2>2
    <2>5. ASSUME NEW z \in Shards, NEW h \in 1..Len(chain'[z])
          PROVE  h \in 1..Len(chain[z]) \/ z = s
      BY SMTT(30), <2>2
    <2>6. \A z \in Shards : \A h \in 1..Len(chain'[z]) : \A t \in chain'[z][h].outs :
            Sender[t] = z
      BY SMTT(30), <2>2, <2>4, <2>5 DEF OwnDebits
    <2>7. \A z \in Shards : cons'[z].block # NoBlock => cons'[z] = cons[z]
      BY <2>1 DEF EnterRound, TypeInv, TypeOK
    <2> QED  BY <2>3, <2>6, <2>7 DEF OwnDebits
  <1>8. ASSUME NEW n \in Nodes, Restart(n) PROVE OwnDebits'
    BY <1>1, <1>8 DEF Restart
  <1>9. ASSUME NEW n \in Nodes, NEW cm,
               ReceiveCm(n, cm) \/ ReplyFromCheckdb(n, cm) \/ ReceiveReceipt(n, cm)
        PROVE  OwnDebits'
    BY <1>1, <1>9 DEF ReceiveCm, ReplyFromCheckdb, ReceiveReceipt
  <1>10. ASSUME NEW n \in Nodes, NEW m \in Nodes, NEW cm, GossipReceive(n, m, cm)
         PROVE  OwnDebits'
    BY <1>1, <1>10 DEF GossipReceive
  <1> QED
    BY <1>1, <1>2, <1>3, <1>4, <1>5, <1>6, <1>7, <1>8, <1>9, <1>10
       DEF Next, Undisturbed, vars

(* Steps that only write rows, as a reap and a prevote do, and steps that    *)
(* only vote: a new row has no packages yet.                                 *)
LEMMA RecordsVotes ==
    ASSUME RInv, crashes = 0, TypeInv', Grows,
           \A n \in Nodes : rl[n] \subseteq rl'[n],
           \A n \in Nodes : \A r \in rl'[n] : r \in rl[n] \/ r.packs = {},
           UNCHANGED <<app, cache, done, cmdb, net, crashes>>
    PROVE  Recorded' /\ DeletedOnRecord'
  <1>1. RecordsStay
    BY Untouched
  <1>2. \A n \in Nodes : \A r \in rl'[n] :
          (\E q \in rl[n] : q.packs = r.packs) \/ Backed(r.packs)'
    BY DEF Backed
  <1>3. Recorded'
    BY <1>1, <1>2, RecordedStep DEF RInv
  <1>4. DeletedOnRecord'
    BY <1>1, DeletedStep
  <1> QED  BY <1>3, <1>4

(* AppendRows adds rows without packages and keeps the others. *)
LEMMA AppendRowsNew ==
    ASSUME NEW R, NEW h, NEW mult, NEW own
    PROVE  /\ R \subseteq AppendRows(R, h, mult, own)
           /\ \A r \in AppendRows(R, h, mult, own) : r \in R \/ r.packs = {}
  <1> DEFINE base(k) == Cardinality({r \in RowsAt(R, h) : r.key = k})
             new(k) == {[cs |-> h, key |-> k, own |-> own, packs |-> {},
                         i |-> base(k) + j] : j \in 1..mult[k]}
  <1>1. AppendRows(R, h, mult, own) = R \cup UNION {new(k) : k \in DOMAIN mult}
    BY DEF AppendRows
  <1>2. \A k : \A r \in new(k) : r.packs = {}
    <2> HIDE DEF base
    <2> QED  BY SMTT(30)
  <1> HIDE DEF new
  <1> QED  BY <1>1, <1>2

(* A cm arrives: its packages delete only cms of blocks on record. *)
LEMMA RecordsArrival ==
    ASSUME RInv, crashes = 0, TypeInv', Grows, NEW n \in Nodes, NEW cm, Backed(cm.packs),
           cache' = [cache EXCEPT ![n] = @ \cup {cm}] \/ UNCHANGED cache,
           NEW E, RemoveCrossMessagesDB(cmdb[n], cm.packs, E),
           cmdb' = [cmdb EXCEPT ![n] = E],
           UNCHANGED <<app, rl, done, net, crashes>>
    PROVE  Recorded' /\ DeletedOnRecord'
  <1>1. RecordsStay
    BY Untouched
  <1>2. Backed(cm.packs)'
    BY <1>1, BackedStays
  <1>3. /\ E \subseteq cmdb[n]
        /\ \A e \in cmdb[n] \ E : \E p \in cm.packs : p[1] = CmID(e.cm)
    BY DEF RemoveCrossMessagesDB
  <1>4. \A m \in Nodes : /\ cmdb'[m] = IF m = n THEN E ELSE cmdb[m]
                         /\ cache'[m] \subseteq cache[m] \cup {cm}
    <2>1. cmdb \in [Nodes -> SUBSET Entry] /\ cache \in [Nodes -> SUBSET Cm]
      BY DEF RInv, TypeInv, TypeOK
    <2>2. \A m \in Nodes : cmdb'[m] = IF m = n THEN E ELSE cmdb[m]
      BY <2>1
    <2>3. \A m \in Nodes : cache'[m] \subseteq cache[m] \cup {cm}
      BY SMTT(30), <2>1
    <2> QED  BY <2>2, <2>3
  <1>5. Recorded'
    <2>1. \A m \in Nodes : \A c \in cache'[m] : c \in cache[m] \/ Backed(c.packs)'
      BY <1>2, <1>4
    <2>2. \A m \in Nodes : \A e \in cmdb'[m] : \E f \in cmdb[m] : f.cm = e.cm
      BY <1>3, <1>4
    <2> QED  BY <1>1, <2>1, <2>2, RecordedStep DEF RInv
  <1>6. DeletedOnRecord'
    <2>1. \A m \in Nodes : \A e \in cmdb[m] :
            (\E f \in cmdb'[m] : f.cm = e.cm) \/ OnRecord(CmID(e.cm))
      <3>1. \A e \in cmdb[n] \ E : OnRecord(CmID(e.cm))
        BY <1>3 DEF Backed
      <3>2. \A e \in cmdb[n] : e \in E \/ OnRecord(CmID(e.cm))
        BY <3>1
      <3> QED  BY <1>4, <3>2
    <2> QED  BY <1>1, <2>1, DeletedStep
  <1> QED  BY <1>5, <1>6

(* UpdatecmDB changes the counters only. *)
LEMMA UpdatecmDBKeeps ==
    ASSUME NEW D, D \subseteq Entry
    PROVE  /\ \A e \in UpdatecmDB(D) : \E f \in D : f.cm = e.cm
           /\ \A f \in D : \E e \in UpdatecmDB(D) : e.cm = f.cm
  <1> DEFINE old(e) == [e EXCEPT !.age = IF e.age = ResendAt THEN 1 ELSE e.age + 1]
  <1>1. \A e \in Entry : old(e).cm = e.cm
    BY DEF Entry
  <1>2. UpdatecmDB(D) = {old(e) : e \in D}
    BY DEF UpdatecmDB
  <1> HIDE DEF old
  <1> QED  BY <1>1, <1>2

(* An empty block sends what is stored. *)
LEMMA RecordsEmptyBlock ==
    ASSUME RInv, crashes = 0, TypeInv', Grows, NEW s \in Shards, EmptyBlock(s)
    PROVE  Recorded' /\ DeletedOnRecord'
  <1>1. /\ cmdb' = [n \in Nodes |-> IF ShardOf[n] = s THEN UpdatecmDB(cmdb[n])
                                                     ELSE cmdb[n]]
        /\ \E S : S \subseteq Due(cmdb[cons[s].leader]) /\ net' = net \cup S
        /\ UNCHANGED <<app, cache, rl, done, crashes>>
    BY DEF EmptyBlock, SendCrossMessages
  <1>2. RecordsStay
    BY <1>1, Untouched
  <1>3. \A n \in Nodes : cmdb[n] \subseteq Entry
    BY DEF RInv, TypeInv, TypeOK
  <1>4. \A n \in Nodes : \A e \in cmdb'[n] : \E f \in cmdb[n] : f.cm = e.cm
    BY <1>1, <1>3, UpdatecmDBKeeps
  <1>5. \A n \in Nodes : \A e \in cmdb[n] : \E f \in cmdb'[n] : f.cm = e.cm
    BY <1>1, <1>3, UpdatecmDBKeeps
  <1>6. cons[s].leader \in Nodes
    BY DEF RInv, TypeInv, TypeOK, Round
  <1>7. \A c \in Due(cmdb[cons[s].leader]) : Backed(c.packs)'
    <2>1. \A c \in Due(cmdb[cons[s].leader]) : Backed(c.packs)
      BY <1>6 DEF Due, RInv, Recorded
    <2> QED  BY <1>2, <2>1, BackedStays
  <1>8. Recorded'
    BY <1>1, <1>2, <1>4, <1>7, RecordedStep DEF RInv
  <1>9. DeletedOnRecord'
    BY <1>1, <1>2, <1>5, DeletedStep
  <1> QED  BY <1>8, <1>9

(* What FinalizeCommit takes out of the relation table goes to checkdb. *)
LEMMA FinalizeRecords ==
    ASSUME TypeInv, NEW n \in Nodes, FinalizeCommit(n)
    PROVE  RecordsStay
  <1>1. /\ rl' = [rl EXCEPT ![n] = FRows(n) \ FSaved(n)]
        /\ done' = [done EXCEPT ![n] = Save(@, FSaved(n))]
    BY FinalizeEffect
  <1>2. FSaved(n) \subseteq FRows(n)
    BY DEF FSaved, RemovedRows
  <1>3. FSaved(n) \subseteq Row /\ IsFiniteSet(FSaved(n))
    <2>1. FRows(n) \subseteq Row /\ IsFiniteSet(FRows(n))
      BY FinalizeType
    <2>2. FSaved(n) \in SUBSET FRows(n)
      BY <1>2
    <2> QED  BY <2>1, <2>2, FS_Subset
  <1>4. \A r \in rl[n] : \E q \in FRows(n) : q.key = r.key
    <2>1. rl[n] \subseteq Row
      BY DEF TypeInv, TypeOK
    <2> DEFINE mod(r) == IF r.cs = FHeight(n) THEN [r EXCEPT !.packs = FPacks(n)] ELSE r
    <2>2. \A r \in Row : mod(r).key = r.key
      BY SMTT(30) DEF Row
    <2>3. FRows(n) = {mod(r) : r \in rl[n]}
      BY DEF FRows, ModifyRelationTable
    <2> HIDE DEF mod
    <2> QED  BY <2>1, <2>2, <2>3
  <1>5. \A m \in Nodes : /\ rl'[m] = IF m = n THEN FRows(n) \ FSaved(n) ELSE rl[m]
                         /\ done'[m] = IF m = n THEN Save(done[n], FSaved(n)) ELSE done[m]
    BY <1>1 DEF TypeInv, TypeOK
  <1> SUFFICES ASSUME NEW k, OnRecord(k) PROVE OnRecord(k)'
    BY DEF RecordsStay
  <1>6. PICK m \in Nodes : (\E r \in rl[m] : r.key = k) \/ (\E d \in done[m] : d.key = k)
    BY DEF OnRecord
  <1>7. CASE m # n
    BY <1>5, <1>6, <1>7 DEF OnRecord
  <1>8. CASE m = n
    <2>1. CASE HasKey(done[n], k) \/ HasKey(FSaved(n), k)
      <3>1. HasKey(Save(done[n], FSaved(n)), k)
        BY <1>3, <2>1, SaveKeeps
      <3> QED  BY <1>5, <3>1 DEF OnRecord, HasKey
    <2>2. CASE \E q \in FRows(n) \ FSaved(n) : q.key = k
      BY <1>5, <2>2 DEF OnRecord
    <2> QED  BY <1>4, <1>6, <1>8, <2>1, <2>2 DEF HasKey
  <1> QED  BY <1>7, <1>8

(* A node that applies a block stores a cm for every relaytx the block       *)
(* debits, and deletes none.                                                 *)
LEMMA FinalizeKeeps ==
    ASSUME TypeInv, OwnDebits, NEW n \in Nodes, FinalizeCommit(n)
    PROVE  /\ \A m \in Nodes : \A h \in 1..app'[m] :
                h \in 1..app[m] \/ \A t \in chain'[ShardOf[m]][h].outs : Kept(m, h, t)'
           /\ \A m \in Nodes : \A e \in cmdb[m] : \E f \in cmdb'[m] : f.cm = e.cm
  <1> DEFINE s == ShardOf[n]
             b == chain[s][FHeight(n)]
  <1> PICK k : k = FHeight(n)
    OBVIOUS
  <1>1. /\ app' = [app EXCEPT ![n] = FHeight(n)]
        /\ cmdb' = [cmdb EXCEPT ![n] = UpdatecmDB(FEntries(n))]
        /\ UNCHANGED chain
    BY FinalizeEffect
  <1>2. FHeight(n) \in 1..Len(chain[s]) /\ FEntries(n) \subseteq Entry
    BY FinalizeType
  <1>3. /\ \A e \in UpdatecmDB(FEntries(n)) : \E f \in FEntries(n) : f.cm = e.cm
        /\ \A f \in FEntries(n) : \E e \in UpdatecmDB(FEntries(n)) : e.cm = f.cm
    BY <1>2, UpdatecmDBKeeps
  <1>4. \A m \in Nodes : cmdb'[m] = IF m = n THEN UpdatecmDB(FEntries(n)) ELSE cmdb[m]
    BY <1>1 DEF TypeInv, TypeOK
  <1>5. \A t \in b.outs : Kept(n, k, t)'
    <2> TAKE t \in b.outs
    <2>1. Sender[t] = s /\ t \in BlockTxs(b)
      BY <1>2, ConstantsAssumption DEF OwnDebits, BlockTxs
    <2> DEFINE c == [src |-> s, dst |-> IF Sender[t] = s THEN Receiver[t] ELSE Sender[t],
                     h |-> FHeight(n), tx |-> t, packs |-> FPacks(n), by |-> n]
    <2>2. c \in FCms(n)
      BY <2>1 DEF FCms, ClassifyTxFromBlock
    <2>3. c.tx = t /\ c.src = s /\ c.h = k
      OBVIOUS
    <2> HIDE DEF c
    <2>4. c \in FCms(n) \ FConfirming(n)
      BY <2>1, <2>2, <2>3 DEF FConfirming, JudgeCrossMessage
    <2>5. [cm |-> c, age |-> 0] \in FEntries(n)
      BY <2>4 DEF FEntries, AddCrossMessagesDB
    <2>6. PICK e \in UpdatecmDB(FEntries(n)) : e.cm = c
      BY <1>3, <2>5
    <2> QED  BY <1>4, <2>3, <2>6 DEF Kept
  <1>6. \A m \in Nodes : \A h \in 1..app'[m] :
           h \in 1..app[m] \/ \A t \in chain'[ShardOf[m]][h].outs : Kept(m, h, t)'
    <2> TAKE m \in Nodes
    <2> TAKE h \in 1..app'[m]
    <2>1. /\ app[n] \in Nat
          /\ app'[m] = IF m = n THEN app[n] + 1 ELSE app[m]
      BY <1>1 DEF TypeInv, TypeOK, FHeight
    <2>2. h \in 1..app[m] \/ (m = n /\ h = k)
      BY SMTT(30), <2>1 DEF FHeight
    <2> QED  BY <1>1, <1>5, <2>2
  <1>7. \A m \in Nodes : \A e \in cmdb[m] : \E f \in cmdb'[m] : f.cm = e.cm
    <2>1. cmdb[n] \subseteq FEntries(n)
      BY DEF FEntries, AddCrossMessagesDB
    <2> QED  BY <1>3, <1>4, <2>1
  <1> QED  BY <1>6, <1>7

(* A node applies a decided block: the packages it sends along and stores    *)
(* are rows it has.                                                          *)
LEMMA RecordsFinalize ==
    ASSUME RInv, crashes = 0, TypeInv', Grows, NEW n \in Nodes, FinalizeCommit(n)
    PROVE  Recorded' /\ DeletedOnRecord'
  <1> DEFINE s == ShardOf[n]
             b == chain[s][FHeight(n)]
  <1>0. TypeInv
    BY DEF RInv
  <1> PICK packs, k : packs = FPacks(n) /\ k = FHeight(n)
    OBVIOUS
  <1>1. /\ app' = [app EXCEPT ![n] = FHeight(n)]
        /\ rl' = [rl EXCEPT ![n] = FRows(n) \ FSaved(n)]
        /\ done' = [done EXCEPT ![n] = Save(@, FSaved(n))]
        /\ cmdb' = [cmdb EXCEPT ![n] = UpdatecmDB(FEntries(n))]
        /\ \E S : /\ S \subseteq FConfirming(n) \cup Due(FEntries(n))
                 /\ net' = net \cup S
        /\ UNCHANGED <<chain, cache, crashes>>
    BY FinalizeEffect
  <1>2. RecordsStay
    BY <1>0, FinalizeRecords
  <1>3. /\ FHeight(n) \in 1..Len(chain[s])
        /\ b \in Block /\ FEntries(n) \subseteq Entry /\ FCms(n) \subseteq Cm
    BY <1>0, FinalizeType
  <1>4. Backed(packs) /\ Backed(packs)'
    <2>1. \A p \in packs : \E r \in rl[n] : r.key = p[1]
      BY SMTT(30) DEF FPacks, SearchRelationTable, RowsAt
    <2>2. Backed(packs)
      BY <2>1 DEF Backed, OnRecord
    <2> QED  BY <1>2, <2>2, BackedStays
  <1>5. \A c \in FCms(n) : c.packs = packs /\ c.src = s /\ c.h = FHeight(n)
    BY SMTT(30) DEF FCms, ClassifyTxFromBlock
  <1>6. \A e \in FEntries(n) : e \in cmdb[n] \/ e.cm \in FCms(n)
    BY SMTT(30) DEF FEntries, AddCrossMessagesDB
  <1>7. \A e \in FEntries(n) : Backed(e.cm.packs) /\ e.cm.src = s
    BY <1>4, <1>5, <1>6 DEF RInv, Recorded
  <1>8. \A e \in FEntries(n) : Backed(e.cm.packs)'
    BY <1>2, <1>7, BackedStays
  <1>9. \A c \in net' : c \in net \/ Backed(c.packs)'
    BY <1>1, <1>4, <1>5, <1>8 DEF FConfirming, Due
  <1>10. /\ \A e \in UpdatecmDB(FEntries(n)) : \E f \in FEntries(n) : f.cm = e.cm
         /\ \A f \in FEntries(n) : \E e \in UpdatecmDB(FEntries(n)) : e.cm = f.cm
    BY <1>3, UpdatecmDBKeeps
  <1>11. \A m \in Nodes : cmdb'[m] = IF m = n THEN UpdatecmDB(FEntries(n)) ELSE cmdb[m]
    BY <1>0, <1>1 DEF TypeInv, TypeOK
  <1>12. \A m \in Nodes : \A e \in cmdb'[m] :
           (\E f \in cmdb[m] : f.cm = e.cm) \/ (Backed(e.cm.packs)' /\ e.cm.src = ShardOf[m])
    BY <1>7, <1>8, <1>10, <1>11
  <1>13. \A r \in FRows(n) : (\E q \in rl[n] : q.packs = r.packs) \/ Backed(r.packs)'
    <2> DEFINE mod(r) == IF r.cs = k THEN [r EXCEPT !.packs = packs] ELSE r
    <2>1. \A r \in Row : mod(r) = r \/ mod(r).packs = packs
      BY SMTT(30) DEF Row
    <2>2. rl[n] \subseteq Row
      BY <1>0 DEF TypeInv, TypeOK
    <2>3. FRows(n) = {mod(r) : r \in rl[n]}
      BY DEF FRows, ModifyRelationTable
    <2> HIDE DEF mod
    <2>4. \A r \in FRows(n) : r \in rl[n] \/ r.packs = packs
      BY SMTT(30), <2>1, <2>2, <2>3
    <2> QED  BY <1>4, <2>4
  <1>14. \A r \in FRows(n) : Backed(r.packs)'
    <2>1. \A q \in rl[n] : Backed(q.packs)'
      BY <1>2, BackedStays DEF RInv, Recorded
    <2> QED  BY <1>13, <2>1
  <1>15. \A m \in Nodes : \A r \in rl'[m] :
           (\E q \in rl[m] : q.packs = r.packs) \/ Backed(r.packs)'
    BY <1>0, <1>1, <1>14 DEF TypeInv, TypeOK
  <1>16. \A d \in Save(done[n], FSaved(n)) : d \in done[n] \/ Backed(d.packs)'
    <2>1. \A d \in Save(done[n], FSaved(n)) :
            d \in done[n] \/ \E r \in FRows(n) : d.packs = r.packs
      <3>1. FSaved(n) \subseteq FRows(n)
        BY DEF FSaved, RemovedRows
      <3> QED  BY SMTT(30), <3>1 DEF Save
    <2> QED  BY <1>14, <2>1
  <1>17. \A m \in Nodes : \A d \in done'[m] : d \in done[m] \/ Backed(d.packs)'
    BY <1>0, <1>1, <1>16 DEF TypeInv, TypeOK
  <1>18. Recorded'
    BY <1>1, <1>2, <1>9, <1>12, <1>15, <1>17, RecordedStep DEF RInv
  <1>19. /\ \A m \in Nodes : \A h \in 1..app'[m] :
              h \in 1..app[m] \/ \A t \in chain'[ShardOf[m]][h].outs : Kept(m, h, t)'
         /\ \A m \in Nodes : \A e \in cmdb[m] : \E f \in cmdb'[m] : f.cm = e.cm
    BY <1>0, FinalizeKeeps DEF RInv
  <1>20. DeletedOnRecord'
    BY <1>1, <1>2, <1>19, DeletedStep
  <1> QED  BY <1>18, <1>20

(* Every step keeps receipts backed by records. *)
LEMMA RecordsNext ==
    ASSUME RInv, crashes = 0, TypeInv', [Next]_vars, crashes' = 0
    PROVE  Recorded' /\ DeletedOnRecord'
  <1> DEFINE Goal == Recorded' /\ DeletedOnRecord'
  <1>0. TypeInv /\ Grows
    BY NextGrows DEF RInv
  <1>1. ASSUME NEW n \in Nodes, NEW R, rl' = [rl EXCEPT ![n] = R],
               rl[n] \subseteq R, \A r \in R : r \in rl[n] \/ r.packs = {},
               UNCHANGED <<app, cache, done, cmdb, net, crashes>>
        PROVE  Goal
    <2>1. \A m \in Nodes : rl'[m] = IF m = n THEN R ELSE rl[m]
      BY <1>0, <1>1 DEF TypeInv, TypeOK
    <2>2. /\ \A m \in Nodes : rl[m] \subseteq rl'[m]
          /\ \A m \in Nodes : \A r \in rl'[m] : r \in rl[m] \/ r.packs = {}
      BY <1>1, <2>1
    <2> QED  BY <1>0, <1>1, <2>2, RecordsVotes
  <1>2. ASSUME UNCHANGED <<app, cache, rl, done, cmdb, net, crashes>> PROVE Goal
    BY <1>0, <1>2, RecordsVotes
  <1>3. ASSUME NEW n \in Nodes, CreateProposalBlock(n) PROVE Goal
    <2>1. PICK T, C, G : Propose(n, T, C, G)
      BY <1>3 DEF CreateProposalBlock
    <2>2. PICK R, h, mult : /\ R = AppendRows(rl[n], h, mult, TRUE)
                            /\ rl' = [rl EXCEPT ![n] = R]
      BY <2>1 DEF Propose, AddRelationTable
    <2>3. UNCHANGED <<app, cache, done, cmdb, net, crashes>>
      BY <2>1 DEF Propose
    <2>4. rl[n] \subseteq R /\ \A r \in R : r \in rl[n] \/ r.packs = {}
      BY <2>2, AppendRowsNew
    <2> QED  BY <1>1, <2>2, <2>3, <2>4
  <1>4. ASSUME NEW n \in Nodes, Prevote(n) PROVE Goal
    <2>1. PICK R, h, mult : /\ R = AppendRows(rl[n], h, mult, FALSE)
                            /\ rl' = [rl EXCEPT ![n] = R]
      BY <1>4 DEF Prevote, SyncRelationTable
    <2>2. UNCHANGED <<app, cache, done, cmdb, net, crashes>>
      BY <1>4 DEF Prevote
    <2>3. rl[n] \subseteq R /\ \A r \in R : r \in rl[n] \/ r.packs = {}
      BY <2>1, AppendRowsNew
    <2> QED  BY <1>1, <2>1, <2>2, <2>3
  <1>5. ASSUME NEW n \in Nodes, FinalizeCommit(n) PROVE Goal
    BY <1>0, <1>5, RecordsFinalize
  <1>6. ASSUME NEW n \in Nodes, Restart(n) PROVE Goal
    BY SMTT(30), <1>6 DEF Restart
  <1>7. ASSUME NEW n \in Nodes, NEW cm \in net, ReceiveCm(n, cm) PROVE Goal
    <2>1. Backed(cm.packs) /\ UNCHANGED <<app, rl, done, net, crashes>>
      BY <1>7 DEF RInv, Recorded, ReceiveCm
    <2>2. cache' = [cache EXCEPT ![n] = @ \cup {cm}] /\
          \E E : /\ RemoveCrossMessagesDB(cmdb[n], cm.packs, E)
                 /\ cmdb' = [cmdb EXCEPT ![n] = E]
      BY <1>7 DEF ReceiveCm, CheckTxWithInfo
    <2> QED  BY <1>0, <2>1, <2>2, RecordsArrival
  <1>8. ASSUME NEW n \in Nodes, NEW cm \in net, ReceiveReceipt(n, cm) PROVE Goal
    <2>1. Backed(cm.packs) /\ UNCHANGED <<app, rl, done, net, crashes>>
      BY <1>8 DEF RInv, Recorded, ReceiveReceipt
    <2>2. (cache' = [cache EXCEPT ![n] = @ \cup {cm}] \/ UNCHANGED cache) /\
          \E E : /\ RemoveCrossMessagesDB(cmdb[n], cm.packs, E)
                 /\ cmdb' = [cmdb EXCEPT ![n] = E]
      BY <1>8 DEF ReceiveReceipt
    <2> QED  BY <1>0, <2>1, <2>2, RecordsArrival
  <1>9. ASSUME NEW n \in Nodes, NEW m \in Nodes, NEW cm \in cache[m],
               GossipReceive(n, m, cm)
        PROVE  Goal
    <2>1. Backed(cm.packs) /\ UNCHANGED <<app, rl, done, net, crashes>>
      BY <1>9 DEF RInv, Recorded, GossipReceive
    <2>2. (cache' = [cache EXCEPT ![n] = @ \cup {cm}] \/ UNCHANGED cache) /\
          \E E : /\ RemoveCrossMessagesDB(cmdb[n], cm.packs, E)
                 /\ cmdb' = [cmdb EXCEPT ![n] = E]
      BY <1>9 DEF GossipReceive, CheckTxWithInfo
    <2> QED  BY <1>0, <2>1, <2>2, RecordsArrival
  <1>10. ASSUME NEW n \in Nodes, NEW cm \in net, ReplyFromCheckdb(n, cm) PROVE Goal
    <2>1. PICK d \in done[n] : \E S : S \subseteq {Receipt(n, d)} /\ net' = net \cup S
      BY <1>10 DEF ReplyFromCheckdb, SendCrossMessages
    <2>2. UNCHANGED <<app, cache, rl, done, cmdb, crashes>>
      BY <1>10 DEF ReplyFromCheckdb
    <2>3. RecordsStay
      BY <2>2, Untouched
    <2>4. Receipt(n, d).packs = d.packs /\ Backed(d.packs)'
      BY <2>3, BackedStays DEF Receipt, RInv, Recorded
    <2>5. \A c \in net' : c \in net \/ Backed(c.packs)'
      BY <2>1, <2>4
    <2>6. Recorded'
      BY <2>2, <2>3, <2>5, RecordedStep DEF RInv
    <2>7. DeletedOnRecord'
      BY <1>0, <2>2, <2>3, DeletedStep
    <2> QED  BY <2>6, <2>7
  <1>11. ASSUME NEW s \in Shards, EnterNewRound(s) \/ EnterCommit(s) PROVE Goal
    BY <1>2, <1>11 DEF EnterNewRound, EnterCommit
  <1>12. ASSUME NEW s \in Shards, EmptyBlock(s) PROVE Goal
    BY <1>0, <1>12, RecordsEmptyBlock
  <1>13. ASSUME UNCHANGED vars PROVE Goal
    BY <1>2, <1>13 DEF vars
  <1> HIDE DEF Goal
  <1>14. Goal
    BY <1>3, <1>4, <1>5, <1>6, <1>7, <1>8, <1>9, <1>10, <1>11, <1>12, <1>13
       DEF Next, Undisturbed
  <1> QED  BY <1>14 DEF Goal

(* A restart, and nothing else, is counted. *)
LEMMA CrashesCounted ==
    ASSUME [Next]_vars
    PROVE  crashes' = crashes \/ crashes' = crashes + 1
  <1>1. ASSUME NEW n \in Nodes, CreateProposalBlock(n) \/ Prevote(n) \/ FinalizeCommit(n)
        PROVE  crashes' = crashes
    BY <1>1, FinalizeEffect DEF CreateProposalBlock, Propose, Prevote
  <1>2. ASSUME NEW n, NEW m, NEW cm, \/ ReceiveCm(n, cm) \/ ReplyFromCheckdb(n, cm)
                                    \/ ReceiveReceipt(n, cm) \/ GossipReceive(n, m, cm)
        PROVE  crashes' = crashes
    BY <1>2 DEF ReceiveCm, ReplyFromCheckdb, ReceiveReceipt, GossipReceive
  <1>3. ASSUME NEW s, EmptyBlock(s) \/ EnterNewRound(s) \/ EnterCommit(s)
        PROVE  crashes' = crashes
    BY <1>3 DEF EmptyBlock, EnterNewRound, EnterCommit
  <1>4. ASSUME NEW n, Restart(n) PROVE crashes' = crashes + 1
    BY <1>4 DEF Restart
  <1> QED
    BY <1>1, <1>2, <1>3, <1>4 DEF Next, Undisturbed, vars

(* As long as no node has lost its memory, a cm leaves a sender's cmDB only  *)
(* if some node has a row of the relation table or a checkdb record for its  *)
(* block: RemoveCrossMessagesDB acts on no invented receipt, for any shards, *)
(* nodes and relaytx, with any loss, repetition and failed rounds.           *)
THEOREM DeletedOnlyOnRecord == Spec => []DeletedOnRecord
  <1>1. Init => RInv
    <2>1. Init => OwnDebits /\ Recorded /\ DeletedOnRecord
      BY SMTT(30), ConstantsAssumption DEF Init, OwnDebits, Recorded, DeletedOnRecord
    <2> QED  BY <2>1, TypeInit DEF RInv
  <1>2. RInv /\ [Next]_vars => RInv'
    <2> SUFFICES ASSUME RInv, [Next]_vars PROVE RInv'
      OBVIOUS
    <2>1. TypeInv' /\ OwnDebits'
      BY TypeNext, OwnNext DEF RInv
    <2>2. CASE crashes' # 0
      BY <2>1, <2>2 DEF RInv, DeletedOnRecord
    <2>3. CASE crashes' = 0
      <3>1. crashes = 0
        BY SMTT(30), <2>3, CrashesCounted DEF RInv, TypeInv, TypeOK
      <3> QED  BY <2>1, <2>3, <3>1, RecordsNext DEF RInv
    <2> QED  BY <2>2, <2>3
  <1>3. RInv => DeletedOnRecord
    BY DEF RInv
  <1> QED  BY <1>1, <1>2, <1>3, PTL DEF Spec

=============================================================================
