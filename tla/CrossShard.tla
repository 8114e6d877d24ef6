---------------------------- MODULE CrossShard ----------------------------
(***************************************************************************)
(* The life of a cross-shard transaction (a "relaytx").  It is debited in  *)
(* a block of its Sender shard, leaves that shard in a cross message (cm)  *)
(* which every sender node keeps in its cmDB, enters a block of its        *)
(* Receiver shard, and is confirmed by a package travelling back, on which *)
(* the sender nodes delete the cm.                                         *)
(*                                                                         *)
(* One node is one process of one shard.  Consensus inside a shard is      *)
(* represented by what this protocol sees of it: rounds with a leader, a   *)
(* proposal, prevotes that have a side effect, and one decided block per   *)
(* height.  Modelled from mempool/mempool.go, mempool/reactor.go,          *)
(* consensus/state.go, state/execution.go, types/tx_utils.go,              *)
(* checkdb/aggtx.go and client/httpclient.go.                              *)
(***************************************************************************)
EXTENDS Integers, Sequences, FiniteSets

CONSTANTS
    Shards,        \* the zones (environment variable TASKID)
    Nodes,         \* the validators of all shards
    ShardOf,       \* node -> its zone
    RelayTxs,      \* the relaytx clients submit; one Content each
    Sender,        \* relaytx -> zone that is debited
    Receiver,      \* relaytx -> zone that is credited
    Quorums,       \* zone -> sets of nodes holding more than 2/3 of the power
    ResendAt,      \* blocks an unconfirmed cm waits for its next sending (20)
    BlockCap,      \* zone -> relaytx and cms that fit the byte limit of a block
    GasCap,        \* zone -> ConsensusParams.Block.MaxGas > -1
    ReplyReaches,  \* zone -> the host name "10.43.<zone>101" resolves to it
    MaxHeight,     \* bound: recorded blocks per shard
    MaxRound,      \* bound: last round of a height, per shard, less the crashes so far
    MaxCrashes,    \* bound: restarts of nodes
    NoTx, NoNode, NoBlock

NodesOf(s) == {n \in Nodes : ShardOf[n] = s}

(***************************************************************************)
(* A cm is named by the pair (Height, CrossMerkleRoot).  The root covers   *)
(* every bucket of one block of one shard, so it is represented by the     *)
(* shard: all cms of one block have one key.                               *)
(***************************************************************************)
Key == Shards \X (Nat \ {0})
Packages == SUBSET (Key \X Nat)
Cm == [src : Shards, dst : Shards, h : Nat \ {0}, tx : RelayTxs \cup {NoTx},
       packs : Packages, by : Nodes \cup {NoNode}]
Entry == [cm : Cm, age : 0..ResendAt]
Row == [cs : Nat, key : Key, i : Nat, own : BOOLEAN, packs : Packages]
Saved == [key : Key, packs : Packages]
Block == [outs : SUBSET RelayTxs, ins : SUBSET {c \in Cm : c.tx # NoTx},
          packs : Packages, leader : Nodes]
Round == [round : Nat, leader : Nodes, block : Block \cup {NoBlock},
          prevoted : SUBSET Nodes]

ASSUME ConstantsAssumption ==
    /\ ShardOf \in [Nodes -> Shards]
    /\ \A s \in Shards : \E n \in Nodes : ShardOf[n] = s
    /\ Sender \in [RelayTxs -> Shards]
    /\ Receiver \in [RelayTxs -> Shards]
    /\ \A t \in RelayTxs : Sender[t] # Receiver[t]
    /\ Quorums \in [Shards -> SUBSET SUBSET Nodes]
    /\ ResendAt \in Nat \ {0}
    /\ BlockCap \in [Shards -> Nat]
    /\ GasCap \in [Shards -> BOOLEAN]
    /\ ReplyReaches \in [Shards -> BOOLEAN]
    /\ MaxHeight \in [Shards -> Nat]
    /\ MaxRound \in [Shards -> Nat]
    /\ MaxCrashes \in Nat
    /\ NoTx \notin RelayTxs
    /\ NoNode \notin Nodes
    /\ NoBlock \notin Block

VARIABLES
    chain,    \* zone -> decided blocks
    cons,     \* zone -> round being voted on
    app,      \* node -> height it has applied
    pool,     \* node -> cms in its mempool
    cache,    \* node -> cms in its mempool's tx cache
    rl,       \* node -> RlDB, the relation table
    done,     \* node -> checkdb
    cmdb,     \* node -> cmDB, unconfirmed outgoing cms
    net,      \* cms that some node has sent to another shard
    crashes   \* restarts so far

vars == <<chain, cons, app, pool, cache, rl, done, cmdb, net, crashes>>

CmID(cm) == <<cm.src, cm.h>>

\* Height a shard is voting on.
Height(s) == Len(chain[s]) + 1

\* isProposer in the round the node is in: a node that has not applied the
\* decided block yet is still in the round that decided it.
IsLeader(n) ==
    LET s == ShardOf[n] IN
    IF app[n] = Len(chain[s]) THEN cons[s].leader = n
                              ELSE chain[s][app[n] + 1].leader = n

---------------------------------------------------------------------------
(* The relation table.  Rows of one cm at one height are numbered by i,    *)
(* and the table's order is the order of (cs, i).                          *)

RowsAt(R, h) == {r \in R : r.cs = h}

Before(r, q) == r.cs < q.cs \/ (r.cs = q.cs /\ r.i < q.i)

\* Append mult[k] rows for each key k; own says that this node reaped them.
AppendRows(R, h, mult, own) ==
    R \cup UNION {{[cs |-> h, key |-> k, own |-> own, packs |-> {},
                    i |-> Cardinality({r \in RowsAt(R, h) : r.key = k}) + j] :
                        j \in 1..mult[k]} : k \in DOMAIN mult}

AddRelationTable(R, h, cms) ==
    AppendRows(R, h, [k \in {CmID(c) : c \in cms} |->
                        Cardinality({c \in cms : CmID(c) = k})], TRUE)

SyncRelationTable(R, h, packs) ==
    AppendRows(R, h, [k \in {p[1] : p \in packs} |->
                        Cardinality({p \in packs : p[1] = k})], FALSE)

SearchRelationTable(R, h) == {<<r.key, r.i>> : r \in RowsAt(R, h)}

ModifyRelationTable(R, h, packs) ==
    {IF r.cs = h THEN [r EXCEPT !.packs = packs] ELSE r : r \in R}

\* Mutant: Update forgets to drop packed cms.
RemovedCms_None(R, h, P) == {}

\* Cms of the mempool P that have a row at height h.
RemovedCms(R, h, P) == {c \in P : \E r \in RowsAt(R, h) : r.key = CmID(c)}

\* One RemoveRelationTable call per removed cm: each takes the first row of
\* the cm's key, whatever height that row was written for.
RemovedRows(R, cms) ==
    {r \in R : Cardinality({q \in R : q.key = r.key /\ (q = r \/ Before(q, r))})
                 <= Cardinality({c \in cms : CmID(c) = r.key})}

\* Mutant: RemoveCm forgets checkdb.
Save_Skipped(db, rows) == db

\* checkdb.Save overwrites the record of the key, so the last row stays.
Save(db, rows) ==
    {d \in db : \A r \in rows : r.key # d.key}
      \cup {[key |-> r.key, packs |-> r.packs] :
                r \in {q \in rows : \A p \in rows : p.key = q.key => ~Before(q, p)}}

---------------------------------------------------------------------------
(* Cross messages and the cmDB.                                            *)

\* Transactions a block executes: relaytx it debits, relaytx it credits.
BlockTxs(b) == b.outs \cup {c.tx : c \in b.ins}

\* Mutant: a confirmation is addressed to the shard that credited.
ClassifyTxFromBlock_ToReceiver(n, h, b, packs) ==
    {[src |-> ShardOf[n], dst |-> Receiver[t], h |-> h, tx |-> t,
      packs |-> packs, by |-> n] : t \in BlockTxs(b)}

\* One cm per bucket; a bucket is a partner shard and a Content.
ClassifyTxFromBlock(n, h, b, packs) ==
    LET s == ShardOf[n] IN
    {[src |-> s, dst |-> IF Sender[t] = s THEN Receiver[t] ELSE Sender[t],
      h |-> h, tx |-> t, packs |-> packs, by |-> n] : t \in BlockTxs(b)}

\* Mutant: every cm counts as a relaytx to execute.
JudgeCrossMessage_Never(cm) == FALSE

\* The cm holds only addtx: it confirms a credit and is not kept.
JudgeCrossMessage(cm) == Sender[cm.tx] # cm.src

AddCrossMessagesDB(D, cms) == D \cup {[cm |-> c, age |-> 0] : c \in cms}

\* E is D after one deletion per package.  A package deletes the first entry
\* with its height and root; the order of the entries of one block is the
\* iteration order of a Go map, hence arbitrary.
RemoveCrossMessagesDB(D, packs, E) ==
    /\ E \subseteq D
    /\ \A e \in D \ E : \E p \in packs : p[1] = CmID(e.cm)
    /\ \A k \in {p[1] : p \in packs} :
          LET Count(S) == Cardinality({e \in S : CmID(e.cm) = k})
              wanted == Cardinality({p \in packs : p[1] = k})
          IN Count(D \ E) = IF wanted < Count(D) THEN wanted ELSE Count(D)

\* Mutants: a cm is sent only once; it is given up.
Due_FirstOnly(D) == {e.cm : e \in {f \in D : f.age = 0}}
UpdatecmDB_GivesUp(D) ==
    {[e EXCEPT !.age = e.age + 1] : e \in {f \in D : f.age # ResendAt}}

\* UpdatecmDB: what is sent in this block, and the table afterwards.
Due(D) == {e.cm : e \in {f \in D : f.age \in {0, ResendAt}}}
UpdatecmDB(D) ==
    {[e EXCEPT !.age = IF e.age = ResendAt THEN 1 ELSE e.age + 1] : e \in D}

\* The zone a cm is addressed to; a reply from checkdb goes to its source.
Dest(cm) == IF cm.tx = NoTx THEN cm.src ELSE cm.dst

\* A send is an HTTP request in a goroutine of its own: any of them may be
\* lost (network, shard filter, strike rate), and none is retried here.
SendCrossMessages(cms) == \E sent \in SUBSET cms : net' = net \cup sent

---------------------------------------------------------------------------
(* Consensus inside one shard, with the effects this protocol adds to it.  *)

\* Client relaytx that the shard has not committed yet.
Pending(s) ==
    {t \in RelayTxs : /\ Sender[t] = s
                      /\ \A h \in 1..Len(chain[s]) : t \notin chain[s][h].outs}

\* Some node of the shard has a row for the height it votes on.
HasRows(s, h) == \E n \in NodesOf(s) : RowsAt(rl[n], h) # {}

\* The round that shard s is in.
EnterRound(s, r, l, b, P) ==
    cons' = [cons EXCEPT ![s] = [round |-> r, leader |-> l, block |-> b,
                                 prevoted |-> P]]

\* CreateProposalBlock: the leader reaps relaytx T and the cms of its mempool
\* into a block.  C are the cms that fit the byte limit, G the cm at which the
\* gas limit stops the reap: its row is written before the limit is tested.
\* The packages of the block are all rows of its height, so also those that
\* earlier rounds left.
Propose(n, T, C, G) ==
    LET s == ShardOf[n]
        h == Height(s)
        R == AddRelationTable(rl[n], h, C \cup G)
        b == [outs |-> T,
              ins |-> {c \in C : c.tx # NoTx /\ ~JudgeCrossMessage(c)},
              packs |-> SearchRelationTable(R, h), leader |-> n]
    IN  /\ app[n] = Len(chain[s])
        /\ cons[s].leader = n
        /\ cons[s].block = NoBlock
        /\ h <= MaxHeight[s]
        /\ Cardinality(T) + Cardinality(C) <= BlockCap[s]
        /\ T # {} \/ C # {} \/ HasRows(s, h)
        /\ rl' = [rl EXCEPT ![n] = R]
        /\ EnterRound(s, cons[s].round, n, b, {n})
        /\ UNCHANGED <<chain, app, pool, cache, done, cmdb, net, crashes>>

\* Mutant: the gas limit is tested when there is none.
GasStops_Always(s, S) == {{}} \cup {{c} : c \in S}

\* At most one cm, and none without a gas limit.
GasStops(s, S) == {{}} \cup (IF GasCap[s] THEN {{c} : c \in S} ELSE {})

\* A leader of two rounds of a height reaps the same list again: what it
\* reached the first time, it reaches again.
ReapsAgain(n, C) ==
    \A r \in RowsAt(rl[n], Height(ShardOf[n])) :
        r.own /\ (\E c \in pool[n] : CmID(c) = r.key)
          => \E c \in C : CmID(c) = r.key

CreateProposalBlock(n) ==
    \E T \in SUBSET Pending(ShardOf[n]), C \in SUBSET pool[n] :
        \E G \in GasStops(ShardOf[n], pool[n] \ C) :
            ReapsAgain(n, C \cup G) /\ Propose(n, T, C, G)

\* signVote of a follower: every package of the proposal becomes a row.
Prevote(n) ==
    LET s == ShardOf[n]
        b == cons[s].block
    IN  /\ app[n] = Len(chain[s])
        /\ b # NoBlock
        /\ n \notin cons[s].prevoted
        /\ rl' = [rl EXCEPT ![n] = SyncRelationTable(rl[n], Height(s), b.packs)]
        /\ EnterRound(s, cons[s].round, cons[s].leader, b, cons[s].prevoted \cup {n})
        /\ UNCHANGED <<chain, app, pool, cache, done, cmdb, net, crashes>>

\* Block b proposed again by l.
ProposedBy(b, l) == [outs |-> b.outs, ins |-> b.ins, packs |-> b.packs,
                     leader |-> l]

\* The round ends without a decision; the next leader starts afresh, or
\* proposes again the block that it saw +2/3 prevotes for.  Rounds without a
\* proposal change nothing but the leader, who is chosen freely here.
EnterNewRound(s) ==
    /\ cons[s].round + crashes < MaxRound[s]
    /\ cons[s].block # NoBlock
    /\ \E l \in NodesOf(s) :
         \/ EnterRound(s, cons[s].round + 1, l, NoBlock, {})
         \/ /\ cons[s].prevoted \in Quorums[s]
            /\ l \in cons[s].prevoted
            /\ EnterRound(s, cons[s].round + 1, l, ProposedBy(cons[s].block, l), {l})
    /\ UNCHANGED <<chain, app, pool, cache, rl, done, cmdb, net, crashes>>

\* +2/3 precommits: the block is decided and the next height begins.
EnterCommit(s) ==
    /\ cons[s].block # NoBlock
    /\ cons[s].prevoted \in Quorums[s]
    /\ chain' = [chain EXCEPT ![s] = Append(@, cons[s].block)]
    /\ \E l \in NodesOf(s) : EnterRound(s, 0, l, NoBlock, {})
    /\ UNCHANGED <<app, pool, cache, rl, done, cmdb, net, crashes>>

\* finalizeCommit on one node: cms of the block are built, stored and sent,
\* then Mempool.Update drops what was packed, then due cms are sent.
FinalizeCommit(n) ==
    LET s == ShardOf[n]
        h == app[n] + 1
        b == chain[s][h]
        packs == SearchRelationTable(rl[n], h)
        cms == ClassifyTxFromBlock(n, h, b, packs)
        confirming == {c \in cms : JudgeCrossMessage(c)}
        R == ModifyRelationTable(rl[n], h, packs)
        gone == RemovedCms(R, h, pool[n])
        D == AddCrossMessagesDB(cmdb[n], cms \ confirming)
    IN  /\ app[n] < Len(chain[s])
        /\ app' = [app EXCEPT ![n] = h]
        /\ pool' = [pool EXCEPT ![n] = @ \ gone]
        /\ rl' = [rl EXCEPT ![n] = R \ RemovedRows(R, gone)]
        /\ done' = [done EXCEPT ![n] = Save(@, RemovedRows(R, gone))]
        /\ cmdb' = [cmdb EXCEPT ![n] = UpdatecmDB(D)]
        /\ SendCrossMessages(IF b.leader = n THEN confirming \cup Due(D) ELSE {})
        /\ UNCHANGED <<chain, cons, cache, crashes>>

\* A block without transactions and packages: the leader's mempool has no cm
\* and no node has a row for it.  All it does is to age the cmDBs; it is not
\* recorded, so a height counts the blocks that somebody refers to.  Past the
\* bound on recorded blocks a shard makes only empty ones.
EmptyBlock(s) ==
    /\ cons[s].block = NoBlock
    /\ ~HasRows(s, Height(s))
    /\ pool[cons[s].leader] = {} \/ Height(s) > MaxHeight[s]
    /\ \A n \in NodesOf(s) : app[n] = Len(chain[s])
    /\ cmdb' = [n \in Nodes |-> IF ShardOf[n] = s THEN UpdatecmDB(cmdb[n])
                                                  ELSE cmdb[n]]
    /\ SendCrossMessages(Due(cmdb[cons[s].leader]))
    /\ \E l \in NodesOf(s) : EnterRound(s, 0, l, NoBlock, {})
    /\ UNCHANGED <<chain, app, pool, cache, rl, done, crashes>>

---------------------------------------------------------------------------
(* Arrival of cms.                                                         *)

\* CheckTxWithInfo of a cm the cache has not seen: its packages delete
\* entries of the cmDB, then it joins the mempool.
CheckTxWithInfo(n, cm) ==
    /\ cm \notin cache[n]
    /\ cache' = [cache EXCEPT ![n] = @ \cup {cm}]
    /\ pool' = [pool EXCEPT ![n] = @ \cup {cm}]
    /\ \E E \in SUBSET cmdb[n] :
          /\ RemoveCrossMessagesDB(cmdb[n], cm.packs, E)
          /\ cmdb' = [cmdb EXCEPT ![n] = E]

Delivered(n, cm) == cm \in net /\ Dest(cm) = ShardOf[n] /\ IsLeader(n)

\* CheckTx, CheckDB says "": the cm is new to this shard's leader.
ReceiveCm(n, cm) ==
    /\ Delivered(n, cm)
    /\ cm.src # ShardOf[n]
    /\ \A d \in done[n] : d.key # CmID(cm)
    /\ CheckTxWithInfo(n, cm)
    /\ UNCHANGED <<chain, cons, app, rl, done, net, crashes>>

\* Mutant: the saved packages are not sent along.
Receipt_NoPackages(n, d) ==
    [src |-> d.key[1], dst |-> ShardOf[n], h |-> d.key[2],
     tx |-> NoTx, packs |-> {}, by |-> NoNode]

\* The receipt CheckDB builds from a checkdb record.
Receipt(n, d) == [src |-> d.key[1], dst |-> ShardOf[n], h |-> d.key[2],
                  tx |-> NoTx, packs |-> d.packs, by |-> NoNode]

\* CheckTx, CheckDB finds the cm in checkdb: the saved packages are sent
\* back and the cm is dropped.
ReplyFromCheckdb(n, cm) ==
    /\ Delivered(n, cm)
    /\ cm.src # ShardOf[n]
    /\ \E d \in done[n] :
         /\ d.key = CmID(cm)
         /\ SendCrossMessages(IF ReplyReaches[cm.src] THEN {Receipt(n, d)} ELSE {})
    /\ UNCHANGED <<chain, cons, app, pool, cache, rl, done, cmdb, crashes>>

\* CheckTx, CheckDB says the cm is a receipt: entries are deleted, and the
\* receipt joins the mempool, from which it is gossiped.
ReceiveReceipt(n, cm) ==
    /\ Delivered(n, cm)
    /\ cm.src = ShardOf[n]
    /\ \E E \in SUBSET cmdb[n] :
          /\ RemoveCrossMessagesDB(cmdb[n], cm.packs, E)
          /\ cmdb' = [cmdb EXCEPT ![n] = E]
    /\ IF cm \in cache[n]
       THEN UNCHANGED <<pool, cache>>
       ELSE /\ cache' = [cache EXCEPT ![n] = @ \cup {cm}]
            /\ pool' = [pool EXCEPT ![n] = @ \cup {cm}]
    /\ UNCHANGED <<chain, cons, app, rl, done, net, crashes>>

\* The mempool reactor delivers to n a cm that its peer m had in its mempool;
\* m may have dropped it since.  This path does not consult checkdb.
GossipReceive(n, m, cm) ==
    /\ ShardOf[n] = ShardOf[m]
    /\ n # m
    /\ cm \in cache[m]
    /\ \/ /\ cm.src # ShardOf[n]
          /\ CheckTxWithInfo(n, cm)
       \/ /\ cm.src = ShardOf[n]
          /\ \E E \in SUBSET cmdb[n] :
                /\ RemoveCrossMessagesDB(cmdb[n], cm.packs, E)
                /\ cmdb' = [cmdb EXCEPT ![n] = E]
          /\ UNCHANGED <<pool, cache>>
    /\ UNCHANGED <<chain, cons, app, rl, done, net, crashes>>

\* A restart: chain, state and checkdb are on disk, the rest is not.
Restart(n) ==
    /\ crashes < MaxCrashes
    /\ crashes' = crashes + 1
    /\ pool' = [pool EXCEPT ![n] = {}]
    /\ cache' = [cache EXCEPT ![n] = {}]
    /\ rl' = [rl EXCEPT ![n] = {}]
    /\ cmdb' = [cmdb EXCEPT ![n] = {}]
    /\ UNCHANGED <<chain, cons, app, done, net>>

---------------------------------------------------------------------------

Init ==
    /\ chain = [s \in Shards |-> <<>>]
    /\ cons \in [Shards -> [round : {0}, leader : Nodes, block : {NoBlock},
                            prevoted : {{}}]]
    /\ \A s \in Shards : ShardOf[cons[s].leader] = s
    /\ app = [n \in Nodes |-> 0]
    /\ pool = [n \in Nodes |-> {}]
    /\ cache = [n \in Nodes |-> {}]
    /\ rl = [n \in Nodes |-> {}]
    /\ done = [n \in Nodes |-> {}]
    /\ cmdb = [n \in Nodes |-> {}]
    /\ net = {}
    /\ crashes = 0

\* No round fails and no node restarts.
Undisturbed ==
    \/ \E n \in Nodes : \/ CreateProposalBlock(n)
                        \/ Prevote(n)
                        \/ FinalizeCommit(n)
                        \/ \E cm \in net : \/ ReceiveCm(n, cm)
                                           \/ ReplyFromCheckdb(n, cm)
                                           \/ ReceiveReceipt(n, cm)
                        \/ \E m \in Nodes : \E cm \in cache[m] :
                              GossipReceive(n, m, cm)
    \/ \E s \in Shards : \/ EnterCommit(s)
                         \/ EmptyBlock(s)

Next ==
    \/ Undisturbed
    \/ \E n \in Nodes : Restart(n)
    \/ \E s \in Shards : EnterNewRound(s)

Spec == Init /\ [][Next]_vars

\* Fairness: a block that can be voted and applied is; a leader with cms in
\* its mempool packs them; empty blocks go on and every validator leads again
\* (proposers rotate); and of infinitely many sends of a cm, and arrivals at a
\* leader, one succeeds.  Replies leave a shard that relaytxs go to, and what
\* is sent again and receipted are the cms of a shard they come from.
Sending == {Sender[t] : t \in RelayTxs}
Receiving == {Receiver[t] : t \in RelayTxs}
Fairness ==
    /\ \A n \in Nodes :
         /\ WF_vars(Prevote(n))
         /\ WF_vars(FinalizeCommit(n))
         /\ WF_vars(pool[n] # {} /\ Propose(n, {}, pool[n], {}))
         /\ SF_vars(EmptyBlock(ShardOf[n]) /\ cons'[ShardOf[n]].leader = n)
         /\ SF_vars(\E cm \in net : ReceiveCm(n, cm))
    /\ \A s \in Sending : \A n \in NodesOf(s) :
         SF_vars(\E cm \in net : ReceiveReceipt(n, cm))
    /\ \A s \in Receiving : \A n \in NodesOf(s) :
         SF_vars(\E cm \in net : ReplyFromCheckdb(n, cm) /\ net' # net)
    /\ \A s \in Shards :
         /\ WF_vars(EnterCommit(s))
         /\ WF_vars(EmptyBlock(s))
    /\ \A s \in Sending :
         SF_vars(EmptyBlock(s) /\ {} # Due(cmdb[cons[s].leader])
                               /\ Due(cmdb[cons[s].leader]) \subseteq net')

FairSpec == Init /\ [][Undisturbed]_vars /\ Fairness

TypeOK ==
    /\ chain \in [Shards -> Seq(Block)]
    /\ cons \in [Shards -> Round]
    /\ app \in [Nodes -> Nat]
    /\ pool \in [Nodes -> SUBSET Cm]
    /\ cache \in [Nodes -> SUBSET Cm]
    /\ rl \in [Nodes -> SUBSET Row]
    /\ done \in [Nodes -> SUBSET Saved]
    /\ cmdb \in [Nodes -> SUBSET Entry]
    /\ net \in SUBSET Cm
    /\ crashes \in 0..MaxCrashes

---------------------------------------------------------------------------
(* Properties.                                                             *)

Debited(t) == \E h \in 1..Len(chain[Sender[t]]) : t \in chain[Sender[t]][h].outs

\* The executions of relaytx t in blocks of the shard it credits.
Credits(t) ==
    UNION {{<<h, c>> : c \in {d \in chain[Receiver[t]][h].ins : d.tx = t}} :
              h \in 1..Len(chain[Receiver[t]])}

\* Some node has a row or a saved record of the cms of block k.
OnRecord(k) == \E m \in Nodes : \/ \E r \in rl[m] : r.key = k
                                \/ \E d \in done[m] : d.key = k

\* Node n still keeps the cm of relaytx t of its shard's block h.
Kept(n, h, t) == \E e \in cmdb[n] : e.cm.h = h /\ e.cm.tx = t

\* Shard s may credit the relaytx of c: it is the receiver, and it was debited.
Payable(s, c) == Receiver[c.tx] = s /\ Debited(c.tx)

(* A relaytx is credited only in its Receiver shard, and only after a block *)
(* of its Sender shard debited it: whatever is lost, sent again, gossiped   *)
(* or restarted, ReapMaxBytesMaxGas never packs a relaytx out of thin air.  *)
NoCreditWithoutDebit ==
    \A s \in Shards : \A h \in 1..Len(chain[s]) : \A c \in chain[s][h].ins :
        Payable(s, c)

\* The source shard executed the relaytx of the cm in the block the cm names,
\* and the cm is addressed to the other party.
Genuine(cm) ==
    cm.tx # NoTx =>
      /\ cm.h \in 1..Len(chain[cm.src])
      /\ cm.tx \in BlockTxs(chain[cm.src][cm.h])
      /\ cm.dst = IF Sender[cm.tx] = cm.src THEN Receiver[cm.tx] ELSE Sender[cm.tx]

(* Every cm on the network, in a mempool, a cache or a cmDB stands for a     *)
(* relaytx its source shard has executed; a mempool holds only cms for its   *)
(* own shard; and what a leader has reaped into its proposal is debited.     *)
CmsGenuine ==
    /\ \A cm \in net : Genuine(cm)
    /\ \A n \in Nodes :
         /\ \A cm \in pool[n] \cup cache[n] : Genuine(cm) /\ Dest(cm) = ShardOf[n]
         /\ \A e \in cmdb[n] : Genuine(e.cm)
    /\ \A s \in Shards : cons[s].block # NoBlock =>
         \A c \in cons[s].block.ins : Payable(s, c)

(* RemoveCrossMessagesDB deletes a cm from a sender's cmDB only if some      *)
(* node holds a relation-table row or a checkdb record for the block of that *)
(* cm: as long as no node loses its memory, a receipt is never invented.     *)
DeletedOnRecord ==
    crashes = 0 =>
      \A n \in Nodes : \A h \in 1..app[n] : \A t \in chain[ShardOf[n]][h].outs :
          Kept(n, h, t) \/ OnRecord(<<ShardOf[n], h>>)

(* Every cross-shard transaction stays recorded at its sender until it has  *)
(* finally been confirmed, i.e. executed by its receiver (README.md:13).    *)
ConfirmedBeforeDelete ==
    \A n \in Nodes : \A h \in 1..app[n] : \A t \in chain[ShardOf[n]][h].outs :
        Kept(n, h, t) \/ Credits(t) # {}

(* What RemoveCm takes out of a mempool and saves to checkdb was packed: a   *)
(* checkdb record stands for a block of this shard that executed every       *)
(* relaytx the recorded block sent here (comment at mempool.go:1615).        *)
CheckdbMeansPacked ==
    \A n \in Nodes : \A d \in done[n] :
        \A t \in chain[d.key[1]][d.key[2]].outs :
            Receiver[t] = ShardOf[n] => Credits(t) # {}

(* CheckDB and the tx cache keep a relaytx from being executed twice.        *)
AtMostOnce == \A t \in RelayTxs : Cardinality(Credits(t)) <= 1

\* Shard s has one validator.
Lone(s) == \A n, m \in NodesOf(s) : n = m

\* Block h of shard s executes one relaytx.
Solo(s, h) == \A t, u \in BlockTxs(chain[s][h]) : t = u

(* Between shards of one validator each a relaytx is executed once, as long  *)
(* as no node loses its memory: checkdb and the tx cache stop every copy     *)
(* that UpdatecmDB sends again, and no gossip goes round them.               *)
OnceAlone ==
    crashes = 0 =>
      \A t \in RelayTxs :
        Lone(Sender[t]) /\ Lone(Receiver[t]) => Cardinality(Credits(t)) <= 1

\* ... and no gas limit.
Simple(s) == Lone(s) /\ ~GasCap[s]

(* A relaytx that is alone in its block, and goes to a shard of one validator *)
(* without a gas limit, is executed before its record is deleted at a sender, *)
(* and before checkdb says that it was packed.                                *)
ConfirmedAlone ==
    /\ \A n \in Nodes : \A h \in 1..app[n] : \A t \in chain[ShardOf[n]][h].outs :
         crashes = 0 /\ Simple(Receiver[t]) /\ Solo(ShardOf[n], h)
           => Kept(n, h, t) \/ Credits(t) # {}
    /\ \A n \in Nodes : \A d \in done[n] : \A t \in chain[d.key[1]][d.key[2]].outs :
         Simple(ShardOf[n]) /\ Solo(d.key[1], d.key[2]) /\ Receiver[t] = ShardOf[n]
           => Credits(t) # {}

(* A debited relaytx is eventually credited: a lost cm is sent again every   *)
(* ResendAt blocks (UpdatecmDB).                                             *)
EventuallyCredited == \A t \in RelayTxs : Debited(t) ~> Credits(t) # {}

(* A cm is not kept, and not sent again, for ever: resending it gets it      *)
(* confirmed (comment of UpdatecmDB, mempool.go:586).                        *)
EventuallyConfirmed ==
    \A n \in Nodes, t \in RelayTxs : \A h \in 1..MaxHeight[Sender[t]] :
        Kept(n, h, t) ~> ~Kept(n, h, t)
=============================================================================
