--------------------------- MODULE ServicesProofs ---------------------------
(***************************************************************************)
(* Two of the services beside the consensus.  Evidence is never forgotten, *)
(* for any evidence, goroutines, ages and numbers of crashes.              *)
(* NeverForgotten is not inductive: a crash brings back an older state of  *)
(* the database, so it is claimed of all of those since the last sync; the *)
(* lookup key is written on the strength of the pending key, which the     *)
(* commit of a block may have deleted by then; and what is deleted is in a *)
(* block, because only a block's evidence is.  The second half is about    *)
(* the connections to the application, for any threads and connections:    *)
(* who is inside it, and what a call is answered with.                     *)
(***************************************************************************)
EXTENDS Evidence, SequenceTheorems, FiniteSetTheorems, TLAPS

(* Leaves that need arithmetic, records or sequences name SMT. *)
USE ZenonT(60)

Databases == [out : SUBSET (Evs \X {Power[e] : e \in Evs}), pending : SUBSET Evs,
              lookup : [Evs -> {Nil, "new", "committed"}]]

Remembers(d, stored) == \A e \in Evs : d.lookup[e] # Nil => e \in d.pending \union stored

(* The types of the variables that matter here. *)
TypeInv ==
  /\ db \in Databases
  /\ unsynced \in Seq(Databases)
  /\ blocks \in Seq(SUBSET Evs)
  /\ adder \in [Adders -> [pc : {"idle", "out", "pending", "lookup", "push"}, ev : Evs \union {Nil}]]
  /\ \A t \in Adders : adder[t].pc # "idle" => adder[t].ev \in Evs
  /\ commit # Nil => commit \in Seq(Evs)

(* The inductive invariant: no state of the database that a crash can bring back has        *)
(* forgotten evidence, what is about to get its lookup key is pending or in a block, and    *)
(* what the pool has still to mark as committed is in a block.                              *)
IInv ==
  /\ TypeInv
  /\ Remembers(db, InBlocks)
  /\ \A k \in 1 .. Len(unsynced) : Remembers(unsynced[k], InBlocks)
  /\ \A t \in Adders : adder[t].pc = "lookup" => adder[t].ev \in db.pending \union InBlocks
  /\ commit # Nil => \A i \in 1 .. Len(commit) : commit[i] \in InBlocks

-----------------------------------------------------------------------------
(* A block that is appended adds its evidence to what is in blocks and takes none away. *)
LEMMA BlockAdds ==
  ASSUME NEW B \in Seq(SUBSET Evs), NEW E \in SUBSET Evs
  PROVE  /\ Append(B, E) \in Seq(SUBSET Evs)
         /\ UNION {Append(B, E)[h] : h \in 1 .. Len(Append(B, E))}
              = (UNION {B[h] : h \in 1 .. Len(B)}) \union E
<1>1. Len(Append(B, E)) = Len(B) + 1 /\ Append(B, E)[Len(B) + 1] = E /\ Len(B) \in Nat
  BY SMTT(30)
<1>2. \A h \in 1 .. Len(B) : Append(B, E)[h] = B[h]
  BY SMTT(30)
<1> QED
  BY SMTT(30), <1>1, <1>2

(* The elements of an enumeration of a finite set, in the order chosen for marking. *)
LEMMA Enumerated ==
  ASSUME NEW E \in SUBSET Evs, IsFiniteSet(Evs), NEW s \in Orders(E)
  PROVE  s \in Seq(Evs) /\ \A i \in 1 .. Len(s) : s[i] \in E
<1>1. Cardinality(E) \in Nat
  BY FS_Subset, FS_CardinalityType
<1>2. s \in [1 .. Cardinality(E) -> E]
  BY DEF Orders
<1> QED
  BY SMTT(30), <1>1, <1>2

LEMMA InitInv == Init => IInv
<1> SUFFICES ASSUME Init PROVE IInv
  OBVIOUS
<1>1. db \in Databases /\ unsynced = <<db>> /\ \A e \in Evs : db.lookup[e] = Nil
  BY DEF Init, Databases
<1>2. TypeInv
  BY SMTT(30), <1>1 DEF Init, TypeInv, Idle
<1> QED
  BY SMTT(30), <1>1, <1>2 DEF Init, IInv, Remembers, Idle

(* A write of the database that keeps what is remembered, synced or not. *)
LEMMA WriteKeeps ==
  ASSUME IInv, NEW d \in Databases, Remembers(d, InBlocks), Set(d) \/ SetSync(d), UNCHANGED blocks
  PROVE  /\ db' = d /\ unsynced' \in Seq(Databases) /\ Remembers(db', InBlocks')
         /\ \A k \in 1 .. Len(unsynced') : Remembers(unsynced'[k], InBlocks')
<1>1. InBlocks' = InBlocks
  BY DEF InBlocks
<1>2. CASE Set(d)
  <2>1. unsynced \in Seq(Databases) /\ unsynced' = Append(unsynced, d) /\ db' = d
    BY <1>2 DEF Set, IInv, TypeInv
  <2>2. Len(unsynced') = Len(unsynced) + 1 /\ unsynced'[Len(unsynced) + 1] = d /\ Len(unsynced) \in Nat
    BY SMTT(30), <2>1
  <2>3. \A k \in 1 .. Len(unsynced) : unsynced'[k] = unsynced[k]
    BY SMTT(30), <2>1
  <2>4. \A k \in 1 .. Len(unsynced) : Remembers(unsynced[k], InBlocks)
    BY DEF IInv
  <2>5. \A k \in 1 .. Len(unsynced') : Remembers(unsynced'[k], InBlocks')
    <3> TAKE k \in 1 .. Len(unsynced')
    <3>1. CASE k \in 1 .. Len(unsynced)
      BY <3>1, <2>3, <2>4, <1>1
    <3>2. CASE k = Len(unsynced) + 1
      BY <3>2, <2>2, <1>1
    <3> QED
      BY SMTT(30), <3>1, <3>2, <2>2
  <2> QED
    BY SMTT(30), <2>1, <2>5, <1>1
<1>3. CASE SetSync(d)
  BY SMTT(30), <1>1, <1>3 DEF SetSync
<1> QED
  BY <1>2, <1>3

(* No step makes the pool forget: one step per action. *)
LEMMA NextInv == IInv /\ [Next]_vars => IInv'
<1> SUFFICES ASSUME IInv, [Next]_vars PROVE IInv'
  OBVIOUS
<1> USE DEF IInv, TypeInv
<1>1. ASSUME NEW t \in Adders, NEW e \in Evs, AddEvidence(t, e) PROVE IInv'
  <2>1. InBlocks' = InBlocks /\ UNCHANGED <<db, unsynced, blocks, commit>>
    BY <1>1 DEF AddEvidence, InBlocks
  <2>2. adder' = [adder EXCEPT ![t] = [pc |-> "out", ev |-> e]]
    BY <1>1 DEF AddEvidence
  <2> QED
    BY <2>1, <2>2
<1>2. ASSUME NEW t \in Adders, SetOutqueue(t) PROVE IInv'
  <2> DEFINE d == [db EXCEPT !.out = @ \union {<<adder[t].ev, Power[adder[t].ev]>>}]
  <2>1. adder[t].ev \in Evs
    BY <1>2 DEF SetOutqueue, Step
  <2>2. d \in Databases /\ d.pending = db.pending /\ Remembers(d, InBlocks)
    <3>1. <<adder[t].ev, Power[adder[t].ev]>> \in Evs \X {Power[e] : e \in Evs}
      BY <2>1
    <3>2. d.out = db.out \union {<<adder[t].ev, Power[adder[t].ev]>>} /\ d.lookup = db.lookup
          /\ d.pending = db.pending
      BY DEF Databases
    <3>3. d.out \in SUBSET (Evs \X {Power[e] : e \in Evs})
      BY <3>1, <3>2 DEF Databases
    <3> QED
      BY <3>2, <3>3 DEF Databases, Remembers
  <2>3. /\ db' = d /\ unsynced' \in Seq(Databases) /\ Remembers(db', InBlocks')
        /\ \A k \in 1 .. Len(unsynced') : Remembers(unsynced'[k], InBlocks')
    BY <1>2, <2>2, WriteKeeps DEF SetOutqueue
  <2>4. InBlocks' = InBlocks
    BY <1>2 DEF SetOutqueue, InBlocks
  <2> HIDE DEF d
  <2> QED
    BY <1>2, <2>1, <2>2, <2>3, <2>4 DEF SetOutqueue, Step
<1>3. ASSUME NEW t \in Adders, SetPending(t) PROVE IInv'
  <2> DEFINE d == [db EXCEPT !.pending = @ \union {adder[t].ev}]
  <2>1. adder[t].ev \in Evs
    BY <1>3 DEF SetPending, Step
  <2>2. d \in Databases /\ d.pending = db.pending \union {adder[t].ev} /\ Remembers(d, InBlocks)
    BY <2>1 DEF Databases, Remembers
  <2>3. /\ db' = d /\ unsynced' \in Seq(Databases) /\ Remembers(db', InBlocks')
        /\ \A k \in 1 .. Len(unsynced') : Remembers(unsynced'[k], InBlocks')
    BY <1>3, <2>2, WriteKeeps DEF SetPending
  <2>4. InBlocks' = InBlocks
    BY <1>3 DEF SetPending, InBlocks
  <2> HIDE DEF d
  <2> QED
    BY <1>3, <2>1, <2>2, <2>3, <2>4 DEF SetPending, Step
<1>4. ASSUME NEW t \in Adders, SetLookup(t) PROVE IInv'
  <2> DEFINE d == [db EXCEPT !.lookup[adder[t].ev] = "new"]
  <2>1. adder[t].ev \in Evs /\ adder[t].ev \in db.pending \union InBlocks
    BY <1>4 DEF SetLookup, Step
  <2>2. d \in Databases /\ d.pending = db.pending /\ Remembers(d, InBlocks)
    <3>1. d.pending = db.pending /\ d.lookup = [db.lookup EXCEPT ![adder[t].ev] = "new"]
      BY DEF Databases
    <3>2. [db.lookup EXCEPT ![adder[t].ev] = "new"] \in [Evs -> {Nil, "new", "committed"}]
      BY <2>1 DEF Databases
    <3>3. d \in Databases
      BY <3>1, <3>2 DEF Databases
    <3>4. \A f \in Evs : f # adder[t].ev => d.lookup[f] = db.lookup[f]
      BY <3>1, <2>1 DEF Databases
    <3> QED
      BY <3>1, <3>3, <3>4, <2>1 DEF Remembers
  <2>3. /\ db' = d /\ unsynced' \in Seq(Databases) /\ Remembers(db', InBlocks')
        /\ \A k \in 1 .. Len(unsynced') : Remembers(unsynced'[k], InBlocks')
    BY <1>4, <2>2, WriteKeeps DEF SetLookup
  <2>4. InBlocks' = InBlocks
    BY <1>4 DEF SetLookup, InBlocks
  <2> HIDE DEF d
  <2> QED
    BY <1>4, <2>1, <2>2, <2>3, <2>4 DEF SetLookup, Step
<1>5. ASSUME NEW t \in Adders, PushBack(t) PROVE IInv'
  <2>1. adder' = [adder EXCEPT ![t] = Idle] /\ UNCHANGED <<db, unsynced, blocks, commit>>
    BY <1>5 DEF PushBack, Step
  <2>2. InBlocks' = InBlocks
    BY <2>1 DEF InBlocks
  <2>3. \A u \in Adders : adder'[u] = IF u = t THEN Idle ELSE adder[u]
    BY <2>1
  <2>4. Idle \in [pc : {"idle", "out", "pending", "lookup", "push"}, ev : Evs \union {Nil}]
    BY SMTT(30) DEF Idle
  <2>5. /\ adder' \in [Adders -> [pc : {"idle", "out", "pending", "lookup", "push"},
                                 ev : Evs \union {Nil}]]
        /\ Idle.pc = "idle" /\ "idle" # "lookup"
    BY SMTT(30), <2>1, <2>4 DEF Idle
  <2> QED
    BY <2>1, <2>2, <2>3, <2>5
<1>6. CASE StoreBlock
  <2>1. PICK E \in SUBSET Evs : blocks' = Append(blocks, E) /\ commit' \in Orders(E)
    BY SMTT(30), <1>6, EvidenceAssumption DEF StoreBlock, PendingEvidence, Databases
  <2>2. blocks' \in Seq(SUBSET Evs) /\ InBlocks' = InBlocks \union E
    BY SMTT(30), <2>1, BlockAdds DEF InBlocks
  <2>3. commit' \in Seq(Evs) /\ \A i \in 1 .. Len(commit') : commit'[i] \in InBlocks'
    BY <2>1, <2>2, Enumerated, EvidenceAssumption
  <2> QED
    BY <1>6, <2>2, <2>3 DEF StoreBlock, Remembers
<1>7. CASE DeletePending
  <2> DEFINE e == Head(commit)
             d == [db EXCEPT !.out = MarkBroadcasted(Head(commit)), !.pending = @ \ {Head(commit)}]
  <2>1. e \in Evs /\ e \in InBlocks
    BY SMTT(30), <1>7 DEF DeletePending
  <2>2. d \in Databases /\ d.pending = db.pending \ {e} /\ Remembers(d, InBlocks)
    BY <2>1 DEF Databases, Remembers, MarkBroadcasted
  <2>3. /\ db' = d /\ unsynced' \in Seq(Databases) /\ Remembers(db', InBlocks')
        /\ \A k \in 1 .. Len(unsynced') : Remembers(unsynced'[k], InBlocks')
    BY <1>7, <2>2, WriteKeeps DEF DeletePending
  <2>4. InBlocks' = InBlocks
    BY <1>7 DEF DeletePending, InBlocks
  <2> HIDE DEF d, e
  <2> QED
    BY <1>7, <2>1, <2>2, <2>3, <2>4 DEF DeletePending
<1>8. CASE MarkCommitted
  <2> DEFINE e == Head(commit)
             d == [db EXCEPT !.lookup[Head(commit)] = "committed"]
  <2>1. e \in Evs /\ e \in InBlocks
    BY SMTT(30), <1>8 DEF MarkCommitted
  <2>2. d \in Databases /\ d.pending = db.pending /\ Remembers(d, InBlocks)
    <3>1. d.pending = db.pending /\ d.lookup = [db.lookup EXCEPT ![e] = "committed"]
      BY DEF Databases
    <3>2. [db.lookup EXCEPT ![e] = "committed"] \in [Evs -> {Nil, "new", "committed"}]
      BY <2>1 DEF Databases
    <3>3. d \in Databases
      BY <3>1, <3>2 DEF Databases
    <3>4. \A f \in Evs : f # e => d.lookup[f] = db.lookup[f]
      BY <3>1, <2>1 DEF Databases
    <3> QED
      BY <3>1, <3>3, <3>4, <2>1 DEF Remembers
  <2>3. /\ db' = d /\ unsynced' \in Seq(Databases) /\ Remembers(db', InBlocks')
        /\ \A k \in 1 .. Len(unsynced') : Remembers(unsynced'[k], InBlocks')
    BY <1>8, <2>2, WriteKeeps DEF MarkCommitted
  <2>4. InBlocks' = InBlocks
    BY <1>8 DEF MarkCommitted, InBlocks
  <2>5. commit' \in Seq(Evs) /\ \A i \in 1 .. Len(commit') : commit'[i] \in InBlocks'
    <3>1. commit \in Seq(Evs) /\ commit # <<>> /\ commit' = Tail(commit)
      BY <1>8 DEF MarkCommitted
    <3>2. commit' \in Seq(Evs) /\ Len(commit') = Len(commit) - 1 /\ Len(commit) \in Nat
      BY SMTT(30), <3>1
    <3>3. \A i \in 1 .. Len(commit') : commit'[i] = commit[i + 1] /\ i + 1 \in 1 .. Len(commit)
      BY SMTT(30), <3>1, <3>2
    <3>4. \A i \in 1 .. Len(commit) : commit[i] \in InBlocks
      BY <1>8 DEF MarkCommitted
    <3> QED
      BY <3>2, <3>3, <3>4, <2>4
  <2> HIDE DEF d, e
  <2> QED
    BY <1>8, <2>2, <2>3, <2>4, <2>5 DEF MarkCommitted
<1>9. CASE RemoveEvidence
  <2>1. UNCHANGED <<db, unsynced, blocks, adder>> /\ commit' = Nil
    BY <1>9 DEF RemoveEvidence, peer
  <2>2. InBlocks' = InBlocks
    BY <2>1 DEF InBlocks
  <2> QED
    BY <2>1, <2>2
<1>10. CASE Crash
  <2>1. PICK k \in 1 .. Len(unsynced) : db' = unsynced[k] /\ unsynced' = <<unsynced[k]>>
    BY <1>10 DEF Crash
  <2>2. unsynced[k] \in Databases /\ Remembers(unsynced[k], InBlocks)
    BY SMTT(30), <2>1
  <2>3. InBlocks' = InBlocks
    BY <1>10 DEF Crash, InBlocks
  <2> QED
    BY SMTT(30), <1>10, <2>1, <2>2, <2>3 DEF Crash, Idle
<1>11. CASE Start \/ Send \/ PeerMoves \/ UNCHANGED vars
  <2>1. UNCHANGED <<db, unsynced, blocks, adder, commit>>
    BY <1>11 DEF Start, Send, PeerMoves, pool, vars
  <2>2. InBlocks' = InBlocks
    BY <2>1 DEF InBlocks
  <2> QED
    BY <2>1, <2>2
<1> QED
  BY <1>1, <1>2, <1>3, <1>4, <1>5, <1>6, <1>7, <1>8, <1>9, <1>10, <1>11 DEF Next, Consensus

(* Accepted evidence is pending or in a block, for every value of the constants: the writes *)
(* of AddNewEvidence and MarkEvidenceAsCommitted are in an order that survives a crash      *)
(* between any two of them and the other's interleaving.                                    *)
THEOREM EvidenceRemembered == Spec => []NeverForgotten
<1>1. IInv => NeverForgotten
  BY DEF IInv, Remembers, NeverForgotten
<1> QED
  BY <1>1, InitInv, NextInv, PTL DEF Spec

-----------------------------------------------------------------------------
(* broadcastEvidenceRoutine *)

(* The elements of the list are pushed ones and the routine is at one of them.  What it has  *)
(* to go through is behind it, because elements are appended only.                           *)
SInv ==
  /\ pushed \in Seq(Evs) /\ list \subseteq 1 .. Len(pushed)
  /\ next \in 0 .. Len(pushed)
  /\ seen \in Nat
  /\ NothingSkipped

(* The routine goes on: everything up to where it was has been passed, and between there     *)
(* and where it goes nothing is on the list.                                                 *)
LEMMA SSend == ASSUME SInv, Send PROVE SInv'
<1>1. /\ next # 0 /\ UNCHANGED <<pushed, list, seen>>
      /\ got' = IF seen > EvHeight[pushed[next]] + MaxAge THEN got ELSE got \union {pushed[next]}
      /\ next' \in Following \union {0}
  BY DEF Send, pool
<1>2. next \in 1 .. Len(pushed) /\ Len(pushed) \in Nat
  BY SMTT(30), <1>1 DEF SInv
<1>3. got \subseteq got' /\ (pushed[next] \in got' \/ seen > EvHeight[pushed[next]] + MaxAge)
  BY <1>1
<1>4. next' \in 0 .. Len(pushed)
  BY SMTT(30), <1>1, <1>2 DEF Following
<1>5. ASSUME next' # 0, NEW i \in list, i < next'
      PROVE  pushed[i] \in got' \/ seen > EvHeight[pushed[i]] + MaxAge
  <2>1. i \in 1 .. Len(pushed) /\ next' \in Following
    BY <1>1, <1>5 DEF SInv
  <2>2. i < next \/ i = next \/ i \in next + 1 .. next' - 1
    <3>1. i \in Nat /\ next \in Nat /\ next' \in Nat
      BY SMTT(30), <1>2, <1>4, <2>1
    <3>2. i < next'
      BY <1>5
    <3>3. \A a, b, c \in Nat : a < c => a < b \/ a = b \/ a \in (b + 1) .. (c - 1)
      BY SMTT(30)
    <3> QED BY <3>1, <3>2, <3>3
  <2>3. i \notin next + 1 .. next' - 1
    BY <2>1, <1>5 DEF Following
  <2> QED BY <1>1, <1>3, <1>5, <2>2, <2>3 DEF SInv, NothingSkipped
<1>6. NothingSkipped'
  BY <1>1, <1>5 DEF NothingSkipped
<1> QED BY <1>1, <1>4, <1>6 DEF SInv

(* What the pool does to the list under the routine, and where the routine starts. *)
LEMMA SNext == IInv /\ SInv /\ [Next]_vars => SInv'
<1> SUFFICES ASSUME IInv, SInv, [Next]_vars PROVE SInv'
  OBVIOUS
<1>0. pushed \in Seq(Evs) /\ Len(pushed) \in Nat
  BY SMTT(30) DEF SInv
<1>1. CASE UNCHANGED <<list, next, pushed, seen, got>>
  BY <1>1 DEF SInv, NothingSkipped
<1>2. ASSUME NEW t \in Adders, PushBack(t) PROVE SInv'
  <2>1. /\ adder[t].ev \in Evs /\ UNCHANGED <<next, seen, got>>
        /\ list' = list \union {Len(pushed) + 1} /\ pushed' = Append(pushed, adder[t].ev)
    BY <1>2 DEF PushBack, Step, peer, IInv, TypeInv
  <2>2. pushed' \in Seq(Evs) /\ Len(pushed') = Len(pushed) + 1 /\ \A i \in 1 .. Len(pushed) : pushed'[i] = pushed[i]
    BY SMTT(30), <1>0, <2>1
  <2>3. list' \subseteq 1 .. Len(pushed') /\ next' \in 0 .. Len(pushed')
    <3>1. \A i \in 1 .. Len(pushed) : i \in 1 .. Len(pushed')
      BY SMTT(30), <1>0, <2>2
    <3>2. Len(pushed) + 1 \in 1 .. Len(pushed')
      BY SMTT(30), <1>0, <2>2
    <3>3. \A i \in 0 .. Len(pushed) : i \in 0 .. Len(pushed')
      BY SMTT(30), <1>0, <2>2
    <3> QED BY <2>1, <3>1, <3>2, <3>3 DEF SInv
  <2>4. \A i \in list' : i < next' => i \in list /\ pushed'[i] = pushed[i]
    BY SMTT(30), <1>0, <2>1, <2>2 DEF SInv
  <2>5. NothingSkipped'
    BY <2>1, <2>4 DEF SInv, NothingSkipped
  <2> QED BY <2>1, <2>2, <2>3, <2>5 DEF SInv
<1>3. CASE RemoveEvidence
  <2>1. list' \subseteq list /\ UNCHANGED <<pushed, next, seen, got>>
    BY <1>3 DEF RemoveEvidence, peer
  <2> QED BY <2>1 DEF SInv, NothingSkipped
<1>4. CASE Crash
  <2>1. list' = {} /\ next' = 0 /\ UNCHANGED <<pushed, seen, got>>
    BY <1>4 DEF Crash
  <2>2. next' \in 0 .. Len(pushed)
    BY SMTT(30), <1>0, <2>1
  <2> QED BY <2>1, <2>2 DEF SInv, NothingSkipped
<1>5. CASE Start
  <2>1. next' \in list /\ (\A j \in list : next' <= j) /\ UNCHANGED <<list, pushed, seen, got>>
    BY <1>5 DEF Start, pool
  <2>2. next' \in 0 .. Len(pushed) /\ \A j \in list : ~(j < next')
    BY SMTT(30), <1>0, <2>1 DEF SInv
  <2> QED BY <2>1, <2>2 DEF SInv, NothingSkipped
<1>6. CASE PeerMoves
  <2>1. seen' = seen + 1 /\ UNCHANGED <<list, pushed, next, got>>
    BY <1>6 DEF PeerMoves, pool
  <2>2. seen' \in Nat /\ \A e \in Evs : seen > EvHeight[e] + MaxAge => seen' > EvHeight[e] + MaxAge
    BY SMTT(30), <2>1, EvidenceAssumption DEF SInv
  <2>3. \A i \in list : pushed[i] \in Evs
    BY SMTT(30) DEF SInv
  <2> QED BY <2>1, <2>2, <2>3 DEF SInv, NothingSkipped
<1>7. ASSUME NEW t \in Adders, SetOutqueue(t) \/ SetPending(t) \/ SetLookup(t) PROVE SInv'
  BY <1>1, <1>7 DEF SetOutqueue, SetPending, SetLookup, peer
<1>8. ASSUME NEW t \in Adders, NEW e \in Evs, AddEvidence(t, e) PROVE SInv'
  BY <1>1, <1>8 DEF AddEvidence, peer
<1>9. CASE StoreBlock \/ DeletePending \/ MarkCommitted \/ UNCHANGED vars
  BY <1>1, <1>9 DEF StoreBlock, DeletePending, MarkCommitted, vars, peer
<1>10. CASE Send
  BY <1>10, SSend
<1> QED
  BY <1>2, <1>3, <1>4, <1>5, <1>6, <1>7, <1>8, <1>9, <1>10 DEF Next, Consensus

(* broadcastEvidenceRoutine passes over no evidence, for any evidence, ages, goroutines that *)
(* add to the list, and removals of elements, its own place included.                        *)
THEOREM BroadcastComplete == Spec => []NothingSkipped
<1>1. Init => SInv
  BY SMTT(30) DEF Init, SInv, NothingSkipped
<1>2. SInv => NothingSkipped
  BY DEF SInv
<1> QED
  BY <1>1, <1>2, InitInv, NextInv, SNext, PTL DEF Spec

----------------------------------------------------------------------------
(***************************************************************************)
(* The connections to the application (AppConns).  Over the local client   *)
(* only the holder of the mutex that all connections share is inside; the  *)
(* methods that do without the mutex (Flush, and Echo when it is           *)
(* synchronous) run no method of the application.                          *)
(***************************************************************************)

CONSTANTS Threads, ConnOf, Async, Transports, Workloads, MayPanic, None
VARIABLES transport, method, pc, holder, inApp, result, done, cb, called, told, running, err,
          notify, up

AC == INSTANCE AppConns

(* The instance counts as this module does. *)
LEMMA CardSame == ASSUME NEW S PROVE AC!Cardinality(S) = Cardinality(S)
  BY SMTT(30) DEF AC!Cardinality, Cardinality

\* No thread is mistaken for nobody.
ThreadsAssumption == None \notin Threads

Places == {"call", "lock", "app", "callback", "returned", "invoke", "stop", "finish", "error"}

(* The inductive invariant. *)
InsideHolds ==
  /\ pc \in [Threads -> Places]
  /\ inApp = [t \in Threads |-> inApp[t]]
  /\ holder = [c \in AC!Conns |-> holder[c]]
  /\ transport = "local" =>
       \A t \in Threads :
         /\ pc[t] \in {"call", "lock", "app", "callback", "returned"}
         /\ inApp[t] # None => holder[AC!Mutex] = t

(* The mutex is that of some connection. *)
LEMMA MutexIsOne == ASSUME NEW t \in Threads PROVE AC!Mutex \in AC!Conns
  BY DEF AC!Mutex, AC!Conns

LEMMA InsideInit == ThreadsAssumption /\ AC!Init => InsideHolds
  BY SMTT(30) DEF ThreadsAssumption, AC!Init, InsideHolds, Places

(* One step per action of a thread; the actions of the gRPC client do not happen here. *)
LEMMA InsideNext == ThreadsAssumption /\ InsideHolds /\ [AC!Next]_(AC!vars) => InsideHolds'
<1> SUFFICES ASSUME ThreadsAssumption, InsideHolds, [AC!Next]_(AC!vars) PROVE InsideHolds'
  OBVIOUS
<1> USE DEF InsideHolds, Places
<1>1. ASSUME NEW t \in Threads, AC!Begin(t) PROVE InsideHolds'
  BY <1>1 DEF AC!Begin
<1>2. ASSUME NEW t \in Threads, AC!Lock(t) PROVE InsideHolds'
  <2>1. CASE method[t] = "Flush" \/ (method[t] = "Echo" /\ t \notin Async)
    <3>1. AC!LocalMethod[method[t]] = None
      BY SMTT(30), <2>1 DEF AC!LocalMethod
    <3>2. pc' = [pc EXCEPT ![t] = "app"] /\ inApp' = [inApp EXCEPT ![t] = None]
          /\ UNCHANGED <<holder, transport>>
      BY <1>2, <2>1, <3>1 DEF AC!Lock
    <3> QED
      BY <3>2
  <2>2. CASE ~(method[t] = "Flush" \/ (method[t] = "Echo" /\ t \notin Async))
    <3>1. /\ pc' = [pc EXCEPT ![t] = "app"] /\ UNCHANGED transport
          /\ inApp' = [inApp EXCEPT ![t] = AC!LocalMethod[method[t]]]
          /\ holder[AC!Mutex] = None /\ holder' = [holder EXCEPT ![AC!Mutex] = t]
      BY <1>2, <2>2 DEF AC!Lock
    <3>2. AC!Mutex \in AC!Conns
      BY MutexIsOne
    <3>3. transport = "local" => \A u \in Threads : inApp[u] = None
      BY <3>1 DEF ThreadsAssumption
    <3>4. holder'[AC!Mutex] = t /\ holder' = [c \in AC!Conns |-> holder'[c]]
      BY <3>1, <3>2
    <3> QED
      BY <3>1, <3>3, <3>4
  <2> QED
    BY <2>1, <2>2
<1>3. ASSUME NEW t \in Threads, AC!LocalReturn(t) \/ AC!LocalPanic(t) PROVE InsideHolds'
  <2>1. /\ inApp' = [inApp EXCEPT ![t] = None] /\ UNCHANGED transport
        /\ holder' = [c \in AC!Conns |-> IF holder[c] = t THEN None ELSE holder[c]]
        /\ \/ pc' = [pc EXCEPT ![t] = "callback"]
           \/ pc' = [pc EXCEPT ![t] = "returned"]
    BY <1>3 DEF AC!LocalReturn, AC!LocalPanic, AC!Unlocked
  <2>2. AC!Mutex \in AC!Conns
    BY MutexIsOne
  <2> QED
    BY <2>1, <2>2
<1>4. ASSUME NEW t \in Threads,
             AC!Invoke(t) \/ AC!Answer(t) \/ AC!Fail(t) \/ AC!StopForError(t) \/ AC!FinishAsyncCall(t) \/ AC!Error(t)
      PROVE  InsideHolds'
  <2>1. transport # "local" /\ transport' = transport
    BY <1>4 DEF AC!Invoke, AC!Answer, AC!Fail, AC!StopForError, AC!FinishAsyncCall, AC!Error
  <2>2. /\ pc' \in [Threads -> Places] /\ inApp' = [u \in Threads |-> inApp'[u]]
        /\ holder' = [c \in AC!Conns |-> holder'[c]]
    BY <1>4 DEF AC!Invoke, AC!Answer, AC!Fail, AC!StopForError, AC!FinishAsyncCall, AC!Error, AC!asks
  <2> QED
    BY <2>1, <2>2
<1>5. ASSUME NEW t \in Threads, AC!SetCallback(t) PROVE InsideHolds'
  BY <1>5 DEF AC!SetCallback
<1>6. ASSUME NEW t \in Threads, AC!Notify(t) PROVE InsideHolds'
  BY <1>6 DEF AC!Notify
<1>7. CASE AC!Down \/ UNCHANGED AC!vars
  BY <1>7 DEF AC!Down, AC!vars
<1> QED
  BY <1>1, <1>2, <1>3, <1>4, <1>5, <1>6, <1>7 DEF AC!Next, AC!Steps

(* Over the local client no two threads are in the application at once, whatever the        *)
(* threads, the connections they use, what they call and where the application panics.      *)
THEOREM OneCallerAtATime == ThreadsAssumption => (AC!Spec => []AC!AppAlone)
<1> SUFFICES ASSUME ThreadsAssumption PROVE AC!Spec => []AC!AppAlone
  OBVIOUS
<1>1. AC!Init => InsideHolds
  BY InsideInit
<1>2. InsideHolds /\ [AC!Next]_(AC!vars) => InsideHolds'
  BY InsideNext
<1>3. InsideHolds => AC!AppAlone
  <2> SUFFICES ASSUME InsideHolds, transport = "local"
               PROVE  Cardinality({t \in Threads : inApp[t] # None}) <= 1
    BY CardSame DEF AC!AppAlone
  <2> DEFINE inside == {t \in Threads : inApp[t] # None}
  <2>1. inside \subseteq {holder[AC!Mutex]}
    BY DEF InsideHolds
  <2>2. IsFiniteSet({holder[AC!Mutex]}) /\ Cardinality({holder[AC!Mutex]}) = 1
    BY FS_Singleton
  <2>3. Cardinality(inside) <= Cardinality({holder[AC!Mutex]})
    BY <2>1, <2>2, FS_Subset
  <2> QED
    BY <2>2, <2>3
<1> QED
  BY <1>1, <1>2, <1>3, PTL DEF AC!Spec

----------------------------------------------------------------------------
(***************************************************************************)
(* What a call is answered with, and how often.  Of a thread only its own  *)
(* state matters, and whether its client is cut off: an error is not lost  *)
(* because it stays with the client (err), or because nobody gets past the *)
(* mutex of a client that stopped twice.                                   *)
(***************************************************************************)

AllMethods == {"Echo", "Flush", "Info", "SetOption", "DeliverTx", "CheckTx", "Query", "Commit",
               "InitChain", "BeginBlock", "EndBlock"}

\* The threads call methods that there are.
CallsAssumption == None \notin Threads /\ Workloads \subseteq [Threads -> AllMethods]

\* A record of an answer, right or marked as an error.
RightOrError(r, m) == r = [value |-> r.value, err |-> r.err] /\ (r.value = m \/ r.err = TRUE)

\* A thread that calls m and is at p, with result r, the done and cb of its ReqRes, callbacks
\* that ran (ca), notifications that ran (to) and that are pending (no); its client is cut off.
ThreadOK(t, m, p, r, d, b, ca, to, no, cut) ==
  /\ ca \in Nat /\ to \in Nat /\ no \in Nat /\ to + no <= 1 /\ b = FALSE
  /\ p \in {"call", "lock", "app", "invoke", "stop", "finish"} => ca = 0 /\ to + no = 0
  /\ p \in {"call", "lock", "app", "invoke"} => r = None
  /\ p \in {"stop", "finish", "error", "callback"} => RightOrError(r, m)
  /\ p \in {"finish", "error"} => r.value = m \/ cut
  /\ p = "callback" => d = TRUE /\ ca = 0
  /\ p = "error" => t \notin Async
  /\ p = "returned" => r = None \/ (RightOrError(r, m) /\ (t \in Async => ca = 1))

Cut(t) == err[ConnOf[t]] = TRUE \/ holder[ConnOf[t]] # None

(* The inductive invariant, with the types it needs. *)
Ledger ==
  /\ method \in [Threads -> AllMethods]
  /\ result = [t \in Threads |-> result[t]] /\ done = [t \in Threads |-> done[t]]
  /\ cb = [t \in Threads |-> cb[t]] /\ called = [t \in Threads |-> called[t]]
  /\ told = [t \in Threads |-> told[t]] /\ notify = [t \in Threads |-> notify[t]]
  /\ err = [c \in AC!Conns |-> err[c]]
  /\ \A t \in Threads : inApp[t] \in {None, method[t]}
  /\ \A t \in Threads :
       ThreadOK(t, method[t], pc[t], result[t], done[t], cb[t], called[t], told[t], notify[t], Cut(t))

(* Every stub names the handler of its own method. *)
LEMMA StubMeetsHandler == ASSUME NEW m \in AllMethods PROVE AC!Handler(AC!FullMethod[m]) = m
<1>1. ASSUME NEW n, NEW h, <<n, h>> \in AC!ServiceDesc,
             \A d \in AC!ServiceDesc : d[1] = n => d = <<n, h>>
      PROVE  AC!Handler(n) = h
  <2>1. PICK d \in AC!ServiceDesc : d[1] = n /\ AC!Handler(n) = d[2]
    BY <1>1 DEF AC!Handler
  <2>2. d = <<n, h>>
    BY <1>1, <2>1
  <2>. QED
    BY SMTT(30), <2>1, <2>2
<1>2. <<AC!FullMethod[m], m>> \in AC!ServiceDesc
  BY SMTT(30) DEF AllMethods, AC!FullMethod, AC!ServiceDesc
<1>3. ASSUME NEW d \in AC!ServiceDesc, d[1] = AC!FullMethod[m] PROVE d = <<AC!FullMethod[m], m>>
  BY SMTT(30), <1>3 DEF AllMethods, AC!FullMethod, AC!ServiceDesc
<1>. QED
  BY <1>1, <1>2, <1>3

(* Both ways the application method that runs is the one called, or none. *)
LEMMA MethodsKept ==
  ASSUME NEW m \in AllMethods
  PROVE  /\ AC!LocalMethod[m] \in {None, m}
         /\ AC!WrappedMethod[AC!Handler(AC!FullMethod[m])] \in {None, m}
<1>1. AC!LocalMethod[m] \in {None, m} /\ AC!WrappedMethod[m] \in {None, m}
  BY SMTT(30) DEF AllMethods, AC!LocalMethod, AC!WrappedMethod
<1>. QED
  BY <1>1, StubMeetsHandler

LEMMA LedgerInit == CallsAssumption /\ AC!Init => Ledger
<1> SUFFICES ASSUME CallsAssumption, AC!Init PROVE Ledger
  OBVIOUS
<1>1. ASSUME NEW t \in Threads
      PROVE  ThreadOK(t, method[t], "call", None, FALSE, FALSE, 0, 0, 0, Cut(t))
  BY SMTT(30) DEF ThreadOK
<1>. QED
  BY <1>1 DEF CallsAssumption, AC!Init, Ledger


\* A step of thread t: the state of the other threads rests.
Alone(t) ==
  /\ method' = method
  /\ result' = [u \in Threads |-> result'[u]] /\ done' = [u \in Threads |-> done'[u]]
  /\ cb' = [u \in Threads |-> cb'[u]] /\ called' = [u \in Threads |-> called'[u]]
  /\ told' = [u \in Threads |-> told'[u]] /\ notify' = [u \in Threads |-> notify'[u]]
  /\ err' = [c \in AC!Conns |-> err'[c]]
  /\ \A u \in Threads \ {t} :
       /\ inApp'[u] = inApp[u] /\ pc'[u] = pc[u] /\ result'[u] = result[u] /\ done'[u] = done[u]
       /\ cb'[u] = cb[u] /\ called'[u] = called[u] /\ told'[u] = told[u] /\ notify'[u] = notify[u]

(* Then it is enough to look at that thread, and that no client is whole again. *)
LEMMA OneMoves ==
  ASSUME Ledger, NEW t \in Threads, Alone(t), inApp'[t] \in {None, method[t]},
         \A u \in Threads : pc[u] \in {"finish", "error"} /\ Cut(u) => Cut(u)',
         ThreadOK(t, method[t], pc'[t], result'[t], done'[t], cb'[t], called'[t], told'[t],
                  notify'[t], Cut(t)')
  PROVE  Ledger'
<1>1. ASSUME NEW u \in Threads
      PROVE  ThreadOK(u, method'[u], pc'[u], result'[u], done'[u], cb'[u], called'[u], told'[u],
                      notify'[u], Cut(u)')
  <2>1. CASE u = t
    BY <2>1 DEF Alone
  <2>2. CASE u # t
    <3>1. ThreadOK(u, method'[u], pc'[u], result'[u], done'[u], cb'[u], called'[u], told'[u],
                   notify'[u], Cut(u))
      BY <2>2 DEF Alone, Ledger
    <3>2. pc'[u] \in {"finish", "error"} /\ Cut(u) => Cut(u)'
      BY <2>2 DEF Alone
    <3>. HIDE DEF Cut
    <3>. QED
      BY <3>1, <3>2 DEF ThreadOK
  <2>. QED
    BY <2>1, <2>2
<1>2. ASSUME NEW u \in Threads PROVE inApp'[u] \in {None, method'[u]}
  <2>1. CASE u = t
    BY <2>1 DEF Alone
  <2>2. CASE u # t
    BY <2>2 DEF Alone, Ledger
  <2>. QED
    BY <2>1, <2>2
<1>. HIDE DEF Cut
<1>3. method' \in [Threads -> AllMethods]
  BY DEF Alone, Ledger
<1>. QED
  BY <1>1, <1>2, <1>3 DEF Alone, Ledger

(* Cut survives what leaves err and holder alone. *)
LEMMA CutKept == ASSUME UNCHANGED <<err, holder>> PROVE \A u \in Threads : Cut(u) => Cut(u)'
  BY DEF Cut

LEMMA ConnIsOne == ASSUME NEW t \in Threads PROVE ConnOf[t] \in AC!Conns
  BY DEF AC!Conns


(* One step per action of a thread. *)
LEMMA LedgerBegin ==
  ASSUME InsideHolds, Ledger, NEW t \in Threads, AC!Begin(t) PROVE Ledger'
<1>1. /\ Alone(t) /\ UNCHANGED <<err, holder, result, done, cb, called, told, notify, inApp>>
      /\ pc[t] = "call" /\ (pc'[t] \in {"lock", "invoke"} \/ (pc'[t] = "returned" /\ t \notin Async))
  BY DEF AC!Begin, AC!asks, AC!client, Alone, InsideHolds, Ledger
<1>2. ThreadOK(t, method[t], pc[t], result[t], done[t], cb[t], called[t], told[t], notify[t], Cut(t))
      /\ inApp'[t] \in {None, method[t]}
  BY <1>1 DEF Ledger
<1>3. ThreadOK(t, method[t], pc'[t], result[t], done[t], cb[t], called[t], told[t], notify[t], Cut(t))
  BY SMTT(30), <1>1, <1>2 DEF ThreadOK
<1>4. Cut(t)' = Cut(t)
  BY <1>1 DEF Cut
<1>. QED
  BY <1>1, <1>2, <1>3, <1>4, CutKept, OneMoves

LEMMA LedgerLock ==
  ASSUME None \notin Threads, InsideHolds, Ledger, NEW t \in Threads, AC!Lock(t) PROVE Ledger'
<1>1. /\ Alone(t) /\ UNCHANGED <<err, result, done, cb, called, told, notify>>
      /\ pc[t] = "lock" /\ pc'[t] = "app" /\ inApp'[t] = AC!LocalMethod[method[t]]
  BY DEF AC!Lock, AC!asks, AC!client, Alone, InsideHolds, Ledger
<1>2. ThreadOK(t, method[t], pc[t], result[t], done[t], cb[t], called[t], told[t], notify[t], Cut(t))
      /\ method[t] \in AllMethods
  BY DEF Ledger
<1>3. inApp'[t] \in {None, method[t]}
  BY <1>1, <1>2, MethodsKept
<1>4. ThreadOK(t, method[t], pc'[t], result[t], done[t], cb[t], called[t], told[t], notify[t], Cut(t)')
  BY SMTT(30), <1>1, <1>2 DEF ThreadOK
<1>5. ASSUME NEW u \in Threads, Cut(u) PROVE Cut(u)'
  <2>1. holder[ConnOf[u]] # None => holder'[ConnOf[u]] # None
    BY ConnIsOne, MutexIsOne DEF AC!Lock, InsideHolds
  <2>. QED
    BY <1>1, <1>5, <2>1 DEF Cut
<1>. QED
  BY <1>1, <1>3, <1>4, <1>5, OneMoves

LEMMA LedgerLocal ==
  ASSUME InsideHolds, Ledger, NEW t \in Threads, AC!LocalReturn(t) \/ AC!LocalPanic(t) PROVE Ledger'
<1>1. transport = "local" /\ pc[t] = "app" /\ UNCHANGED <<err, notify, method>>
  BY DEF AC!LocalReturn, AC!LocalPanic, AC!asks, AC!client
<1>2. \A u \in Threads : pc[u] \in {"call", "lock", "app", "callback", "returned"}
  BY <1>1 DEF InsideHolds
<1>3. ThreadOK(t, method[t], "app", result[t], done[t], cb[t], called[t], told[t], notify[t], Cut(t))
  BY <1>1 DEF Ledger
<1>4. CASE AC!LocalPanic(t)
  <2>1. /\ Alone(t) /\ UNCHANGED <<result, done, cb, called, told>>
        /\ pc'[t] = "returned" /\ inApp'[t] = None
    BY <1>4 DEF AC!LocalPanic, AC!asks, AC!client, Alone, InsideHolds, Ledger
  <2>2. ThreadOK(t, method[t], pc'[t], result[t], done[t], cb[t], called[t], told[t], notify[t], Cut(t)')
    BY SMTT(30), <1>3, <2>1 DEF ThreadOK
  <2>. QED
    BY <1>1, <1>2, <2>1, <2>2, OneMoves
<1>5. CASE AC!LocalReturn(t)
  <2> DEFINE r == [value |-> method[t], err |-> FALSE]
  <2>1. /\ Alone(t) /\ UNCHANGED <<cb, called>> /\ inApp'[t] = None
        /\ result'[t] = [value |-> IF inApp[t] = None THEN method[t] ELSE inApp[t], err |-> FALSE]
        /\ \/ /\ t \in Async /\ pc'[t] = "callback" /\ done'[t] = TRUE
              /\ told'[t] = IF method[t] = "Flush" THEN told[t] ELSE told[t] + 1
           \/ t \notin Async /\ pc'[t] = "returned" /\ done' = done /\ told' = told
    BY <1>5 DEF AC!LocalReturn, AC!client, Alone, InsideHolds, Ledger
  <2>2. result'[t] = r
    BY <2>1 DEF Ledger
  <2>3. RightOrError(r, method[t])
    BY DEF RightOrError
  <2>4. /\ called[t] = 0 /\ told[t] + notify[t] = 0 /\ told[t] \in Nat /\ notify[t] \in Nat
        /\ cb[t] = FALSE
    BY <1>3 DEF ThreadOK
  <2>5. told'[t] \in Nat /\ told'[t] + notify[t] <= 1 /\ 0 \in Nat
    BY SMTT(30), <2>1, <2>4
  <2>6. ThreadOK(t, method[t], pc'[t], result'[t], done'[t], cb[t], called[t], told'[t], notify[t], Cut(t)')
    BY <2>1, <2>2, <2>3, <2>4, <2>5 DEF ThreadOK
  <2>. QED
    BY <1>1, <1>2, <2>1, <2>6, OneMoves
<1>. QED
  BY <1>4, <1>5

LEMMA LedgerInvoke ==
  ASSUME InsideHolds, Ledger, NEW t \in Threads, AC!Invoke(t) PROVE Ledger'
<1>1. /\ Alone(t) /\ UNCHANGED <<err, holder, result, done, cb, called, told, notify>>
      /\ pc[t] = "invoke" /\ pc'[t] = "app"
      /\ inApp'[t] = AC!WrappedMethod[AC!Handler(AC!FullMethod[method[t]])]
  BY DEF AC!Invoke, AC!asks, AC!client, Alone, InsideHolds, Ledger
<1>2. ThreadOK(t, method[t], pc[t], result[t], done[t], cb[t], called[t], told[t], notify[t], Cut(t))
      /\ method[t] \in AllMethods
  BY DEF Ledger
<1>3. inApp'[t] \in {None, method[t]}
  BY <1>1, <1>2, MethodsKept
<1>4. ThreadOK(t, method[t], pc'[t], result[t], done[t], cb[t], called[t], told[t], notify[t], Cut(t)')
  BY SMTT(30), <1>1, <1>2 DEF ThreadOK
<1>. QED
  BY <1>1, <1>3, <1>4, CutKept, OneMoves

LEMMA RightRecords ==
  ASSUME NEW m, NEW v
  PROVE  /\ RightOrError([value |-> m, err |-> FALSE], m) /\ [value |-> m, err |-> FALSE].value = m
         /\ RightOrError([value |-> v, err |-> TRUE], m)
  BY DEF RightOrError

LEMMA LedgerAnswer ==
  ASSUME InsideHolds, Ledger, NEW t \in Threads, AC!Answer(t) PROVE Ledger'
<1>1. /\ Alone(t) /\ UNCHANGED <<err, holder, done, cb, called, told, notify>>
      /\ pc[t] = "app" /\ inApp'[t] = None /\ pc'[t] = "finish"
      /\ result'[t] = [value |-> IF inApp[t] = None THEN AC!Handler(AC!FullMethod[method[t]])
                                                    ELSE inApp[t], err |-> FALSE]
  BY DEF AC!Answer, AC!asks, AC!client, Alone, InsideHolds, Ledger
<1>2. /\ ThreadOK(t, method[t], pc[t], result[t], done[t], cb[t], called[t], told[t], notify[t], Cut(t))
      /\ method[t] \in AllMethods /\ inApp[t] \in {None, method[t]}
  BY DEF Ledger
<1>3. result'[t] = [value |-> method[t], err |-> FALSE]
  BY <1>1, <1>2, StubMeetsHandler
<1>4. RightOrError(result'[t], method[t]) /\ result'[t].value = method[t]
  BY <1>3, RightRecords
<1>5. ThreadOK(t, method[t], pc'[t], result'[t], done[t], cb[t], called[t], told[t], notify[t], Cut(t)')
  BY <1>1, <1>2, <1>4 DEF ThreadOK
<1>. QED
  BY <1>1, <1>5, CutKept, OneMoves

LEMMA LedgerFail ==
  ASSUME InsideHolds, Ledger, NEW t \in Threads, AC!Fail(t) PROVE Ledger'
<1>1. /\ Alone(t) /\ UNCHANGED <<err, holder, done, cb, called, told, notify>>
      /\ pc[t] \in {"invoke", "app"} /\ inApp'[t] = None /\ pc'[t] = "stop"
      /\ result'[t] = [value |-> None, err |-> TRUE]
  BY DEF AC!Fail, AC!asks, AC!client, Alone, InsideHolds, Ledger
<1>2. ThreadOK(t, method[t], pc[t], result[t], done[t], cb[t], called[t], told[t], notify[t], Cut(t))
  BY DEF Ledger
<1>3. RightOrError(result'[t], method[t])
  BY <1>1, RightRecords
<1>4. ThreadOK(t, method[t], pc'[t], result'[t], done[t], cb[t], called[t], told[t], notify[t], Cut(t)')
  BY <1>1, <1>2, <1>3 DEF ThreadOK
<1>. QED
  BY <1>1, <1>4, CutKept, OneMoves

LEMMA LedgerStop ==
  ASSUME None \notin Threads, InsideHolds, Ledger, NEW t \in Threads, AC!StopForError(t) PROVE Ledger'
<1>1. /\ Alone(t) /\ UNCHANGED <<inApp, result, done, cb, called, told, notify>>
      /\ pc[t] = "stop" /\ pc'[t] = "finish"
  BY DEF AC!StopForError, AC!asks, Alone, InsideHolds, Ledger
<1>2. /\ ThreadOK(t, method[t], pc[t], result[t], done[t], cb[t], called[t], told[t], notify[t], Cut(t))
      /\ inApp[t] \in {None, method[t]}
  BY DEF Ledger
<1>3. ConnOf[t] \in AC!Conns
  BY ConnIsOne
<1>4. \/ err' = [err EXCEPT ![ConnOf[t]] = TRUE] /\ holder' = holder
      \/ holder[ConnOf[t]] = None /\ holder' = [holder EXCEPT ![ConnOf[t]] = t] /\ err' = err
  BY DEF AC!StopForError
<1>a. holder = [c \in AC!Conns |-> holder[c]] /\ err = [c \in AC!Conns |-> err[c]]
  BY DEF InsideHolds, Ledger
<1>5. Cut(t)'
  BY <1>3, <1>4, <1>a DEF Cut
<1>6. ASSUME NEW u \in Threads, Cut(u) PROVE Cut(u)'
  <2>1. ConnOf[u] \in AC!Conns
    BY ConnIsOne
  <2>. QED
    BY <1>3, <1>4, <1>6, <1>a, <2>1 DEF Cut
<1>7. ThreadOK(t, method[t], pc'[t], result[t], done[t], cb[t], called[t], told[t], notify[t], Cut(t)')
  BY <1>1, <1>2, <1>5 DEF ThreadOK
<1>. QED
  BY <1>1, <1>2, <1>6, <1>7, OneMoves

LEMMA LedgerFinish ==
  ASSUME InsideHolds, Ledger, NEW t \in Threads, AC!FinishAsyncCall(t) PROVE Ledger'
<1>1. /\ Alone(t) /\ UNCHANGED <<err, holder, inApp, result, cb, called, told>>
      /\ pc[t] = "finish" /\ done'[t] = TRUE /\ notify'[t] = notify[t] + 1
      /\ (pc'[t] = "callback" \/ (pc'[t] = "error" /\ t \notin Async))
  BY DEF AC!FinishAsyncCall, Alone, InsideHolds, Ledger
<1>2. /\ ThreadOK(t, method[t], pc[t], result[t], done[t], cb[t], called[t], told[t], notify[t], Cut(t))
      /\ inApp[t] \in {None, method[t]}
  BY DEF Ledger
<1>3. told[t] \in Nat /\ notify[t] \in Nat /\ told[t] + notify[t] = 0
  BY <1>1, <1>2 DEF ThreadOK
<1>4. notify'[t] \in Nat /\ told[t] + notify'[t] <= 1
  BY SMTT(30), <1>1, <1>3
<1>5. Cut(t)' = Cut(t)
  BY <1>1 DEF Cut
<1>6. ThreadOK(t, method[t], pc'[t], result[t], done'[t], cb[t], called[t], told[t], notify'[t], Cut(t)')
  BY <1>1, <1>2, <1>4, <1>5 DEF ThreadOK
<1>. QED
  BY <1>1, <1>2, <1>6, CutKept, OneMoves

LEMMA LedgerNotify ==
  ASSUME InsideHolds, Ledger, NEW t \in Threads, AC!Notify(t) PROVE Ledger'
<1>1. ThreadOK(t, method[t], pc[t], result[t], done[t], cb[t], called[t], told[t], notify[t], Cut(t))
  BY DEF Ledger
<1>2. cb[t] = FALSE /\ inApp[t] \in {None, method[t]}
  BY <1>1 DEF ThreadOK, Ledger
<1>3. /\ Alone(t) /\ UNCHANGED <<err, holder, inApp, result, done, cb, pc>> /\ called'[t] = called[t]
      /\ notify[t] > 0 /\ notify'[t] = notify[t] - 1 /\ told'[t] = told[t] + 1
  BY <1>2 DEF AC!Notify, Alone, InsideHolds, Ledger
<1>4. told[t] \in Nat /\ notify[t] \in Nat /\ told[t] + notify[t] <= 1
  BY <1>1 DEF ThreadOK
<1>5. told'[t] \in Nat /\ notify'[t] \in Nat /\ told'[t] + notify'[t] <= 1 /\ told[t] + notify[t] # 0
  BY SMTT(30), <1>3, <1>4
<1>6. Cut(t)' = Cut(t)
  BY <1>3 DEF Cut
<1>7. ThreadOK(t, method[t], pc'[t], result'[t], done'[t], cb'[t], called'[t], told'[t], notify'[t], Cut(t)')
  BY <1>1, <1>3, <1>5, <1>6 DEF ThreadOK
<1>. QED
  BY <1>2, <1>3, <1>7, CutKept, OneMoves

LEMMA LedgerError ==
  ASSUME InsideHolds, Ledger, NEW t \in Threads, AC!Error(t) PROVE Ledger'
<1>1. /\ Alone(t) /\ UNCHANGED <<err, holder, inApp, done, cb, called, told, notify>>
      /\ pc[t] = "error" /\ pc'[t] = "returned" /\ holder[ConnOf[t]] = None
      /\ result'[t] = [result[t] EXCEPT !.err = err[ConnOf[t]]]
  BY DEF AC!Error, AC!client, Alone, InsideHolds, Ledger
<1>2. /\ ThreadOK(t, method[t], pc[t], result[t], done[t], cb[t], called[t], told[t], notify[t], Cut(t))
      /\ inApp[t] \in {None, method[t]}
  BY DEF Ledger
<1>3. /\ result[t] = [value |-> result[t].value, err |-> result[t].err] /\ t \notin Async
      /\ (result[t].value = method[t] \/ err[ConnOf[t]] = TRUE)
  BY <1>1, <1>2 DEF ThreadOK, RightOrError, Cut
<1>4. RightOrError(result'[t], method[t])
  <2>1. result'[t] = [value |-> result[t].value, err |-> err[ConnOf[t]]]
    BY SMTT(30), <1>1, <1>3
  <2>. QED
    BY SMTT(30), <1>3, <2>1 DEF RightOrError
<1>5. ThreadOK(t, method[t], pc'[t], result'[t], done[t], cb[t], called[t], told[t], notify[t], Cut(t)')
  BY <1>1, <1>2, <1>3, <1>4 DEF ThreadOK
<1>. QED
  BY <1>1, <1>2, <1>5, CutKept, OneMoves

LEMMA LedgerCallback ==
  ASSUME InsideHolds, Ledger, NEW t \in Threads, AC!SetCallback(t) PROVE Ledger'
<1>1. /\ ThreadOK(t, method[t], pc[t], result[t], done[t], cb[t], called[t], told[t], notify[t], Cut(t))
      /\ inApp[t] \in {None, method[t]} /\ pc[t] = "callback"
  BY DEF Ledger, AC!SetCallback
<1>2. done[t] = TRUE /\ called[t] = 0
  BY <1>1 DEF ThreadOK
<1>a. called' = [called EXCEPT ![t] = called[t] + 1] /\ cb' = cb
  BY <1>2 DEF AC!SetCallback
<1>3. /\ Alone(t) /\ UNCHANGED <<err, holder, inApp, result, done, cb, told, notify>>
      /\ pc'[t] = "returned" /\ called'[t] = called[t] + 1
  BY <1>a DEF AC!SetCallback, AC!client, Alone, InsideHolds, Ledger
<1>4. called'[t] = 1 /\ called'[t] \in Nat
  BY SMTT(30), <1>2, <1>3
<1>5. ThreadOK(t, method[t], pc'[t], result[t], done[t], cb[t], called'[t], told[t], notify[t], Cut(t)')
  BY <1>1, <1>3, <1>4 DEF ThreadOK
<1>. QED
  BY <1>1, <1>3, <1>5, CutKept, OneMoves

LEMMA LedgerNext == CallsAssumption /\ InsideHolds /\ Ledger /\ [AC!Next]_(AC!vars) => Ledger'
<1> SUFFICES ASSUME None \notin Threads, InsideHolds, Ledger, [AC!Next]_(AC!vars) PROVE Ledger'
  BY DEF CallsAssumption
<1>1. CASE UNCHANGED <<method, pc, holder, inApp, result, done, cb, called, told, err, notify>>
  BY <1>1 DEF Ledger, Cut
<1>2. CASE AC!Down
  BY <1>1, <1>2 DEF AC!Down, AC!asks, AC!client
<1>3. CASE UNCHANGED AC!vars
  BY <1>1, <1>3 DEF AC!vars
<1>4. ASSUME NEW t \in Threads, AC!Begin(t) \/ AC!Steps(t) \/ AC!Notify(t) PROVE Ledger'
  BY <1>4, LedgerBegin, LedgerLock, LedgerLocal, LedgerInvoke, LedgerAnswer, LedgerFail, LedgerStop,
     LedgerFinish, LedgerNotify, LedgerError, LedgerCallback DEF AC!Steps
<1>. QED
  BY <1>2, <1>3, <1>4 DEF AC!Next

(* What a call returns without an error is what the application's method of that name       *)
(* returned to it, by whichever client, stub, handler and wrapper it went, and an error is   *)
(* not lost between StopForError and Error; the callback of an asynchronous call runs once,  *)
(* by SetCallback or by the goroutine of finishAsyncCall, and so does the client's own.      *)
THEOREM AnsweredRight == CallsAssumption => (AC!Spec => []AC!AnsweredOnce)
<1> SUFFICES ASSUME CallsAssumption PROVE AC!Spec => []AC!AnsweredOnce
  OBVIOUS
<1>1. InsideHolds /\ Ledger => AC!AnsweredOnce
  <2> SUFFICES ASSUME InsideHolds, Ledger, NEW t \in Threads, result[t] # None
               PROVE  /\ ~result[t].err => result[t].value = method[t]
                      /\ t \in Async /\ pc[t] = "returned" /\ notify[t] = 0 => called[t] = 1
                      /\ told[t] <= 1
    BY DEF AC!AnsweredOnce
  <2>1. /\ ThreadOK(t, method[t], pc[t], result[t], done[t], cb[t], called[t], told[t], notify[t], Cut(t))
        /\ pc[t] \in Places
    BY DEF Ledger, InsideHolds
  <2>2. RightOrError(result[t], method[t]) /\ (pc[t] = "returned" /\ t \in Async => called[t] = 1)
    BY <2>1 DEF ThreadOK, Places
  <2>3. told[t] \in Nat /\ notify[t] \in Nat /\ told[t] + notify[t] <= 1
    BY <2>1 DEF ThreadOK
  <2>4. told[t] <= 1
    BY SMTT(30), <2>3
  <2>. QED
    BY <2>2, <2>4 DEF RightOrError
<1>2. AC!Init => InsideHolds /\ Ledger
  BY InsideInit, LedgerInit DEF CallsAssumption, ThreadsAssumption
<1>3. InsideHolds /\ Ledger /\ [AC!Next]_(AC!vars) => InsideHolds' /\ Ledger'
  BY InsideNext, LedgerNext DEF CallsAssumption, ThreadsAssumption
<1>. QED
  BY <1>1, <1>2, <1>3, PTL DEF AC!Spec
=============================================================================
