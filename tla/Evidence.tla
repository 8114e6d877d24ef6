------------------------------ MODULE Evidence ------------------------------
(***************************************************************************)
(* The evidence of double signing a node keeps (evidence/): the pool, its  *)
(* store with the three kinds of keys, and the reactor that takes evidence *)
(* from peers and sends it to them.                                        *)
(*                                                                         *)
(* A peer's receive routine and the consensus add evidence while the       *)
(* consensus commits blocks.  The node may crash: of the writes that were  *)
(* not synced a prefix survives, the list to broadcast is lost, and the    *)
(* handshake applies a stored block without the pool (MockEvidencePool).   *)
(***************************************************************************)
EXTENDS Integers, Sequences, FiniteSets

CONSTANTS Evs,         \* the evidence, by hash
          EvHeight,    \* evidence -> Height()
          Power,       \* evidence -> voting power of its validator there, 0 if it is none
          Genuine,     \* the evidence whose votes verify
          Adders,      \* the goroutines that add evidence
          MaxAge, MaxNum,
          MaxHeight, MaxCrashes,   \* bounds
          Nil

\* What is verified is evidence, and there is finitely much of it.
ASSUME EvidenceAssumption ==
  /\ Genuine \subseteq Evs /\ IsFiniteSet(Evs)
  /\ EvHeight \in [Evs -> Nat] /\ MaxAge \in Nat

VARIABLES db,       \* [out, pending : sets of evidence, lookup : evidence -> Nil, "new" or "committed"]
          unsynced, \* the states of the database since the last sync, the current one last
          list,     \* the elements of evidenceList, which are in the order of pushed
          state,    \* the height of evpool.state
          saved,    \* the height of the saved state
          blocks,   \* height -> the evidence of the block in the block store
          adder,    \* goroutine -> [pc, ev]
          commit,   \* the evidence of the last block the pool has still to mark; Nil when done
          next,     \* what broadcastEvidenceRoutine is at: an element of pushed, or 0 for nil
          pushed,   \* every element the list ever had, in order
          seen,     \* the height of the peer as the node knows it
          got,      \* the evidence the peer was sent
          crashes

vars == <<db, unsynced, list, state, saved, blocks, adder, commit, next, pushed, seen, got, crashes>>
pool == <<db, unsynced, list, state, saved, blocks, adder, commit, pushed, crashes>>
peer == <<next, seen, got>>

Idle == [pc |-> "idle", ev |-> Nil]
InBlocks == UNION {blocks[h] : h \in 1 .. Len(blocks)}

Set(d) == db' = d /\ unsynced' = Append(unsynced, d)
SetSync(d) == db' = d /\ unsynced' = <<d>>

-----------------------------------------------------------------------------
(* EvidencePool.AddEvidence *)

\* VerifyEvidence against the state of the pool; the validators of two more heights are known.
VerifyEvidence(e) ==
  /\ state - EvHeight[e] <= MaxAge
  /\ EvHeight[e] <= saved + 2
  /\ Power[e] > 0
  /\ e \in Genuine

\* Verified, and not seen before; otherwise nothing is done.
AddEvidence(t, e) ==
  /\ adder[t] = Idle
  /\ VerifyEvidence(e) /\ db.lookup[e] = Nil
  /\ adder' = [adder EXCEPT ![t] = [pc |-> "out", ev |-> e]]
  /\ UNCHANGED <<db, unsynced, list, state, saved, blocks, commit, pushed, crashes, peer>>

Step(t, from, to) ==
  /\ adder[t].pc = from
  /\ adder' = [adder EXCEPT ![t] = IF to = "idle" THEN Idle ELSE [@ EXCEPT !.pc = to]]

\* AddNewEvidence: the three keys, in this order.
SetOutqueue(t) ==
  /\ Step(t, "out", "pending")
  /\ Set([db EXCEPT !.out = @ \union {<<adder[t].ev, Power[adder[t].ev]>>}])
  /\ UNCHANGED <<list, state, saved, blocks, commit, pushed, crashes, peer>>
\* The lookup key first: the sync does not cover the pending key.
SetPending_Last(t) ==
  /\ Step(t, "pending", "lookup")
  /\ SetSync([db EXCEPT !.lookup[adder[t].ev] = "new"])
  /\ UNCHANGED <<list, state, saved, blocks, commit, pushed, crashes, peer>>
SetPending(t) ==
  /\ Step(t, "pending", "lookup")
  /\ Set([db EXCEPT !.pending = @ \union {adder[t].ev}])
  /\ UNCHANGED <<list, state, saved, blocks, commit, pushed, crashes, peer>>
SetLookup(t) ==
  /\ Step(t, "lookup", "push")
  /\ SetSync([db EXCEPT !.lookup[adder[t].ev] = "new"])
  /\ UNCHANGED <<list, state, saved, blocks, commit, pushed, crashes, peer>>
PushBack(t) ==
  /\ Step(t, "push", "idle")
  /\ list' = list \union {Len(pushed) + 1} /\ pushed' = Append(pushed, adder[t].ev)
  /\ UNCHANGED <<db, unsynced, state, saved, blocks, commit, crashes, peer>>

-----------------------------------------------------------------------------
(* The consensus: a block is stored, then applied. *)

\* PendingEvidence(MaxNum): in the order of the heights.
PendingEvidence ==
  {S \in SUBSET db.pending :
     /\ Cardinality(S) = IF Cardinality(db.pending) < MaxNum THEN Cardinality(db.pending) ELSE MaxNum
     /\ \A e \in S, f \in db.pending \ S : EvHeight[e] <= EvHeight[f]}

\* The orders in which a block may list its evidence.
Orders(E) == {s \in [1 .. Cardinality(E) -> E] : \A e \in E : \E i \in DOMAIN s : s[i] = e}

\* A block of this node's with what is pending, or one of another's with evidence that is new.
\* validateBlock checks none of it; evpool.Update sets the state.
StoreBlock ==
  /\ commit = Nil /\ saved = Len(blocks) /\ Len(blocks) < MaxHeight
  /\ \E E \in PendingEvidence \union {{e} : e \in Genuine \ InBlocks} \union {{}} :
       blocks' = Append(blocks, E) /\ commit' \in Orders(E)
  /\ state' = Len(blocks')
  /\ UNCHANGED <<db, unsynced, list, saved, adder, pushed, crashes, peer>>

\* MarkEvidenceAsCommitted of the store: the priority is that of the lookup key.
MarkBroadcasted(e) ==
  IF db.lookup[e] = Nil THEN db.out
  ELSE db.out \ {<<e, IF db.lookup[e] = "new" THEN Power[e] ELSE 0>>}
DeletePending ==
  /\ commit \notin {Nil, <<>>} /\ (Head(commit) \in db.pending \/ MarkBroadcasted(Head(commit)) # db.out)
  /\ Set([db EXCEPT !.out = MarkBroadcasted(Head(commit)), !.pending = @ \ {Head(commit)}])
  /\ UNCHANGED <<list, state, saved, blocks, adder, commit, pushed, crashes, peer>>
MarkCommitted ==
  /\ commit \notin {Nil, <<>>} /\ Head(commit) \notin db.pending /\ MarkBroadcasted(Head(commit)) = db.out
  /\ SetSync([db EXCEPT !.lookup[Head(commit)] = "committed"])
  /\ commit' = Tail(commit)
  /\ UNCHANGED <<list, state, saved, blocks, adder, pushed, crashes, peer>>

\* removeEvidence, then SaveState: what is committed or too old leaves the list.
RemoveEvidence ==
  /\ commit = <<>> /\ commit' = Nil
  /\ list' = {i \in list : pushed[i] \notin blocks[state] /\ EvHeight[pushed[i]] >= state - MaxAge}
  /\ saved' = state
  /\ UNCHANGED <<db, unsynced, state, blocks, adder, pushed, crashes, peer>>

\* A crash, and the start after it: the handshake applies a block that was not.
Crash ==
  /\ crashes < MaxCrashes /\ crashes' = crashes + 1
  /\ \E k \in 1 .. Len(unsynced) : db' = unsynced[k] /\ unsynced' = <<unsynced[k]>>
  /\ list' = {} /\ next' = 0
  /\ adder' = [t \in Adders |-> Idle] /\ commit' = Nil
  /\ saved' = Len(blocks) /\ state' = Len(blocks)
  /\ UNCHANGED <<blocks, pushed, seen, got>>

-----------------------------------------------------------------------------
(* broadcastEvidenceRoutine of a peer *)

Start ==
  /\ next = 0
  /\ next' \in {i \in list : \A j \in list : i <= j}
  /\ UNCHANGED <<pool, seen, got>>

\* checkSendEvidenceMessage: wait for a peer that is behind, skip what is too old for it.  Then
\* on to the next element, which may have been removed since, or to the start when there is none.
Behind == seen < EvHeight[pushed[next]]
Following == {j \in next + 1 .. Len(pushed) : \A k \in next + 1 .. j - 1 : k \notin list}
\* A peer that is behind is not waited for.
Send_SkipsBehind ==
  /\ next # 0
  /\ got' = IF Behind \/ seen > EvHeight[pushed[next]] + MaxAge THEN got ELSE got \union {pushed[next]}
  /\ next' \in IF Following = {} THEN {0}
               ELSE IF next \in list THEN Following ELSE Following \union {0}
  /\ UNCHANGED <<pool, seen>>
Send ==
  /\ next # 0 /\ ~Behind
  /\ got' = IF seen > EvHeight[pushed[next]] + MaxAge THEN got ELSE got \union {pushed[next]}
  /\ next' \in IF Following = {} THEN {0}
               ELSE IF next \in list THEN Following ELSE Following \union {0}
  /\ UNCHANGED <<pool, seen>>

\* The peer's height as of its last NewRoundStep message.
PeerMoves ==
  /\ seen <= Len(blocks) /\ seen' = seen + 1
  /\ UNCHANGED <<pool, next, got>>

Init ==
  /\ db = [out |-> {}, pending |-> {}, lookup |-> [e \in Evs |-> Nil]] /\ unsynced = <<db>>
  /\ list = {} /\ pushed = <<>> /\ state = 0 /\ saved = 0 /\ blocks = <<>>
  /\ adder = [t \in Adders |-> Idle] /\ commit = Nil
  /\ next = 0 /\ seen = 0 /\ got = {} /\ crashes = 0

Consensus == StoreBlock \/ DeletePending \/ MarkCommitted \/ RemoveEvidence

Next ==
  \/ \E t \in Adders, e \in Evs : AddEvidence(t, e)
  \/ \E t \in Adders : SetOutqueue(t) \/ SetPending(t) \/ SetLookup(t) \/ PushBack(t)
  \/ Consensus \/ Crash
  \/ Start \/ Send \/ PeerMoves

Spec == Init /\ [][Next]_vars

-----------------------------------------------------------------------------
(* "Valid new evidence must be persisted immediately and never forgotten": what the lookup  *)
(* key knows, so that it is not taken again, is pending to be proposed or in a block, also  *)
(* after a crash between any two writes and when the block comes while it is being added.   *)
NeverForgotten == \A e \in Evs : db.lookup[e] # Nil => e \in db.pending \union InBlocks

(* The routine of the peer passes over nothing: what is on the list behind the element it    *)
(* is at was sent, or is too old for the peer, whatever was added to, or removed from, the   *)
(* list meanwhile, the element itself included, and however far behind the peer is.          *)
NothingSkipped ==
  next # 0 => \A i \in list :
    i < next => pushed[i] \in got \/ seen > EvHeight[pushed[i]] + MaxAge
=============================================================================
