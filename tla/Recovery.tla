------------------------------ MODULE Recovery ------------------------------
(***************************************************************************)
(* One node's durable state and how it survives crashes: the consensus     *)
(* write-ahead log, the state file of its private validator (FilePV), the  *)
(* block store, the state database with the saved ABCI responses, the      *)
(* application and the account ledger.                                     *)
(*                                                                         *)
(* The commit of a block is a sequence of writes (finalizeCommit, then     *)
(* ApplyBlock); the process may die between any two of them.  On restart   *)
(* the handshake compares the heights of store, state and application and  *)
(* replays blocks, with further writes and possibly further crashes, and   *)
(* then the messages of the current height are replayed from the log.      *)
(* Modelled from consensus/state.go, consensus/replay.go, consensus/wal.go,*)
(* state/execution.go, state/store.go and blockchain/store.go.             *)
(***************************************************************************)
EXTENDS FilePV, Sequences

CONSTANTS
  MaxHeight,   \* bound: the last height that is decided
  PeerMsgs,    \* bound: messages of peers and timeouts per height
  MaxCrashes,  \* bound: crashes
  TxHeights,   \* blocks with transfers (transactions the account module applies)
  AppFloor     \* the application restarts from a state it committed at this height
               \* or later (0: the in-memory kvstore)

ASSUME RecoveryAssumption ==
  /\ MaxHeight \in Nat /\ PeerMsgs \in Nat /\ MaxCrashes \in Nat
  /\ AppFloor \in 0..MaxHeight + 1
  /\ TxHeights \subseteq 1..AppFloor   \* see Execute

Heights == 1..MaxHeight

\* Entries of the log: the #ENDHEIGHT marker, a peer's message or timeout, an own vote.
Marker(h) == [kind |-> "end", height |-> h, n |-> 0, msg |-> Empty]
Peer(h, n) == [kind |-> "peer", height |-> h, n |-> n, msg |-> Empty]
Own(m) == [kind |-> "own", height |-> m.height, n |-> 0, msg |-> m]

VARIABLES
  pc,       \* what the process does next
  height,   \* cs.Height, or the height of the block being replayed
  handled,  \* messages of this height that the consensus state has seen
  queue,    \* internalMsgQueue
  wal,      \* log entries on disk
  buf,      \* log entries in the write buffer
  store,    \* height of the block store
  saved,    \* State.LastBlockHeight in the state database
  resp,     \* heights whose ABCI responses are saved
  app,      \* last height the application committed
  ledger,   \* height -> how often its transfers were applied
  commits,  \* height -> how often the application committed it since it last forgot it
  sent,     \* own votes of undecided heights that peers may have: [vote, after: what had
            \* been handled before it]
  basis,    \* the vote signed last at this height: [msg, after: what had been handled when
            \* it was asked for]
  crashes

durable == <<store, saved, resp, app, ledger, commits>>
vars == <<pc, height, handled, queue, wal, buf, durable, sent, basis, crashes, pvVars>>

NoBasis == [msg |-> Empty, after |-> <<>>]

\* The sequence t begins with s.
IsStart(s, t) == Len(s) <= Len(t) /\ \A i \in 1..Len(s) : s[i] = t[i]

Found(e) == \E i \in 1..Len(wal) : wal[i] = e

-----------------------------------------------------------------------------
(* Consensus at one height.                                                 *)

\* receiveRoutine waits in its select: signing is a call it makes, and returns from.
Idle == pc = "up" /\ ~signing

\* A message of a peer, or a timeout: logged without a sync, then handled.
ReceivePeer ==
  /\ Idle
  /\ \E n \in 1..PeerMsgs :
       /\ \A i \in 1..Len(handled) : handled[i] # Peer(height, n)
       /\ buf' = Append(buf, Peer(height, n))
       /\ handled' = Append(handled, Peer(height, n))
  /\ UNCHANGED <<pc, height, queue, wal, durable, sent, basis, crashes, pvVars>>

\* The step of this vote is over: the vote, or one of a later step, is known or queued.
Cast(m) == LET known == handled \o queue
           IN \E i \in 1..Len(known) : known[i].kind = "own" /\ ~Before(known[i].msg, m)

\* FlushAndSync, first in signVote.
Flush == wal' = wal \o buf /\ buf' = <<>>

\* The log is not flushed before the vote is signed.
SignAddVote_NoFlush ==
  /\ pc = "up"
  /\ \E m \in Request : /\ m.height = height /\ ~Cast(m) /\ SignNew(m)
                        /\ basis' = [msg |-> m, after |-> handled]
  /\ UNCHANGED <<pc, height, handled, queue, wal, buf, durable, sent, crashes>>

\* signAddVote asks the private validator for the vote of a step that is entered.
SignAddVote ==
  /\ pc = "up"
  /\ \E m \in Request : /\ m.height = height /\ ~Cast(m) /\ SignNew(m)
                        /\ basis' = [msg |-> m, after |-> handled]
  /\ Flush
  /\ UNCHANGED <<pc, height, handled, queue, durable, sent, crashes>>

SaveSigned ==
  /\ pc = "up" /\ Save
  /\ UNCHANGED <<pc, height, handled, queue, wal, buf, durable, sent, basis, crashes>>

\* The signed vote goes to the internal queue; a refusal is only logged.
SignReturns ==
  /\ pc = "up" /\ Return
  /\ queue' = Append(queue, Own(mem))
  /\ UNCHANGED <<pc, height, handled, wal, buf, durable, sent, basis, crashes>>

\* The vote signed last is asked for again, at this height.
AskAgain(h) == \E m \in Request : m.height = h /\ Reuse(m) /\ queue' = Append(queue, Own([m EXCEPT !.time = mem.time]))

\* A vote that was signed before a crash and did not reach the log is asked for again.
SignAddVoteAgain ==
  /\ pc = "up" /\ ~Cast(mem) /\ AskAgain(height)
  /\ Flush
  /\ UNCHANGED <<pc, height, handled, durable, sent, basis, crashes>>

\* The own vote is logged without a sync.
ReceiveOwn_NoSync ==
  /\ Idle /\ queue # <<>>
  /\ LET v == Head(queue) IN
       /\ wal' = wal /\ buf' = Append(buf, v)
       /\ handled' = Append(handled, v)
       /\ sent' = sent \cup {[vote |-> v, after |-> handled]}
  /\ queue' = Tail(queue)
  /\ UNCHANGED <<pc, height, durable, basis, crashes, pvVars>>

\* An own vote: everything logged so far and the vote are synced, then it is handled,
\* which lets the reactor send it.
ReceiveOwn ==
  /\ Idle /\ queue # <<>>
  /\ LET v == Head(queue) IN
       /\ wal' = wal \o Append(buf, v) /\ buf' = <<>>
       /\ handled' = Append(handled, v)
       /\ sent' = sent \cup {[vote |-> v, after |-> handled]}
  /\ queue' = Tail(queue)
  /\ UNCHANGED <<pc, height, durable, basis, crashes, pvVars>>

\* processFlushTicks, in a goroutine of its own; a full buffer is written in part.
FlushTick ==
  /\ pc = "up"
  /\ \E k \in 1..Len(buf) : wal' = wal \o SubSeq(buf, 1, k) /\ buf' = SubSeq(buf, k + 1, Len(buf))
  /\ UNCHANGED <<pc, height, handled, queue, durable, sent, basis, crashes, pvVars>>

\* +2/3 precommits and the block are there: finalizeCommit begins.
EnterCommit ==
  /\ Idle /\ height <= MaxHeight
  /\ pc' = "saveblock"
  /\ UNCHANGED <<height, handled, queue, wal, buf, durable, sent, basis, crashes, pvVars>>

\* The marker is written first.
SaveBlock_AfterMarker ==
  /\ pc = "saveblock"
  /\ wal' = wal \o Append(buf, Marker(height)) /\ buf' = <<>>
  /\ pc' = "endheight"
  /\ UNCHANGED <<height, handled, queue, durable, sent, basis, crashes, pvVars>>

\* The block is not stored.
SaveBlock_Skipped ==
  /\ pc = "saveblock"
  /\ pc' = "endheight"
  /\ UNCHANGED <<height, handled, queue, wal, buf, durable, sent, basis, crashes, pvVars>>

\* blockStore.SaveBlock, unless the block is stored already.
SaveBlock ==
  /\ pc = "saveblock"
  /\ store' = IF store < height THEN height ELSE store
  /\ pc' = "endheight"
  /\ UNCHANGED <<height, handled, queue, wal, buf, saved, resp, app, ledger, commits, sent, basis, crashes, pvVars>>

\* wal.WriteSync(EndHeightMessage{height}).
EndHeight ==
  /\ pc = "endheight"
  /\ wal' = wal \o Append(buf, Marker(height)) /\ buf' = <<>>
  /\ pc' = "apply"
  /\ UNCHANGED <<height, handled, queue, durable, sent, basis, crashes, pvVars>>

-----------------------------------------------------------------------------
(* ApplyBlock, called by finalizeCommit ("apply"), by replayBlock with the   *)
(* real application ("replay") or with the mock one ("mock"), and            *)
(* ExecCommitBlock ("exec").  Each mode passes through the steps it has.      *)

Modes == {"apply", "replay", "mock", "exec"}

\* A replayed block's transfers are not applied.
Execute_OnlyLive ==
  /\ pc \in Modes
  /\ ledger' = [ledger EXCEPT ![height] = @ + (IF height \in TxHeights /\ pc = "apply" THEN 1 ELSE 0)]
  /\ pc' = CASE pc = "apply" -> "responses"
             [] pc = "replay" -> "responses2"
             [] pc = "mock" -> "responses3"
             [] pc = "exec" -> "commit4"
  /\ UNCHANGED <<height, handled, queue, wal, buf, store, saved, resp, app, commits, sent, basis, crashes, pvVars>>

\* execBlockOnProxyApp: the transfers go to the account ledger one by one, whatever
\* application executes the block.  The ledger's database is set by NewBlockExecutor;
\* ExecCommitBlock may run before that, and panics on a transfer, hence the assumption
\* TxHeights \subseteq 1..AppFloor.
Execute ==
  /\ pc \in Modes
  /\ ledger' = [ledger EXCEPT ![height] = @ + (IF height \in TxHeights THEN 1 ELSE 0)]
  /\ pc' = CASE pc = "apply" -> "responses"
             [] pc = "replay" -> "responses2"
             [] pc = "mock" -> "responses3"
             [] pc = "exec" -> "commit4"
  /\ UNCHANGED <<height, handled, queue, wal, buf, store, saved, resp, app, commits, sent, basis, crashes, pvVars>>

\* The responses are not saved.
SaveResponses_Never ==
  /\ pc \in {"responses", "responses2", "responses3"}
  /\ pc' = CASE pc = "responses" -> "commit"
             [] pc = "responses2" -> "commit2"
             [] pc = "responses3" -> "save3"
  /\ UNCHANGED <<height, handled, queue, wal, buf, durable, sent, basis, crashes, pvVars>>

\* saveABCIResponses, before the application commits.  The mock application's Commit
\* changes nothing.
SaveResponses ==
  /\ pc \in {"responses", "responses2", "responses3"}
  /\ resp' = resp \cup {height}
  /\ pc' = CASE pc = "responses" -> "commit"
             [] pc = "responses2" -> "commit2"
             [] pc = "responses3" -> "save3"
  /\ UNCHANGED <<height, handled, queue, wal, buf, store, saved, app, ledger, commits, sent, basis, crashes, pvVars>>

\* CommitSync on the real application.
AppCommit ==
  /\ pc \in {"commit", "commit2", "commit4"}
  /\ app' = height
  /\ commits' = [commits EXCEPT ![height] = @ + 1]
  /\ pc' = CASE pc = "commit" -> "save"
             [] pc = "commit2" -> "save2"
             [] pc = "commit4" -> "handshake"
  /\ UNCHANGED <<height, handled, queue, wal, buf, store, saved, resp, ledger, sent, basis, crashes, pvVars>>

\* SaveState; finalizeCommit goes on to the next height, the handshake compares again.
SaveState ==
  /\ pc \in {"save", "save2", "save3"}
  /\ saved' = height
  /\ IF pc = "save"
     THEN height' = height + 1 /\ handled' = <<>> /\ pc' = "up"
     ELSE pc' = "handshake" /\ UNCHANGED <<height, handled>>
  /\ sent' = {s \in sent : s.vote.height > height}
  /\ basis' = NoBasis
  /\ UNCHANGED <<queue, wal, buf, store, resp, app, ledger, commits, crashes, pvVars>>

-----------------------------------------------------------------------------
(* Crash and restart.                                                        *)

\* The process dies: memory and write buffer are gone.  An application without a
\* durable state of its own restarts from an earlier height.
Crash ==
  /\ pc # "down" /\ crashes < MaxCrashes
  /\ crashes' = crashes + 1
  /\ pc' = "down"
  /\ height' = 0 /\ handled' = <<>> /\ queue' = <<>> /\ buf' = <<>>
  /\ Reload
  /\ \E a \in {app} \cup {b \in AppFloor..MaxHeight : b < app} :
       /\ app' = a
       /\ commits' = [h \in Heights |-> IF h > a THEN 0 ELSE commits[h]]
  /\ UNCHANGED <<wal, store, saved, resp, ledger, sent, basis>>

Restart ==
  /\ pc = "down"
  /\ pc' = "handshake"
  /\ UNCHANGED <<height, handled, queue, wal, buf, durable, sent, basis, crashes, pvVars>>

\* unsafe_reset_priv_validator, while the node is down.
ResetValidator ==
  /\ pc = "down" /\ Reset
  /\ UNCHANGED <<pc, height, handled, queue, wal, buf, durable, sent, basis, crashes>>

\* ReplayBlocks always uses the real application.
ReplayMode_Real ==
  CASE app < saved -> "exec"
    [] app >= saved /\ store = saved + 1 -> "replay"
    [] OTHER -> "up"

\* ReplayBlocks and replayBlocks: how the next block is replayed, or that none is left.
ReplayMode ==
  CASE app < saved -> "exec"                              \* the application is behind
    [] app = saved /\ store = saved + 1 -> "replay"       \* neither state nor app has it
    [] app = saved + 1 /\ store = saved + 1 -> "mock"     \* committed, state not saved
    [] OTHER -> "up"

\* With the mock application LoadABCIResponses must find the responses; otherwise the
\* handshake returns an error and the node does not start.
ReplayBlocks ==
  /\ pc = "handshake"
  /\ ReplayMode \in {"exec", "replay", "mock"}
  /\ height' = IF ReplayMode = "exec" THEN app + 1 ELSE store
  /\ pc' = IF ReplayMode = "mock" /\ store \notin resp THEN "failed" ELSE ReplayMode
  /\ UNCHANGED <<handled, queue, wal, buf, durable, sent, basis, crashes, pvVars>>

\* Entries of the log after the marker of height h.
After(h) ==
  LET at == CHOOSE i \in 1..Len(wal) : wal[i] = Marker(h) /\ \A j \in 1..(i - 1) : wal[j] # Marker(h)
  IN SubSeq(wal, at + 1, Len(wal))

\* OnStart with catchupReplay: the messages since the last marker are handled again, and
\* the vote signed last may be asked for again meanwhile.  An error is logged and the node
\* starts anyway.
CatchupReplay ==
  /\ pc = "handshake" /\ ReplayMode = "up"
  /\ height' = saved + 1
  /\ IF Found(Marker(saved + 1)) \/ ~Found(Marker(saved))
     THEN handled' = <<>> /\ UNCHANGED <<queue, pvVars>>
     ELSE /\ handled' = After(saved)
          /\ UNCHANGED <<queue, pvVars>> \/ AskAgain(saved + 1)
  /\ pc' = "up"
  /\ UNCHANGED <<wal, buf, durable, sent, basis, crashes>>

-----------------------------------------------------------------------------
Init ==
  /\ pc = "handshake" /\ height = 0
  /\ handled = <<>> /\ queue = <<>>
  /\ wal = <<Marker(0)>> /\ buf = <<>>
  /\ store = 0 /\ saved = 0 /\ resp = {} /\ app = 0
  /\ ledger = [h \in Heights |-> 0] /\ commits = [h \in Heights |-> 0]
  /\ sent = {} /\ crashes = 0
  /\ basis = NoBasis
  /\ PVInit

Commit == EnterCommit \/ SaveBlock \/ EndHeight \/ Execute \/ SaveResponses \/ AppCommit \/ SaveState
Start == Restart \/ ReplayBlocks \/ CatchupReplay

Sign == SignAddVote \/ SaveSigned \/ SignReturns \/ SignAddVoteAgain

Next == ReceivePeer \/ Sign \/ ReceiveOwn \/ FlushTick \/ Commit \/ Start \/ Crash \/ ResetValidator

Spec == Init /\ [][Next]_vars

\* A started process goes on: every step of the commit, of the handshake and of a call of
\* the private validator is taken.
FairSpec == Spec /\ WF_vars(Commit) /\ WF_vars(Start) /\ WF_vars(SaveSigned \/ SignReturns)

-----------------------------------------------------------------------------
\* Block store, state and application never drift further apart than the handshake can
\* repair: the store is at most one block ahead of the state, and no application is ahead
\* of the store (the sanity panics that ReplayBlocks has commented out would never fire).
HeightsInStep == /\ saved <= store /\ store <= saved + 1
                 /\ app <= store
                 /\ app <= saved + 1

\* A marker in the log implies that the block store has the block (finalizeCommit's
\* comment on EndHeightMessage).
MarkerMeansStored == \A i \in 1..Len(wal) : wal[i].kind = "end" => wal[i].height <= store

\* The real application never commits a block twice unless it has forgotten it: after a
\* crash between Commit and SaveState the block is replayed on the mock application
\* (comment of mockProxyApp).
AppCommitsOnce == \A h \in Heights : commits[h] <= 1

\* No transfer of an applied block is lost, whichever way the block was applied.
TransfersApplied == \A h \in Heights : h <= saved /\ h \in TxHeights => ledger[h] >= 1

\* What is durable agrees after every crash: the log, the block store, the state and the
\* application, each of which finalizeCommit and ApplyBlock write at a moment of its own.
StoresAgree == HeightsInStep /\ AppCommitsOnce /\ MarkerMeansStored /\ TransfersApplied

\* An own vote that peers may have seen is part of the consensus state again after every
\* restart, and so is everything that had been handled before it: the vote is synced to
\* the log, and the log before it, before the vote is handled.  It holds when the marker of
\* the previous height was written; after a crash between SaveBlock and the marker
\* catchupReplay refuses and the next height starts without its messages.
VotesReplayed ==
  pc = "up" /\ Found(Marker(height - 1)) =>
    \A s \in sent : s.vote.height = height => IsStart(Append(s.after, s.vote), handled)

\* What the vote signed last was computed from is part of the consensus state again after a
\* restart, so that the same vote is computed and signed again even when it did not reach
\* the log: the log is flushed before signing ("Otherwise, we may not recompute the same
\* vote to sign, and the privValidator will refuse to sign anything", signVote).
VoteRecomputable ==
  pc = "up" /\ Found(Marker(height - 1)) /\ mem.height = height /\ basis.msg = mem
    => IsStart(basis.after, handled)

\* A crash makes the node forget no vote, neither one that is out nor one that is only signed.
VotesSurvive == VotesReplayed /\ VoteRecomputable

\* The node always comes up again and, once it crashes no more, decides every height: no
\* combination of the heights of store, state and application blocks the handshake.
Recovers == <>(pc = "up" /\ height = MaxHeight + 1)
=============================================================================
