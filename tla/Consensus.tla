----------------------------- MODULE Consensus -----------------------------
(***************************************************************************)
(* One height of the round-based consensus of one shard                    *)
(* (consensus/state.go, consensus/ticker.go).  Every validator is a        *)
(* single-threaded state machine (receiveRoutine) that handles, one at a   *)
(* time, a message of its own internal queue, a message of a peer, or a    *)
(* timeout.  A handler runs to its end through the enter... functions,     *)
(* which are written here as the code has them: functions from the round   *)
(* state `cs` of a validator `n` to its next round state, each with the    *)
(* code's early return.                                                    *)
(*                                                                         *)
(* Votes and proposals of a validator enter its own internal queue first   *)
(* and are gossiped once it has processed them.  Delivery is unordered and *)
(* may be delayed for ever.  A block is identified with its hash and       *)
(* consists of one part.                                                   *)
(***************************************************************************)
EXTENDS Integers, Sequences, FiniteSets

CONSTANTS
    Validators,      \* the validator set of the height
    Quorums,         \* the sets of validators with more than 2/3 of the voting power
    Proposer,        \* Proposer[r]: the validator whose turn it is in round r
    Peers,           \* Peers[n]: the validators n is connected to
    Down,            \* validators that are not running
    MaxRound,        \* bound: rounds explored are 0 .. MaxRound
    MaxTimeouts,     \* bound: MaxTimeouts[n] timeouts within a round expire at n
    CheckpointRounds,\* rounds whose fresh proposal holds a checkpoint transaction
    Differs,         \* validators whose cross-message list differs from that checkpoint
    Nil,             \* the block hash of a vote for nil
    None             \* no block, no proposal

ASSUME ConsensusAssumption ==
    /\ MaxRound \in Nat
    /\ Proposer \in [0 .. MaxRound -> Validators]
    /\ MaxTimeouts \in [Validators -> Nat]
    /\ Peers \in [Validators -> SUBSET Validators]
    /\ Quorums \subseteq SUBSET Validators
    /\ Differs \subseteq Validators
    /\ Down \subseteq Validators
    /\ CheckpointRounds \subseteq 0 .. MaxRound

VARIABLE
    rs      \* rs[n]: round state, internal message queue and ticker of validator n

Rounds == 0 .. MaxRound

(* RoundStepType *)
NewHeight == 1
NewRound == 2
Propose == 3
Prevote == 4
PrevoteWait == 5
Precommit == 6
PrecommitWait == 7
Commit == 8
Done == 9    \* the height is committed; updateToState left it

(* A block is named by the validator that made it and the round in which it did. *)
Blocks == {<<Proposer[r], r>> : r \in Rounds}

(* More than two thirds of the voting power: two such sets share a validator,  *)
(* and a larger set is one too.  A hash is never empty, and the nil hash, the  *)
(* missing block and the panics are told apart.                                *)
ASSUME QuorumAssumption ==
    /\ \A P, Q \in Quorums : P \cap Q # {}
    /\ \A P \in Quorums : \A Q \in SUBSET Validators : P \subseteq Q => Q \in Quorums
    /\ Nil \notin Blocks /\ None \notin Blocks /\ None # Nil
    /\ None # "sanity" /\ None # "nil"

HasCheckpoint(b) == b \in Blocks /\ b[2] \in CheckpointRounds

Vote(n, type, r, b) == [val |-> n, type |-> type, round |-> r, block |-> b]

----------------------------------------------------------------------------
(* The votes a validator has, cs.Votes: types.VoteSet *)

Voters(cs, type, r) == {v.val : v \in {w \in cs.votes : w.type = type /\ w.round = r}}

VotersFor(cs, type, r, b) ==
    {v.val : v \in {w \in cs.votes : w.type = type /\ w.round = r /\ w.block = b}}

HasTwoThirdsAny(cs, type, r) == Voters(cs, type, r) \in Quorums

TwoThirdsMajority_OfAny(cs, type, r) ==
    LET voted == {b \in Blocks : VotersFor(cs, type, r, b) # {}}
    IN  IF ~HasTwoThirdsAny(cs, type, r) THEN None
        ELSE IF voted = {} THEN Nil ELSE CHOOSE b \in voted : TRUE

TwoThirdsMajority(cs, type, r) ==
    LET maj == {b \in Blocks \cup {Nil} : VotersFor(cs, type, r, b) \in Quorums}
    IN  IF maj = {} THEN None ELSE CHOOSE b \in maj : TRUE

(* The proposal block is there and, when the proposal names a POL round, so  *)
(* are the +2/3 prevotes of that round.                                      *)
IsProposalComplete(cs) ==
    /\ cs.proposal # None
    /\ cs.pblock # None
    /\ \/ cs.proposal.pol < 0
       \/ TwoThirdsMajority(cs, Prevote, cs.proposal.pol) # None

----------------------------------------------------------------------------
(* Effects that the enter... functions share *)

(* The ticker takes a timeout only for a later round or step than the last one *)
(* it took.  One that it replaces may have fired already and wait for the      *)
(* receiveRoutine, so every timeout taken stays in `tocks` until it is handled.*)
Scheduled(cs, r, step) ==
    IF cs.ti.round < r \/ (cs.ti.round = r /\ cs.ti.step < step)
    THEN [cs EXCEPT !.ti = [round |-> r, step |-> step],
                    !.tocks = @ \cup {[round |-> r, step |-> step]}]
    ELSE cs

Sent(cs, m) == [cs EXCEPT !.queue = Append(@, m)]

Unlocked(cs) == [cs EXCEPT !.lockedRound = -1, !.locked = None]

At(cs, r, step) == [cs EXCEPT !.round = r, !.step = step]

Behind(cs, r, step) == r < cs.round \/ (r = cs.round /\ step <= cs.step)

(* After a panic receiveRoutine leaves its loop for good. *)
Halted(cs) == cs.panic # None

(* cmn.PanicSanity *)
Insane(cs) == [cs EXCEPT !.panic = "sanity"]

(* A prevote for a block also signs the cross-shard merkle root of the         *)
(* proposal block, and reads its relation rows, whether or not the vote is for *)
(* the proposal block; without one it dereferences nil.                        *)
SignAddVote(cs, n, type, b) ==
    IF type = Prevote /\ b # Nil /\ cs.pblock = None
    THEN [cs EXCEPT !.panic = "nil"]
    ELSE LET v == Vote(n, type, cs.round, b)
         IN  Sent([cs EXCEPT !.signed = @ \cup {v}], [kind |-> "vote", vote |-> v])

----------------------------------------------------------------------------
(* The enter... functions *)

DoPrevote_Unlocked(cs, n) ==
    SignAddVote(cs, n, Prevote, IF cs.pblock = None THEN Nil ELSE cs.pblock)

DoPrevote(cs, n) ==
    CASE cs.locked # None -> SignAddVote(cs, n, Prevote, cs.locked)
      [] cs.locked = None /\ cs.pblock = None -> SignAddVote(cs, n, Prevote, Nil)
      [] OTHER -> SignAddVote(cs, n, Prevote, cs.pblock)

EnterPrevote(cs, n, r) ==
    IF Halted(cs) \/ Behind(cs, r, Prevote) THEN cs
    ELSE At(DoPrevote(cs, n), r, Prevote)

EnterPrevoteWait(cs, r) ==
    IF Halted(cs) \/ Behind(cs, r, PrevoteWait) THEN cs
    ELSE IF ~HasTwoThirdsAny(cs, Prevote, r) THEN Insane(cs)
    ELSE At(Scheduled(cs, r, PrevoteWait), r, PrevoteWait)

LockAndPrecommit(cs, n, r) ==
    LET b == TwoThirdsMajority(cs, Prevote, r)
    IN  CASE b = None -> SignAddVote(cs, n, Precommit, Nil)
          [] b = Nil -> SignAddVote(Unlocked(cs), n, Precommit, Nil)
          [] b \in Blocks /\ cs.locked = b ->
                SignAddVote([cs EXCEPT !.lockedRound = r], n, Precommit, b)
          [] b \in Blocks /\ cs.locked # b /\ cs.pblock = b ->
                SignAddVote([cs EXCEPT !.lockedRound = r, !.locked = b], n, Precommit, b)
          [] OTHER ->
                SignAddVote([Unlocked(cs) EXCEPT !.pblock = IF cs.parts = b THEN @ ELSE None,
                                                 !.parts = b],
                            n, Precommit, Nil)

EnterPrecommit(cs, n, r) ==
    IF Halted(cs) \/ Behind(cs, r, Precommit) THEN cs
    ELSE At(LockAndPrecommit(cs, n, r), r, Precommit)

EnterPrecommitWait_NoTimeout(cs, r) ==
    IF Halted(cs) \/ r < cs.round \/ (r = cs.round /\ cs.ttp) THEN cs
    ELSE [cs EXCEPT !.ttp = TRUE]

EnterPrecommitWait(cs, r) ==
    IF Halted(cs) \/ r < cs.round \/ (r = cs.round /\ cs.ttp) THEN cs
    ELSE IF ~HasTwoThirdsAny(cs, Precommit, r) THEN Insane(cs)
    ELSE [Scheduled(cs, r, PrecommitWait) EXCEPT !.ttp = TRUE]

(* ValidBlock is proposed again if there is one, with its round as POL round. *)
DecideProposal(cs, n, r) ==
    LET b == IF cs.valid # None THEN cs.valid ELSE <<n, r>>
        p == [round |-> r, block |-> b, pol |-> cs.validRound]
    IN  Sent(Sent(cs, [kind |-> "proposal", proposal |-> p]), [kind |-> "part", block |-> b])

EnterPropose(cs, n, r) ==
    IF Halted(cs) \/ Behind(cs, r, Propose) THEN cs
    ELSE LET c1 == Scheduled(cs, r, Propose)
             c2 == IF Proposer[r] = n THEN DecideProposal(c1, n, r) ELSE c1
             c3 == At(c2, r, Propose)
         IN  IF IsProposalComplete(c3) THEN EnterPrevote(c3, n, r) ELSE c3

(* Empty blocks are created (the default configuration), so the round does not *)
(* wait for transactions.                                                      *)
EnterNewRound(cs, n, r) ==
    IF Halted(cs) \/ r < cs.round \/ (r = cs.round /\ cs.step # NewHeight) THEN cs
    ELSE LET c1 == [At(cs, r, NewRound) EXCEPT !.ttp = FALSE]
             c2 == IF r = 0 THEN c1
                   ELSE [c1 EXCEPT !.proposal = None, !.pblock = None, !.parts = None]
         IN  EnterPropose(c2, n, r)

(* The round state at the start of a height (updateToState, scheduleRound0).   *)
Fresh ==
    [round |-> 0, step |-> NewHeight, proposal |-> None, pblock |-> None,
     parts |-> None, lockedRound |-> -1, locked |-> None, validRound |-> -1,
     valid |-> None, commitRound |-> -1, ttp |-> FALSE, votes |-> {},
     signed |-> {}, decided |-> None, panic |-> None, queue |-> <<>>,
     expired |-> 0, ti |-> [round |-> 0, step |-> NewHeight],
     tocks |-> {[round |-> 0, step |-> NewHeight]}]

(* tryFinalizeCommit, finalizeCommit and updateToState: the height is over     *)
(* once the block of the +2/3 precommits is there.  What is left of it is the  *)
(* block and LastCommit; messages still in the queue are for a past height.    *)
TryFinalizeCommit(cs) ==
    LET b == TwoThirdsMajority(cs, Precommit, cs.commitRound)
    IN  IF b \notin Blocks \/ cs.pblock # b THEN cs
        ELSE IF cs.parts # b THEN Insane(cs)
        ELSE [Fresh EXCEPT !.decided = b, !.step = Done, !.pblock = b,
                           !.signed = cs.signed, !.commitRound = cs.commitRound,
                           !.votes = {v \in cs.votes : /\ v.type = Precommit
                                                        /\ v.round = cs.commitRound}]

EnterCommit_OldParts(cs, r) ==
    IF Halted(cs) \/ Commit <= cs.step THEN cs
    ELSE LET b == TwoThirdsMajority(cs, Precommit, r)
             c1 == IF cs.locked = b THEN [cs EXCEPT !.pblock = b] ELSE cs
         IN  TryFinalizeCommit([c1 EXCEPT !.step = Commit, !.commitRound = r])

EnterCommit(cs, r) ==
    IF Halted(cs) \/ Commit <= cs.step THEN cs
    ELSE LET b == TwoThirdsMajority(cs, Precommit, r)
             c1 == IF cs.locked = b THEN [cs EXCEPT !.pblock = b, !.parts = b] ELSE cs
             c2 == IF c1.pblock # b /\ c1.parts # b
                   THEN [c1 EXCEPT !.pblock = None, !.parts = b] ELSE c1
         IN  IF b = None THEN Insane(cs)
             ELSE TryFinalizeCommit([c2 EXCEPT !.step = Commit, !.commitRound = r])

----------------------------------------------------------------------------
(* The handlers *)

SetProposal(cs, p) ==
    IF cs.proposal # None \/ p.round # cs.round \/ p.pol >= p.round THEN cs
    ELSE [cs EXCEPT !.proposal = p, !.parts = IF @ = None THEN p.block ELSE @]

(* The block is complete: ValidBlock is updated, then the validator prevotes,  *)
(* or commits if it was only waiting for the block.                            *)
AddProposalBlockPart_AnyValid(cs, n, b) ==
    IF cs.parts # b \/ cs.pblock = b THEN cs
    ELSE LET c1 == [cs EXCEPT !.pblock = b, !.validRound = cs.round, !.valid = b]
         IN  IF c1.step <= Propose /\ IsProposalComplete(c1) THEN EnterPrevote(c1, n, c1.round)
             ELSE IF c1.step = Commit THEN TryFinalizeCommit(c1) ELSE c1

AddProposalBlockPart(cs, n, b) ==
    IF cs.parts # b \/ cs.pblock = b THEN cs
    ELSE LET maj == TwoThirdsMajority(cs, Prevote, cs.round)
             c1 == [cs EXCEPT !.pblock = b]
             c2 == IF maj = b /\ cs.validRound < cs.round
                   THEN [c1 EXCEPT !.validRound = cs.round, !.valid = b] ELSE c1
         IN  IF c2.step <= Propose /\ IsProposalComplete(c2)
             THEN LET c3 == EnterPrevote(c2, n, c2.round)
                  IN  IF maj # None THEN EnterPrecommit(c3, n, c3.round) ELSE c3
             ELSE IF c2.step = Commit THEN TryFinalizeCommit(c2) ELSE c2

(* A polka: unlock if it is more recent than the lock, and take its block as   *)
(* ValidBlock, or start to fetch it.                                           *)
SeenPolka(cs, r, b) ==
    LET c1 == IF /\ cs.locked # None /\ cs.locked # b
                 /\ cs.lockedRound < r /\ r <= cs.round
              THEN Unlocked(cs) ELSE cs
    IN  IF b = Nil \/ ~(cs.validRound < r) \/ r # cs.round THEN c1
        ELSE IF cs.pblock = b THEN [c1 EXCEPT !.validRound = r, !.valid = b, !.parts = b]
        ELSE [c1 EXCEPT !.pblock = None, !.parts = b]

AddPrevote(cs, n, r) ==
    LET maj == TwoThirdsMajority(cs, Prevote, r)
        c1 == IF maj # None THEN SeenPolka(cs, r, maj) ELSE cs
        any == HasTwoThirdsAny(cs, Prevote, r)
    IN  IF c1.round < r /\ any THEN EnterNewRound(c1, n, r)
        ELSE IF c1.round = r /\ Prevote <= c1.step
        THEN IF maj # None /\ (IsProposalComplete(c1) \/ maj = Nil)
             THEN EnterPrecommit(c1, n, r)
             ELSE IF any THEN EnterPrevoteWait(c1, r) ELSE c1
        ELSE IF c1.proposal # None /\ c1.proposal.pol = r /\ IsProposalComplete(c1)
        THEN EnterPrevote(c1, n, c1.round)
        ELSE c1

AddPrecommit(cs, n, r) ==
    LET maj == TwoThirdsMajority(cs, Precommit, r)
        c1 == EnterNewRound(cs, n, r)
        c2 == EnterPrecommit(c1, n, r)
    IN  CASE maj \in Blocks -> EnterCommit(c2, r)
          [] maj = Nil -> EnterPrecommitWait(c2, r)
          [] maj = None /\ cs.round <= r /\ HasTwoThirdsAny(cs, Precommit, r) ->
                EnterPrecommitWait(c1, r)
          [] OTHER -> cs

(* While the proposal block holds a checkpoint that differs from the own list  *)
(* of cross messages, a vote is stored but none of its transitions is made.    *)
AddVote(cs, n, v) ==
    LET c1 == [cs EXCEPT !.votes = @ \cup {v}]
    IN  IF v \in cs.votes \/ (HasCheckpoint(cs.pblock) /\ n \in Differs) THEN c1
        ELSE IF v.type = Prevote THEN AddPrevote(c1, n, v.round)
        ELSE AddPrecommit(c1, n, v.round)

HandleMsg(cs, n, m) ==
    CASE m.kind = "proposal" -> SetProposal(cs, m.proposal)
      [] m.kind = "part" -> AddProposalBlockPart(cs, n, m.block)
      [] m.kind = "vote" -> AddVote(cs, n, m.vote)

HandleTimeout(cs, n, t) ==
    CASE t.step = NewHeight -> EnterNewRound(cs, n, 0)
      [] t.step = Propose -> EnterPrevote(cs, n, t.round)
      [] t.step = PrevoteWait -> EnterPrecommit(cs, n, t.round)
      [] t.step = PrecommitWait -> EnterNewRound(EnterPrecommit(cs, n, t.round), n, t.round + 1)

(* A timeout that handleTimeout would ignore is dropped at once: rounds and    *)
(* steps only grow.                                                            *)
WithoutStaleTocks(cs) ==
    [cs EXCEPT !.tocks = {t \in @ : /\ ~Halted(cs) /\ cs.step # Done
                                    /\ t.round >= cs.round
                                    /\ t.round = cs.round => t.step >= cs.step}]

Handle(n, cs) == rs' = [rs EXCEPT ![n] = WithoutStaleTocks(cs)]

Running(n) == n \notin Down /\ ~Halted(rs[n]) /\ rs[n].step # Done

----------------------------------------------------------------------------
(* The steps of receiveRoutine *)

ReceiveInternal(n) ==
    /\ Running(n)
    /\ rs[n].queue # <<>>
    /\ Handle(n, HandleMsg([rs[n] EXCEPT !.queue = Tail(@)], n, Head(rs[n].queue)))

(* The gossip routines of a peer m send what n lacks: proposals of the round   *)
(* both are in, the parts of the block n waits for, and votes.  A peer that    *)
(* has finished the height only serves the block and the precommits that       *)
(* decided it.                                                                 *)
ReceiveProposal(n, m) ==
    /\ Running(n)
    /\ rs[n].proposal = None
    /\ rs[m].step # Done /\ rs[m].proposal # None /\ rs[m].round = rs[n].round
    /\ Handle(n, SetProposal(rs[n], rs[m].proposal))

ReceivePart(n, m) ==
    /\ Running(n)
    /\ rs[n].parts # None /\ rs[n].pblock # rs[n].parts
    /\ rs[m].pblock = rs[n].parts
    /\ Handle(n, AddProposalBlockPart(rs[n], n, rs[n].parts))

ReceiveVote(n, m) ==
    /\ Running(n)
    /\ \E v \in rs[m].votes \ rs[n].votes : Handle(n, AddVote(rs[n], n, v))

Expire(n, t) ==
    /\ Running(n)
    /\ t.step = PrecommitWait => t.round < MaxRound
    /\ t.step # NewHeight => rs[n].expired < MaxTimeouts[n]
    /\ Handle(n, HandleTimeout([rs[n] EXCEPT
          !.tocks = @ \ {t},
          !.expired = IF t.step = NewHeight THEN @ ELSE @ + 1], n, t))

Timeout(n) == \E t \in rs[n].tocks : Expire(n, t)

Init ==
    rs = [n \in Validators |-> Fresh]

Receive(n) ==
    \/ ReceiveInternal(n)
    \/ \E m \in Peers[n] :
          ReceiveProposal(n, m) \/ ReceivePart(n, m) \/ ReceiveVote(n, m)

Next == \E n \in Validators : Receive(n) \/ Timeout(n)

Spec == Init /\ [][Next]_rs

(* A network whose delays are below the timeouts: no timeout expires while a   *)
(* message is on its way, nor before one that another validator started for an *)
(* earlier round or step.  Every validator goes on taking its steps.           *)
Quiet ==
    \A n \in Validators : Running(n) =>
        /\ rs[n].queue = <<>>
        /\ \A m \in Peers[n] :
              /\ rs[m].votes \subseteq rs[n].votes
              /\ \/ rs[n].proposal # None \/ rs[m].proposal = None
                 \/ rs[m].step = Done \/ rs[m].round # rs[n].round
              /\ \/ rs[n].parts = None \/ rs[n].pblock = rs[n].parts
                 \/ rs[m].pblock # rs[n].parts

Earliest(t) ==
    \A m \in Validators : Running(m) =>
        \A u \in rs[m].tocks : t.round < u.round \/ (t.round = u.round /\ t.step <= u.step)

TimelyTimeout(n) == Quiet /\ \E t \in rs[n].tocks : Earliest(t) /\ Expire(n, t)

TimelyNext == \E n \in Validators : Receive(n) \/ TimelyTimeout(n)

TimelySpec ==
    /\ Init /\ [][TimelyNext]_rs
    /\ \A n \in Validators : WF_rs(Receive(n)) /\ WF_rs(TimelyTimeout(n))

----------------------------------------------------------------------------
(* Two validators never commit different blocks at the same height, whatever   *)
(* the order in which votes, blocks and timeouts reach them (finalizeCommit).  *)
Agreement ==
    \A n, m \in Validators :
        rs[n].decided # None /\ rs[m].decided # None => rs[n].decided = rs[m].decided

(* LockedRound and ValidRound are rounds in which the validator has seen +2/3  *)
(* prevotes for LockedBlock and ValidBlock (cstypes.RoundState): a lock or a   *)
(* re-proposal can always be justified by the votes at hand.                   *)
LocksHavePolkas ==
    \A n \in Validators :
        /\ rs[n].locked # None =>
              VotersFor(rs[n], Prevote, rs[n].lockedRound, rs[n].locked) \in Quorums
        /\ rs[n].valid # None =>
              VotersFor(rs[n], Prevote, rs[n].validRound, rs[n].valid) \in Quorums

(* No order of votes, block parts and timeouts reaches one of the sanity       *)
(* panics of the enter... functions and of finalizeCommit: a wait is entered   *)
(* only with +2/3 of any votes, a commit only with +2/3 precommits, and the    *)
(* block committed always has the part set of the commit.                      *)
NoSanityPanic == \A n \in Validators : rs[n].panic # "sanity"

(* The votes a validator has at hand justify whatever state it is in: its lock *)
(* and its valid block, and each wait and commit it enters.                    *)
StateJustified == LocksHavePolkas /\ NoSanityPanic

(* In a timely network every running validator commits the height, even if     *)
(* the proposer of the first round is down.                                    *)
EveryoneDecides == <>(\A n \in Validators \ Down : rs[n].decided # None)

(* "we should have prevoted our locked block" (consensus/state_test.go:397): a *)
(* validator that enters prevote locked and without a proposal block prevotes  *)
(* its lock; the handler does not end in a panic.                              *)
LockedPrevoteIsCast == \A n \in Validators : rs[n].panic # "nil"

(* What the validators have signed, how they are locked and what they commit   *)
(* follows the rules of LockVoting, for which agreement is proved.             *)
Signed(type) ==
    UNION {{<<n, v.round, v.block>> : v \in {w \in rs[n].signed : w.type = type}} :
              n \in Validators}

LV == INSTANCE LockVoting WITH
        Faulty <- {},
        prevotes <- Signed(Prevote),
        precommits <- Signed(Precommit),
        lock <- [n \in Validators |-> [round |-> rs[n].lockedRound, block |-> rs[n].locked]],
        decision <- [n \in Validators |-> rs[n].decided]

VotesByTheRules == LV!Spec

=============================================================================
