-------------------------- MODULE ConsensusProofs --------------------------
(***************************************************************************)
(* The consensus of one height implements LockVoting and keeps agreement,  *)
(* for every validator set, every family of quorums of which two always    *)
(* meet, every proposer schedule and every number of rounds.  First the    *)
(* inductive invariant, and what each function that enters a step          *)
(* (enterPrevote, enterPrecommit, the waits, enterPropose, enterNewRound)  *)
(* makes of it; then the handlers and the theorems.                        *)
(***************************************************************************)
EXTENDS Consensus, TLAPS

(* Leaves that need arithmetic, records or sequences name SMT. *)
USE ZenonT(60)

Values == Blocks \cup {Nil}
MaybeBlock == Blocks \cup {None}
MaybeRound == Rounds \cup {-1}

Votes == [val : Validators, type : {Prevote, Precommit}, round : Rounds, block : Values]
Proposals == [round : Rounds, block : Blocks, pol : MaybeRound]
Messages(S) == [kind : {"proposal"}, proposal : Proposals]
               \cup [kind : {"part"}, block : Blocks]
               \cup [kind : {"vote"}, vote : S]
Tocks == [round : Rounds, step : {NewHeight, Propose, PrevoteWait, PrecommitWait}]

RoundState ==
    [round : Rounds, step : NewHeight .. Done, proposal : Proposals \cup {None},
     pblock : MaybeBlock, parts : MaybeBlock, lockedRound : MaybeRound, locked : MaybeBlock,
     validRound : MaybeRound, valid : MaybeBlock, commitRound : MaybeRound, ttp : BOOLEAN,
     votes : SUBSET Votes, signed : SUBSET Votes, decided : MaybeBlock,
     panic : {None, "sanity", "nil"}, queue : Seq(Messages(Votes)), expired : Nat,
     ti : Tocks, tocks : SUBSET Tocks]

----------------------------------------------------------------------------
(* The inductive invariant *)

(* What a validator signed lies behind it: in an earlier round, or in its      *)
(* round and at a step it has reached.  A vote of a step ahead of the          *)
(* validator is therefore the first of its kind and round.                     *)
InTurn(n, cs) ==
    \A v \in cs.signed :
        v.val = n /\ v.round <= cs.round /\ (v.round = cs.round => v.type <= cs.step)

(* A lock is backed by the prevotes at hand, and one of the current round is   *)
(* set no earlier than the precommit.                                          *)
LockBacked(cs) ==
    \/ cs.locked = None /\ cs.lockedRound = -1
    \/ /\ cs.locked \in Blocks
       /\ VotersFor(cs, Prevote, cs.lockedRound, cs.locked) \in Quorums
       /\ cs.lockedRound <= cs.round
       /\ cs.lockedRound = cs.round => Precommit <= cs.step

ValidBacked(cs) ==
    cs.valid # None => VotersFor(cs, Prevote, cs.validRound, cs.valid) \in Quorums

Live(n, cs) ==
    /\ cs \in RoundState
    /\ cs.step # Done /\ cs.decided = None
    /\ cs.panic # "sanity"
    /\ cs.queue \in Seq(Messages(cs.signed))
    /\ cs.pblock \in {None, cs.parts}
    /\ \A t \in cs.tocks : t.round <= cs.round
    /\ InTurn(n, cs) /\ LockBacked(cs) /\ ValidBacked(cs)

Over(cs) ==
    /\ cs \in RoundState
    /\ cs.step = Done /\ cs.decided \in Blocks
    /\ cs.panic = None
    /\ cs.locked = None /\ cs.lockedRound = -1 /\ cs.valid = None

(* A validator has only votes that their signers have signed. *)
Known(cs) == \A v \in cs.votes : v \in rs[v.val].signed

IInv ==
    /\ rs \in [Validators -> RoundState]
    /\ \A n \in Validators : (Live(n, rs[n]) \/ Over(rs[n])) /\ Known(rs[n])

----------------------------------------------------------------------------
(* Votes at hand *)

LEMMA Steps ==
    /\ NewHeight = 1 /\ NewRound = 2 /\ Propose = 3 /\ Prevote = 4 /\ PrevoteWait = 5
    /\ Precommit = 6 /\ PrecommitWait = 7 /\ Commit = 8 /\ Done = 9
  BY DEF NewHeight, NewRound, Propose, Prevote, PrevoteWait, Precommit, PrecommitWait,
         Commit, Done

LEMMA Ints ==
    ASSUME NEW cs \in RoundState
    PROVE  /\ cs.round \in Int /\ cs.step \in Int /\ cs.lockedRound \in Int
           /\ \A v \in cs.signed : v.round \in Int /\ v.type \in Int
           /\ \A t \in cs.tocks : t.round \in Int
<1>1. \A r \in Rounds : r \in Int
  BY SMTT(30), ConsensusAssumption DEF Rounds
<1>2. cs.round \in Int
  <2>1. cs.round \in Rounds
    BY DEF RoundState
  <2>. QED  BY <1>1, <2>1
<1>3. cs.step \in Int
  <2>1. cs.step \in 1 .. 9
    BY Steps DEF RoundState
  <2>. QED  BY SMTT(30), <2>1
<1>4. cs.lockedRound \in Int
  <2>1. cs.lockedRound \in Rounds \/ cs.lockedRound = -1
    BY DEF RoundState, MaybeRound
  <2>2. CASE cs.lockedRound = -1
    BY SMTT(30), <2>2
  <2>. QED  BY <1>1, <2>1, <2>2
<1>5. ASSUME NEW v \in cs.signed
      PROVE  v.round \in Int /\ v.type \in Int
  <2>1. v \in Votes
    BY DEF RoundState
  <2>2. v.round \in Rounds /\ v.type \in {4, 6}
    BY <2>1, Steps DEF Votes
  <2>3. v.type \in Int
    BY SMTT(30), <2>2
  <2>. QED  BY <1>1, <2>2, <2>3
<1>6. ASSUME NEW t \in cs.tocks
      PROVE  t.round \in Int
  <2>1. t.round \in Rounds
    BY DEF RoundState, Tocks
  <2>. QED  BY <1>1, <2>1
<1>. QED  BY <1>2, <1>3, <1>4, <1>5, <1>6

LEMMA VotersAreValidators ==
    ASSUME NEW cs \in RoundState, NEW t, NEW r, NEW b
    PROVE  /\ VotersFor(cs, t, r, b) \subseteq Voters(cs, t, r)
           /\ Voters(cs, t, r) \subseteq Validators
           /\ VotersFor(cs, t, r, b) \in Quorums => r \in Rounds /\ HasTwoThirdsAny(cs, t, r)
<1>1. cs.votes \subseteq Votes
  BY DEF RoundState
<1>2. VotersFor(cs, t, r, b) \subseteq Voters(cs, t, r)
  BY DEF VotersFor, Voters
<1>3. Voters(cs, t, r) \subseteq Validators
  BY <1>1 DEF Voters, Votes
<1>4. ASSUME VotersFor(cs, t, r, b) \in Quorums
      PROVE  r \in Rounds /\ HasTwoThirdsAny(cs, t, r)
  <2>1. VotersFor(cs, t, r, b) # {}
    BY <1>4, QuorumAssumption
  <2>2. r \in Rounds
    BY <1>1, <2>1 DEF VotersFor, Votes
  <2>3. Voters(cs, t, r) \in Quorums
    BY <1>2, <1>3, <1>4, QuorumAssumption
  <2>. QED  BY <2>2, <2>3 DEF HasTwoThirdsAny
<1>. QED  BY <1>2, <1>3, <1>4

LEMMA MoreVotes ==
    ASSUME NEW cs \in RoundState, NEW c \in RoundState, cs.votes \subseteq c.votes,
           NEW t, NEW r, NEW b, VotersFor(cs, t, r, b) \in Quorums
    PROVE  VotersFor(c, t, r, b) \in Quorums
<1>1. VotersFor(cs, t, r, b) \subseteq VotersFor(c, t, r, b)
  BY DEF VotersFor
<1>2. VotersFor(c, t, r, b) \in SUBSET Validators
  BY VotersAreValidators
<1>. QED  BY <1>1, <1>2, QuorumAssumption

LEMMA Majority ==
    ASSUME NEW cs \in RoundState, NEW t, NEW r
    PROVE  \/ TwoThirdsMajority(cs, t, r) = None
           \/ /\ TwoThirdsMajority(cs, t, r) \in Values
              /\ VotersFor(cs, t, r, TwoThirdsMajority(cs, t, r)) \in Quorums
              /\ r \in Rounds
              /\ HasTwoThirdsAny(cs, t, r)
<1> DEFINE maj == {b \in Blocks \cup {Nil} : VotersFor(cs, t, r, b) \in Quorums}
           top == CHOOSE b \in maj : TRUE
<1>1. CASE maj = {}
  BY <1>1 DEF TwoThirdsMajority
<1>2. CASE maj # {}
  <2>1. top \in maj
    BY <1>2
  <2>2. TwoThirdsMajority(cs, t, r) = top
    BY <1>2 DEF TwoThirdsMajority
  <2>. QED  BY <2>1, <2>2, VotersAreValidators DEF Values
<1>. QED  BY <1>1, <1>2

(* The votes at hand were signed, so their majorities are those of LockVoting. *)
LEMMA KnownPolka ==
    ASSUME NEW cs \in RoundState, Known(cs), NEW r, NEW b,
           VotersFor(cs, Prevote, r, b) \in Quorums
    PROVE  LV!Polka(r, b)
<1> DEFINE Q == VotersFor(cs, Prevote, r, b)
<1>1. ASSUME NEW m \in Q
      PROVE  <<m, r, b>> \in Signed(Prevote)
  <2>1. PICK v \in cs.votes : v.val = m /\ v.type = Prevote /\ v.round = r /\ v.block = b
    BY <1>1 DEF VotersFor
  <2>2. v \in rs[m].signed /\ m \in Validators
    BY <2>1 DEF Known, RoundState, Votes
  <2>. QED  BY SMTT(30), <2>1, <2>2 DEF Signed
<1>. QED  BY <1>1 DEF LV!Polka

LEMMA KnownCommit ==
    ASSUME NEW cs \in RoundState, Known(cs), NEW r, NEW b,
           VotersFor(cs, Precommit, r, b) \in Quorums
    PROVE  LV!Committed(r, b)
<1> DEFINE Q == VotersFor(cs, Precommit, r, b)
<1>1. ASSUME NEW m \in Q
      PROVE  <<m, r, b>> \in Signed(Precommit)
  <2>1. PICK v \in cs.votes : v.val = m /\ v.type = Precommit /\ v.round = r /\ v.block = b
    BY <1>1 DEF VotersFor
  <2>2. v \in rs[m].signed /\ m \in Validators
    BY <2>1 DEF Known, RoundState, Votes
  <2>. QED  BY SMTT(30), <2>1, <2>2 DEF Signed
<1>. QED  BY <1>1 DEF LV!Committed

----------------------------------------------------------------------------
(* A handler underway *)

LockOf(cs) == [round |-> cs.lockedRound, block |-> cs.locked]

(* LockVoting allows n to prevote the values V and to precommit the values W   *)
(* in round r, and to hold the lock l after that.  V and W have one element or *)
(* none.                                                                       *)
Allowed(n, r, V, W, l) ==
    /\ V \subseteq Values /\ \A v, w \in V : v = w
    /\ W \subseteq Values /\ \A v, w \in W : v = w
    /\ V # {} => r \in Rounds /\ LV!PrevoteTurn(n, r)
    /\ W # {} => r \in Rounds /\ LV!PrecommitTurn(n, r)
    /\ \A v \in V : \E k \in LV!Locks : LV!MayHold(n, k) /\ LV!MayPrevote(k, v)
    /\ \A w \in W : LV!MayPrecommit(n, r, w, l)
    /\ W = {} => LV!MayHold(n, l) /\ \A v \in V : LV!MayPrevote(l, v)

Cast(n, cs, r, V, W) ==
    cs.signed = rs[n].signed \cup {Vote(n, Prevote, r, v) : v \in V}
                             \cup {Vote(n, Precommit, r, w) : w \in W}

(* A handler of validator n has come to the round state cs, and has signed on  *)
(* its way prevotes for V and precommits for W in round r.                     *)
Mid(n, cs, r, V, W) ==
    /\ n \in Validators
    /\ Live(n, cs) /\ Known(cs)
    /\ Cast(n, cs, r, V, W)
    /\ Allowed(n, r, V, W, LockOf(cs))

(* It ends there, or with the commit of the height. *)
End(n, cs, r, V, W) ==
    \/ Mid(n, cs, r, V, W)
    \/ /\ Over(cs) /\ Known(cs)
       /\ Cast(n, cs, r, V, W)
       /\ \E q \in Rounds : LV!Committed(q, cs.decided)
       /\ \E l \in LV!Locks : Allowed(n, r, V, W, l)

LEMMA LockIsLock ==
    ASSUME NEW cs \in RoundState, LockBacked(cs)
    PROVE  LockOf(cs) \in LV!Locks
<1>1. CASE cs.locked = None /\ cs.lockedRound = -1
  BY <1>1 DEF LockOf, LV!Locks, LV!NoLock
<1>2. CASE cs.locked \in Blocks /\ VotersFor(cs, Prevote, cs.lockedRound, cs.locked) \in Quorums
  <2>1. cs.lockedRound \in Rounds
    BY <1>2, VotersAreValidators
  <2>. QED  BY <1>2, <2>1 DEF LockOf, LV!Locks
<1>. QED  BY <1>1, <1>2 DEF LockBacked

(* A step forward that signs nothing and leaves the lock. *)
LEMMA Frame ==
    ASSUME NEW n, NEW cs, NEW q, NEW V, NEW W, Mid(n, cs, q, V, W),
           NEW c \in RoundState,
           c.step # Done, c.decided = None, c.panic # "sanity",
           c.signed = cs.signed, c.votes = cs.votes,
           c.locked = cs.locked, c.lockedRound = cs.lockedRound,
           ValidBacked(c),
           c.queue \in Seq(Messages(cs.signed)),
           c.pblock \in {None, c.parts},
           \A t \in c.tocks : t.round <= c.round,
           cs.round < c.round \/ (cs.round = c.round /\ cs.step <= c.step)
    PROVE  Mid(n, c, q, V, W)
<1>1. cs \in RoundState /\ InTurn(n, cs) /\ LockBacked(cs)
  BY DEF Mid, Live
<1>2. /\ cs.round \in Int /\ c.round \in Int /\ cs.step \in Int /\ c.step \in Int
      /\ cs.lockedRound \in Int
      /\ \A v \in cs.signed : v.round \in Int /\ v.type \in Int
  BY <1>1, Ints
<1>3. InTurn(n, c)
  BY SMTT(30), <1>1, <1>2 DEF InTurn
<1>4. LockBacked(c)
  <2>1. VotersFor(c, Prevote, c.lockedRound, c.locked)
          = VotersFor(cs, Prevote, cs.lockedRound, cs.locked)
    BY DEF VotersFor
  <2>2. Precommit \in Int
    BY SMTT(30), Steps
  <2>. QED  BY SMTT(30), <1>1, <1>2, <2>1, <2>2 DEF LockBacked
<1>5. Live(n, c)
  BY <1>3, <1>4 DEF Live
<1>6. LockOf(c) = LockOf(cs)
  BY DEF LockOf
<1>7. Known(c)
  BY DEF Known, Mid
<1>8. Cast(n, c, q, V, W)
  BY DEF Cast, Mid
<1>. QED  BY <1>5, <1>6, <1>7, <1>8 DEF Mid

----------------------------------------------------------------------------
(* Signing *)

LEMMA SeqGrows ==
    ASSUME NEW S, NEW T, S \subseteq T, NEW s \in Seq(S)
    PROVE  s \in Seq(T)
  BY SMTT(30)

(* What SignAddVote leaves alone. *)
SameRound(c, d) ==
    /\ c.round = d.round /\ c.step = d.step
    /\ c.proposal = d.proposal /\ c.pblock = d.pblock /\ c.parts = d.parts
    /\ c.locked = d.locked /\ c.lockedRound = d.lockedRound
    /\ c.valid = d.valid /\ c.validRound = d.validRound
    /\ c.votes = d.votes /\ c.decided = d.decided /\ c.tocks = d.tocks

LEMMA Signing ==
    ASSUME NEW cs \in RoundState, cs.queue \in Seq(Messages(cs.signed)),
           NEW n \in Validators, NEW t \in {Prevote, Precommit}, NEW b \in Values,
           NEW c, c = SignAddVote(cs, n, t, b)
    PROVE  /\ c \in RoundState /\ SameRound(c, cs)
           /\ c.queue \in Seq(Messages(c.signed))
           /\ \/ t = Prevote /\ c.signed = cs.signed /\ c.panic = "nil"
              \/ c.signed = cs.signed \cup {Vote(n, t, cs.round, b)} /\ c.panic = cs.panic
<1>1. CASE t = Prevote /\ b # Nil /\ cs.pblock = None
  <2>1. c = [cs EXCEPT !.panic = "nil"]
    BY <1>1 DEF SignAddVote
  <2>. QED  BY SMTT(30), <1>1, <2>1 DEF RoundState, SameRound
<1>2. CASE ~(t = Prevote /\ b # Nil /\ cs.pblock = None)
  <2> DEFINE v == Vote(n, t, cs.round, b)
             m == [kind |-> "vote", vote |-> v]
             d == [cs EXCEPT !.signed = @ \cup {v}]
  <2>1. v \in Votes
    BY DEF Vote, Votes, RoundState
  <2>2. c = Sent(d, m)
    BY <1>2 DEF SignAddVote
  <2> HIDE DEF v
  <2>3. /\ d \in RoundState /\ SameRound(d, cs)
        /\ d.signed = cs.signed \cup {v} /\ d.panic = cs.panic /\ d.queue = cs.queue
    BY <2>1 DEF RoundState, SameRound
  <2> HIDE DEF d
  <2>4. m \in Messages(Votes) /\ m \in Messages(d.signed)
    BY <2>1, <2>3 DEF Messages
  <2>5. d.queue \in Seq(Messages(d.signed)) /\ d.queue \in Seq(Messages(Votes))
    <3>1. Messages(cs.signed) \subseteq Messages(d.signed)
      BY <2>3 DEF Messages
    <3>. QED  BY <2>3, <3>1, SeqGrows DEF RoundState
  <2> HIDE DEF m
  <2>6. /\ Append(d.queue, m) \in Seq(Messages(d.signed))
        /\ Append(d.queue, m) \in Seq(Messages(Votes))
    BY SMTT(30), <2>4, <2>5
  <2>7. /\ c \in RoundState /\ SameRound(c, d) /\ c.signed = d.signed /\ c.panic = d.panic
        /\ c.queue = Append(d.queue, m)
    BY <2>2, <2>3, <2>6 DEF Sent, RoundState, SameRound
  <2>. QED  BY <2>3, <2>6, <2>7 DEF v, SameRound
<1>. QED  BY <1>1, <1>2

LEMMA AtStep ==
    ASSUME NEW cs \in RoundState, NEW r \in Rounds, NEW s \in NewHeight .. Done,
           NEW c, c = At(cs, r, s)
    PROVE  /\ c \in RoundState /\ c.round = r /\ c.step = s
           /\ c.proposal = cs.proposal /\ c.pblock = cs.pblock /\ c.parts = cs.parts
           /\ c.locked = cs.locked /\ c.lockedRound = cs.lockedRound
           /\ c.valid = cs.valid /\ c.validRound = cs.validRound
           /\ c.votes = cs.votes /\ c.decided = cs.decided /\ c.tocks = cs.tocks
           /\ c.signed = cs.signed /\ c.queue = cs.queue /\ c.panic = cs.panic
  BY DEF At, RoundState

(* The lock a handler has come to may still be exchanged for none, if there is *)
(* a polka for another value in a round after the lock's.                      *)
LEMMA MayDrop ==
    ASSUME NEW n, NEW cs, NEW q, NEW V, Mid(n, cs, q, V, {}),
           NEW r, NEW b \in Values, VotersFor(cs, Prevote, r, b) \in Quorums,
           cs.locked # b, cs.lockedRound < r
    PROVE  LV!MayHold(n, LV!NoLock)
<1>1. LV!MayHold(n, LockOf(cs)) /\ cs \in RoundState /\ Known(cs) /\ n \in Validators
  BY DEF Mid, Allowed, Live
<1>2. CASE LockOf(cs) = LV!NoLock
  BY <1>1, <1>2
<1>3. CASE LockOf(cs) # LV!NoLock
  <2>1. r \in Rounds /\ LV!Polka(r, b)
    BY <1>1, VotersAreValidators, KnownPolka
  <2>2. LockOf(cs) = [round |-> rs[n].lockedRound, block |-> rs[n].locked]
    BY <1>1, <1>3 DEF LV!MayHold
  <2>3. cs.lockedRound = rs[n].lockedRound /\ cs.locked = rs[n].locked
    BY <2>2 DEF LockOf
  <2>4. r > cs.lockedRound
    BY <1>1, Ints, <2>1, ConsensusAssumption DEF Rounds
  <2>5. LV!Unlockable(n)
    BY <1>1, <2>1, <2>3, <2>4 DEF LV!Unlockable, LV!Values, Values
  <2>. QED  BY <2>5 DEF LV!MayHold
<1>. QED  BY <1>2, <1>3

LEMMA SignedMember ==
    ASSUME NEW m, NEW t, NEW p, NEW v
    PROVE  <<m, p, v>> \in Signed(t) <=>
             m \in Validators /\ \E w \in rs[m].signed : w.type = t /\ w.round = p /\ w.block = v
  BY SMTT(30) DEF Signed

(* Who has not reached the step of a vote has not cast it, nor a later one. *)
LEMMA Turns ==
    ASSUME NEW n \in Validators, NEW cs \in RoundState, InTurn(n, cs),
           rs[n].signed \subseteq cs.signed
    PROVE  /\ cs.step < Prevote => LV!PrevoteTurn(n, cs.round)
           /\ cs.step < Precommit => LV!PrecommitTurn(n, cs.round)
<1>1. ASSUME NEW t, NEW p, NEW v, <<n, p, v>> \in Signed(t)
      PROVE  p \in Int /\ p <= cs.round /\ (p = cs.round => t <= cs.step)
  <2>1. PICK w \in rs[n].signed : w.type = t /\ w.round = p /\ w.block = v
    BY SMTT(30), <1>1, SignedMember
  <2>. QED  BY <2>1, Ints DEF InTurn
<1>2. cs.round \in Int /\ cs.step \in Int
  BY Ints
<1>3. ASSUME cs.step < Prevote
      PROVE  LV!PrevoteTurn(n, cs.round)
  <2>1. ASSUME NEW p, NEW v, <<n, p, v>> \in Signed(Prevote) \/ <<n, p, v>> \in Signed(Precommit)
        PROVE  p < cs.round
    <3>1. p \in Int /\ p <= cs.round /\ (p = cs.round => 4 <= cs.step \/ 6 <= cs.step)
      BY <1>1, <2>1, Steps
    <3>. QED  BY SMTT(30), <1>2, <1>3, <3>1, Steps
  <2>. QED  BY <2>1 DEF LV!PrevoteTurn
<1>4. ASSUME cs.step < Precommit
      PROVE  LV!PrecommitTurn(n, cs.round)
  <2>1. ASSUME NEW p, NEW v, <<n, p, v>> \in Signed(Prevote)
        PROVE  p <= cs.round
    BY <1>1, <2>1
  <2>2. ASSUME NEW p, NEW v, <<n, p, v>> \in Signed(Precommit)
        PROVE  p < cs.round
    <3>1. p \in Int /\ p <= cs.round /\ (p = cs.round => 6 <= cs.step)
      BY <1>1, <2>2, Steps
    <3>. QED  BY SMTT(30), <1>2, <1>4, <3>1, Steps
  <2>. QED  BY <2>1, <2>2 DEF LV!PrecommitTurn
<1>. QED  BY <1>3, <1>4

(* The new vote is the only one of the current round and step. *)
LEMMA StillInTurn ==
    ASSUME NEW n, NEW cs \in RoundState, InTurn(n, cs),
           NEW t \in {Prevote, Precommit}, cs.step <= t, NEW b,
           NEW c, c.round = cs.round, c.step = t,
           c.signed = cs.signed \/ c.signed = cs.signed \cup {Vote(n, t, cs.round, b)}
    PROVE  InTurn(n, c)
<1>1. cs.round \in Int /\ cs.step \in Int /\ t \in Int
  BY SMTT(30), Ints, Steps
<1>2. ASSUME NEW v \in cs.signed
      PROVE  v.val = n /\ v.round <= c.round /\ (v.round = c.round => v.type <= c.step)
  BY SMTT(30), <1>1, Ints DEF InTurn
<1>3. DEFINE v == Vote(n, t, cs.round, b)
<1>4. v.val = n /\ v.round <= c.round /\ (v.round = c.round => v.type <= c.step)
  BY SMTT(30), <1>1 DEF Vote
<1>. QED  BY <1>2, <1>4 DEF InTurn

LEMMA CastPrevote ==
    ASSUME NEW n, NEW cs, NEW q, Mid(n, cs, q, {}, {}),
           cs.step < Prevote,
           NEW b \in Values, cs.locked # None => b = cs.locked,
           NEW c, c = At(SignAddVote(cs, n, Prevote, b), cs.round, Prevote)
    PROVE  /\ \E V : Mid(n, c, cs.round, V, {})
           /\ c.votes = cs.votes /\ c.round = cs.round
<1>0. /\ cs \in RoundState /\ n \in Validators /\ cs.queue \in Seq(Messages(cs.signed))
      /\ InTurn(n, cs) /\ LockBacked(cs) /\ ValidBacked(cs) /\ Known(cs)
      /\ cs.round \in Rounds /\ cs.step \in Int /\ cs.signed = rs[n].signed
      /\ cs.decided = None /\ cs.panic # "sanity" /\ cs.pblock \in {None, cs.parts}
      /\ \A t \in cs.tocks : t.round <= cs.round
  <2>1. cs \in RoundState
    BY DEF Mid, Live
  <2>. QED  BY SMTT(30), <2>1, Ints DEF Mid, Live, Cast, RoundState
<1> DEFINE d == SignAddVote(cs, n, Prevote, b)
<1>1. /\ d \in RoundState /\ SameRound(d, cs)
      /\ d.queue \in Seq(Messages(d.signed))
      /\ \/ d.signed = cs.signed /\ d.panic = "nil"
         \/ d.signed = cs.signed \cup {Vote(n, Prevote, cs.round, b)} /\ d.panic = cs.panic
  BY SMTT(30), <1>0, Signing
<1> HIDE DEF d
<1>2. Prevote \in NewHeight .. Done /\ Prevote # Done
  BY SMTT(30), Steps
<1>3. /\ c \in RoundState /\ c.round = cs.round /\ c.step = Prevote
      /\ c.pblock = cs.pblock /\ c.parts = cs.parts
      /\ c.locked = cs.locked /\ c.lockedRound = cs.lockedRound
      /\ c.valid = cs.valid /\ c.validRound = cs.validRound
      /\ c.votes = cs.votes /\ c.decided = cs.decided /\ c.tocks = cs.tocks
      /\ c.signed = d.signed /\ c.queue = d.queue /\ c.panic = d.panic
  BY SMTT(30), <1>0, <1>1, <1>2, AtStep DEF d, SameRound
<1>4. InTurn(n, c)
  <2>1. cs.step <= Prevote
    BY SMTT(30), <1>0, Steps
  <2>2. c.signed = cs.signed \/ c.signed = cs.signed \cup {Vote(n, Prevote, cs.round, b)}
    BY <1>1, <1>3
  <2>. QED  BY <1>0, <1>3, <2>1, <2>2, StillInTurn
<1>5. LockBacked(c)
  <2>1. VotersFor(c, Prevote, c.lockedRound, c.locked)
          = VotersFor(cs, Prevote, cs.lockedRound, cs.locked)
    BY <1>3 DEF VotersFor
  <2>. QED  BY SMTT(30), <1>0, <1>3, <2>1, Steps DEF LockBacked
<1>6. ValidBacked(c)
  BY SMTT(30), <1>0, <1>3 DEF ValidBacked, VotersFor
<1>7. c.panic # "sanity"
  BY <1>0, <1>1, <1>3
<1>8. Live(n, c) /\ Known(c)
  BY <1>0, <1>1, <1>2, <1>3, <1>4, <1>5, <1>6, <1>7 DEF Live, Known
<1>9. LockOf(c) = LockOf(cs)
  BY <1>3 DEF LockOf
<1>10. LV!MayHold(n, LockOf(cs))
  BY DEF Mid, Allowed
<1>11. CASE c.signed = cs.signed
  <2>1. Mid(n, c, cs.round, {}, {})
    BY <1>0, <1>8, <1>9, <1>10, <1>11 DEF Mid, Cast, Allowed
  <2>. QED  BY <1>3, <2>1
<1>12. CASE c.signed = cs.signed \cup {Vote(n, Prevote, cs.round, b)}
  <2>1. Cast(n, c, cs.round, {b}, {})
    BY <1>0, <1>12 DEF Cast
  <2>2. LV!PrevoteTurn(n, cs.round)
    BY <1>0, Turns
  <2>3. LV!MayPrevote(LockOf(cs), b)
    BY DEF LV!MayPrevote, LockOf
  <2>4. LockOf(cs) \in LV!Locks
    BY <1>0, LockIsLock
  <2>5. Allowed(n, cs.round, {b}, {}, LockOf(c))
    BY <1>0, <1>9, <1>10, <2>2, <2>3, <2>4 DEF Allowed
  <2>6. Mid(n, c, cs.round, {b}, {})
    BY <1>0, <1>8, <2>1, <2>5 DEF Mid
  <2>. QED  BY <1>3, <2>6
<1>. QED  BY <1>1, <1>3, <1>11, <1>12

(* c differs from cs in the lock and the proposal block only. *)
Relocked(c, cs) ==
    /\ c.round = cs.round /\ c.step = cs.step
    /\ c.valid = cs.valid /\ c.validRound = cs.validRound
    /\ c.votes = cs.votes /\ c.decided = cs.decided /\ c.tocks = cs.tocks
    /\ c.signed = cs.signed /\ c.queue = cs.queue /\ c.panic = cs.panic

LEMMA CastPrecommit ==
    ASSUME NEW n, NEW cs, NEW q, NEW V, Mid(n, cs, q, V, {}), V # {} => q = cs.round,
           cs.step < Precommit,
           NEW e \in RoundState, Relocked(e, cs), e.pblock \in {None, e.parts},
           \/ e.locked = None /\ e.lockedRound = -1
           \/ /\ e.locked \in Blocks
              /\ VotersFor(cs, Prevote, e.lockedRound, e.locked) \in Quorums
              /\ e.lockedRound <= cs.round,
           NEW b \in Values, LV!MayPrecommit(n, cs.round, b, LockOf(e)),
           NEW c, c = At(SignAddVote(e, n, Precommit, b), cs.round, Precommit)
    PROVE  /\ Mid(n, c, cs.round, V, {b})
           /\ c.votes = cs.votes /\ c.round = cs.round
<1>0. /\ cs \in RoundState /\ n \in Validators /\ cs.queue \in Seq(Messages(cs.signed))
      /\ InTurn(n, cs) /\ ValidBacked(cs) /\ Known(cs)
      /\ cs.round \in Rounds /\ cs.step \in Int
      /\ cs.decided = None /\ cs.panic # "sanity"
      /\ \A t \in cs.tocks : t.round <= cs.round
      /\ Cast(n, cs, q, V, {})
  <2>1. cs \in RoundState
    BY DEF Mid, Live
  <2>. QED  BY <2>1, Ints DEF Mid, Live, RoundState
<1>a. PICK d : d = SignAddVote(e, n, Precommit, b)
  OBVIOUS
<1>1. /\ d \in RoundState /\ SameRound(d, e)
      /\ d.queue \in Seq(Messages(d.signed))
      /\ d.signed = cs.signed \cup {Vote(n, Precommit, cs.round, b)} /\ d.panic = cs.panic
  <2>1. Prevote # Precommit
    BY SMTT(30), Steps
  <2>2. e.queue \in Seq(Messages(e.signed))
    BY <1>0 DEF Relocked
  <2>3. n \in Validators /\ Precommit \in {Prevote, Precommit}
    BY <1>0
  <2>4. /\ d \in RoundState /\ SameRound(d, e)
        /\ d.queue \in Seq(Messages(d.signed))
        /\ \/ Precommit = Prevote /\ d.signed = e.signed /\ d.panic = "nil"
           \/ d.signed = e.signed \cup {Vote(n, Precommit, e.round, b)} /\ d.panic = e.panic
    BY SMTT(30), <1>a, <2>2, <2>3, Signing
  <2>. QED  BY <2>1, <2>4 DEF Relocked
<1>2. Precommit \in NewHeight .. Done /\ Precommit # Done
  BY SMTT(30), Steps
<1>3. /\ c \in RoundState /\ c.round = cs.round /\ c.step = Precommit
      /\ c.pblock = e.pblock /\ c.parts = e.parts
      /\ c.locked = e.locked /\ c.lockedRound = e.lockedRound
      /\ c.valid = cs.valid /\ c.validRound = cs.validRound
      /\ c.votes = cs.votes /\ c.decided = cs.decided /\ c.tocks = cs.tocks
      /\ c.signed = d.signed /\ c.queue = d.queue /\ c.panic = d.panic
  BY SMTT(30), <1>a, <1>0, <1>1, <1>2, AtStep DEF SameRound, Relocked
<1>4. InTurn(n, c)
  <2>1. cs.step <= Precommit
    BY SMTT(30), <1>0, Steps
  <2>2. c.signed = cs.signed \/ c.signed = cs.signed \cup {Vote(n, Precommit, cs.round, b)}
    BY <1>1, <1>3
  <2>. QED  BY <1>0, <1>3, <2>1, <2>2, StillInTurn
<1>5. LockBacked(c)
  <2>1. VotersFor(c, Prevote, c.lockedRound, c.locked)
          = VotersFor(cs, Prevote, e.lockedRound, e.locked)
    BY <1>3 DEF VotersFor
  <2>2. Precommit <= c.step
    BY SMTT(30), <1>3, Steps
  <2>. QED  BY <1>0, <1>3, <2>1, <2>2 DEF LockBacked
<1>6. ValidBacked(c)
  BY SMTT(30), <1>0, <1>3 DEF ValidBacked, VotersFor
<1>7. Live(n, c) /\ Known(c)
  BY <1>0, <1>1, <1>2, <1>3, <1>4, <1>5, <1>6 DEF Live, Known
<1>8. LockOf(c) = LockOf(e)
  BY <1>3 DEF LockOf
<1>9. Cast(n, c, cs.round, V, {b})
  BY SMTT(30), <1>0, <1>1, <1>3 DEF Cast
<1>10. LV!PrecommitTurn(n, cs.round)
  <2>1. rs[n].signed \subseteq cs.signed
    BY <1>0 DEF Cast
  <2>. QED  BY <1>0, <2>1, Turns
<1>11. Allowed(n, cs.round, V, {b}, LockOf(c))
  BY <1>0, <1>8, <1>10 DEF Allowed, Mid
<1>. QED  BY <1>0, <1>3, <1>7, <1>9, <1>11 DEF Mid

(* enterPrevote, called for the current round *)
LEMMA PrevoteEntered ==
    ASSUME NEW n, NEW cs, NEW q, Mid(n, cs, q, {}, {}),
           NEW c, c = EnterPrevote(cs, n, cs.round)
    PROVE  /\ \E V : Mid(n, c, cs.round, V, {})
           /\ c.votes = cs.votes /\ c.round = cs.round
<1>0. cs \in RoundState /\ cs.step \in Int /\ cs.round \in Int
  <2>1. cs \in RoundState
    BY DEF Mid, Live
  <2>. QED  BY <2>1, Ints
<1>1. CASE Halted(cs) \/ Behind(cs, cs.round, Prevote)
  <2>1. c = cs
    BY <1>1 DEF EnterPrevote
  <2>2. Mid(n, c, cs.round, {}, {})
    BY <2>1 DEF Mid, Cast, Allowed
  <2>. QED  BY <2>1, <2>2
<1>2. CASE ~(Halted(cs) \/ Behind(cs, cs.round, Prevote))
  <2>1. cs.step < Prevote
    BY SMTT(30), <1>0, <1>2, Steps DEF Behind
  <2>2. c = At(DoPrevote(cs, n), cs.round, Prevote)
    BY <1>2 DEF EnterPrevote
  <2>3. PICK b \in Values : /\ cs.locked # None => b = cs.locked
                            /\ DoPrevote(cs, n) = SignAddVote(cs, n, Prevote, b)
    <3>1. cs.locked \in Blocks \cup {None} /\ cs.pblock \in Blocks \cup {None}
      BY <1>0 DEF RoundState, MaybeBlock
    <3>. QED  BY <3>1 DEF DoPrevote, Values
  <2>. QED  BY SMTT(30), <2>1, <2>2, <2>3, CastPrevote
<1>. QED  BY <1>1, <1>2

(* enterPrecommit, called for the current round *)
LEMMA PrecommitEntered ==
    ASSUME NEW n, NEW cs, NEW q, NEW V, Mid(n, cs, q, V, {}), V # {} => q = cs.round,
           NEW c, c = EnterPrecommit(cs, n, cs.round)
    PROVE  /\ \E p, W : Mid(n, c, p, V, W) /\ (V # {} => p = cs.round)
           /\ c.votes = cs.votes /\ c.round = cs.round
<1>0. /\ cs \in RoundState /\ cs.step \in Int /\ cs.round \in Int /\ cs.lockedRound \in Int
      /\ n \in Validators /\ LockBacked(cs) /\ Known(cs) /\ cs.round \in Rounds
      /\ cs.locked \in MaybeBlock /\ cs.pblock \in {None, cs.parts} /\ cs.parts \in MaybeBlock
  <2>1. cs \in RoundState
    BY DEF Mid, Live
  <2>. QED  BY <2>1, Ints DEF Mid, Live, RoundState
<1>1. CASE Halted(cs) \/ Behind(cs, cs.round, Precommit)
  <2>1. c = cs
    BY <1>1 DEF EnterPrecommit
  <2>. QED  BY <2>1
<1>2. CASE ~(Halted(cs) \/ Behind(cs, cs.round, Precommit))
  <2>0. cs.step < Precommit
    BY SMTT(30), <1>0, <1>2, Steps DEF Behind
  <2>1. c = At(LockAndPrecommit(cs, n, cs.round), cs.round, Precommit)
    BY <1>2 DEF EnterPrecommit
  <2>2. cs.lockedRound < cs.round
    <3>1. cs.round >= 0
      BY SMTT(30), <1>0, ConsensusAssumption DEF Rounds
    <3>2. CASE cs.lockedRound = -1
      BY SMTT(30), <1>0, <3>1, <3>2
    <3>3. CASE cs.lockedRound <= cs.round /\ (cs.lockedRound = cs.round => Precommit <= cs.step)
      BY SMTT(30), <1>0, <2>0, <3>3, Steps
    <3>. QED  BY <1>0, <3>2, <3>3 DEF LockBacked
  <2>3. PICK b : b = TwoThirdsMajority(cs, Prevote, cs.round)
    OBVIOUS
  <2>4. b = None \/ (b \in Values /\ VotersFor(cs, Prevote, cs.round, b) \in Quorums)
    BY <1>0, <2>3, Majority
  <2>5. ASSUME NEW e \in RoundState, Relocked(e, cs), e.pblock \in {None, e.parts},
               \/ e.locked = None /\ e.lockedRound = -1
               \/ /\ e.locked \in Blocks
                  /\ VotersFor(cs, Prevote, e.lockedRound, e.locked) \in Quorums
                  /\ e.lockedRound <= cs.round,
               NEW w \in Values, LV!MayPrecommit(n, cs.round, w, LockOf(e)),
               LockAndPrecommit(cs, n, cs.round) = SignAddVote(e, n, Precommit, w)
        PROVE  /\ \E p, W : Mid(n, c, p, V, W) /\ (V # {} => p = cs.round)
               /\ c.votes = cs.votes /\ c.round = cs.round
    <3>1. c = At(SignAddVote(e, n, Precommit, w), cs.round, Precommit)
      BY <2>1, <2>5
    <3>2. /\ Mid(n, c, cs.round, V, {w})
          /\ c.votes = cs.votes /\ c.round = cs.round
      BY SMTT(30), <2>0, <2>5, <3>1, CastPrecommit
    <3>. QED  BY <3>2
  <2>6. CASE b = None
    <3>1. LockAndPrecommit(cs, n, cs.round) = SignAddVote(cs, n, Precommit, Nil)
      BY <2>3, <2>6, QuorumAssumption DEF LockAndPrecommit
    <3>2. LV!MayPrecommit(n, cs.round, Nil, LockOf(cs))
      BY DEF LV!MayPrecommit, Mid, Allowed
    <3>3. Nil \in Values /\ Relocked(cs, cs)
      BY DEF Values, Relocked
    <3>4. \/ cs.locked = None /\ cs.lockedRound = -1
          \/ /\ cs.locked \in Blocks
             /\ VotersFor(cs, Prevote, cs.lockedRound, cs.locked) \in Quorums
             /\ cs.lockedRound <= cs.round
      BY <1>0 DEF LockBacked
    <3>. QED  BY <1>0, <2>5, <3>1, <3>2, <3>3, <3>4
  <2>7. CASE b = Nil
    <3>1. PICK e : e = Unlocked(cs)
      OBVIOUS
    <3>2. LockAndPrecommit(cs, n, cs.round) = SignAddVote(e, n, Precommit, Nil)
      BY <2>3, <2>7, <3>1, QuorumAssumption DEF LockAndPrecommit
    <3>3. /\ e \in RoundState /\ Relocked(e, cs) /\ e.pblock \in {None, e.parts}
          /\ e.locked = None /\ e.lockedRound = -1
      BY <1>0, <3>1 DEF Unlocked, RoundState, Relocked, MaybeBlock, MaybeRound
    <3>4. LV!MayHold(n, LV!NoLock)
      <4>1. b \in Values /\ VotersFor(cs, Prevote, cs.round, b) \in Quorums /\ cs.locked # b
        BY <1>0, <2>4, <2>7, QuorumAssumption DEF MaybeBlock
      <4>. QED  BY <2>2, <4>1, MayDrop
    <3>5. LockOf(e) = LV!NoLock
      BY <3>3 DEF LockOf, LV!NoLock
    <3>6. LV!MayPrecommit(n, cs.round, Nil, LockOf(e))
      BY <3>4, <3>5 DEF LV!MayPrecommit
    <3>7. Nil \in Values
      BY DEF Values
    <3>. QED  BY <2>5, <3>2, <3>3, <3>6, <3>7
  <2>8. CASE b \in Blocks /\ (cs.locked = b \/ cs.pblock = b)
    <3>1. PICK e : e = [cs EXCEPT !.lockedRound = cs.round, !.locked = b]
      OBVIOUS
    <3>2. LockAndPrecommit(cs, n, cs.round) = SignAddVote(e, n, Precommit, b)
      <4>1. CASE cs.locked = b
        <5>1. e = [cs EXCEPT !.lockedRound = cs.round]
          BY <1>0, <3>1, <4>1 DEF RoundState
        <5>. QED  BY <2>3, <2>8, <4>1, <5>1, QuorumAssumption DEF LockAndPrecommit
      <4>2. CASE cs.locked # b
        BY <2>3, <2>8, <3>1, <4>2, QuorumAssumption DEF LockAndPrecommit
      <4>. QED  BY <4>1, <4>2
    <3>3. /\ e \in RoundState /\ Relocked(e, cs) /\ e.pblock \in {None, e.parts}
          /\ e.locked = b /\ e.lockedRound = cs.round
      BY <1>0, <2>8, <3>1 DEF RoundState, Relocked, MaybeBlock, MaybeRound
    <3>4. b \in Values /\ b # Nil /\ VotersFor(cs, Prevote, cs.round, b) \in Quorums
      BY <2>4, <2>8, QuorumAssumption
    <3>5. LV!MayPrecommit(n, cs.round, b, LockOf(e))
      <4>1. LV!Polka(cs.round, b)
        BY <1>0, <3>4, KnownPolka
      <4>. QED  BY <3>3, <3>4, <4>1 DEF LV!MayPrecommit, LockOf
    <3>6. e.lockedRound <= cs.round
      BY SMTT(30), <1>0, <3>3
    <3>. QED  BY <2>5, <2>8, <3>2, <3>3, <3>4, <3>5, <3>6
  <2>9. CASE b \in Blocks /\ cs.locked # b /\ cs.pblock # b
    <3>1. PICK e : e = [Unlocked(cs) EXCEPT !.pblock = IF cs.parts = b THEN @ ELSE None,
                                            !.parts = b]
      OBVIOUS
    <3>2. LockAndPrecommit(cs, n, cs.round) = SignAddVote(e, n, Precommit, Nil)
      BY <2>3, <2>9, <3>1, QuorumAssumption DEF LockAndPrecommit
    <3>3. /\ e \in RoundState /\ Relocked(e, cs) /\ e.pblock \in {None, e.parts}
          /\ e.locked = None /\ e.lockedRound = -1
      <4>1. PICK u : u = Unlocked(cs)
        OBVIOUS
      <4>2. /\ u \in RoundState /\ Relocked(u, cs) /\ u.pblock = cs.pblock
            /\ u.locked = None /\ u.lockedRound = -1
        BY <1>0, <4>1 DEF Unlocked, RoundState, Relocked, MaybeBlock, MaybeRound
      <4>3. e = [u EXCEPT !.pblock = IF cs.parts = b THEN u.pblock ELSE None, !.parts = b]
        BY <3>1, <4>1
      <4>4. (IF cs.parts = b THEN u.pblock ELSE None) \in MaybeBlock /\ b \in MaybeBlock
        BY <2>9, <4>2 DEF RoundState, MaybeBlock
      <4>5. /\ e \in RoundState /\ Relocked(e, u)
            /\ e.locked = u.locked /\ e.lockedRound = u.lockedRound
            /\ e.pblock = (IF cs.parts = b THEN u.pblock ELSE None) /\ e.parts = b
        BY <4>2, <4>3, <4>4 DEF RoundState, Relocked
      <4>6. e.pblock \in {None, e.parts}
        BY <1>0, <4>2, <4>5
      <4>. QED  BY <4>2, <4>5, <4>6 DEF Relocked
    <3>4. LV!MayHold(n, LV!NoLock)
      <4>1. b \in Values /\ VotersFor(cs, Prevote, cs.round, b) \in Quorums
        BY <2>4, <2>9, QuorumAssumption
      <4>. QED  BY <2>2, <2>9, <4>1, MayDrop
    <3>5. LockOf(e) = LV!NoLock
      BY <3>3 DEF LockOf, LV!NoLock
    <3>6. LV!MayPrecommit(n, cs.round, Nil, LockOf(e))
      BY <3>4, <3>5 DEF LV!MayPrecommit
    <3>7. Nil \in Values
      BY DEF Values
    <3>. QED  BY <2>5, <3>2, <3>3, <3>6, <3>7
  <2>. QED  BY <2>4, <2>6, <2>7, <2>8, <2>9 DEF Values
<1>. QED  BY <1>1, <1>2

----------------------------------------------------------------------------
(* Waits, rounds and proposals *)

(* c differs from cs in the ticker only. *)
SameButTimer(c, cs) ==
    /\ c.round = cs.round /\ c.step = cs.step
    /\ c.proposal = cs.proposal /\ c.pblock = cs.pblock /\ c.parts = cs.parts
    /\ c.locked = cs.locked /\ c.lockedRound = cs.lockedRound
    /\ c.valid = cs.valid /\ c.validRound = cs.validRound
    /\ c.votes = cs.votes /\ c.decided = cs.decided
    /\ c.signed = cs.signed /\ c.queue = cs.queue /\ c.panic = cs.panic

LEMMA TickerTakes ==
    ASSUME NEW cs \in RoundState, NEW t \in Tocks,
           NEW c, c = [cs EXCEPT !.ti = t, !.tocks = @ \cup {t}]
    PROVE  c \in RoundState /\ SameButTimer(c, cs) /\ c.tocks = cs.tocks \cup {t}
<1>1. PICK d : d = [cs EXCEPT !.ti = t]
  OBVIOUS
<1>2. d \in RoundState /\ SameButTimer(d, cs) /\ d.tocks = cs.tocks
  BY <1>1 DEF RoundState, SameButTimer
<1>3. c = [d EXCEPT !.tocks = d.tocks \cup {t}]
  BY <1>1, <1>2
<1>4. c \in RoundState /\ SameButTimer(c, d) /\ c.tocks = d.tocks \cup {t}
  BY SMTT(30), <1>2, <1>3 DEF RoundState, SameButTimer
<1>. QED  BY <1>2, <1>4 DEF SameButTimer

LEMMA Scheduling ==
    ASSUME NEW cs \in RoundState, \A t \in cs.tocks : t.round <= cs.round,
           NEW s \in {Propose, PrevoteWait, PrecommitWait},
           NEW c, c = Scheduled(cs, cs.round, s)
    PROVE  /\ c \in RoundState /\ SameButTimer(c, cs)
           /\ \A t \in c.tocks : t.round <= cs.round
<1>1. CASE c = cs
  BY <1>1 DEF SameButTimer
<1>2. CASE c # cs
  <2>1. PICK t : t = [round |-> cs.round, step |-> s]
    OBVIOUS
  <2>2. t \in Tocks /\ t.round <= cs.round
    BY SMTT(30), <2>1, Ints DEF Tocks, RoundState
  <2>3. c = [cs EXCEPT !.ti = t, !.tocks = @ \cup {t}]
    BY <1>2, <2>1 DEF Scheduled
  <2>4. c \in RoundState /\ SameButTimer(c, cs) /\ c.tocks = cs.tocks \cup {t}
    BY <2>2, <2>3, TickerTakes
  <2>. QED  BY <2>2, <2>4
<1>. QED  BY <1>1, <1>2

LEMMA Basics ==
    ASSUME NEW n, NEW cs, NEW q, NEW V, NEW W, Mid(n, cs, q, V, W)
    PROVE  /\ n \in Validators /\ cs \in RoundState
           /\ cs.round \in Rounds /\ cs.round \in Int /\ cs.step \in Int
           /\ cs.lockedRound \in Int
           /\ cs.step # Done /\ cs.decided = None /\ cs.panic # "sanity"
           /\ cs.queue \in Seq(Messages(cs.signed))
           /\ cs.pblock \in {None, cs.parts}
           /\ \A t \in cs.tocks : t.round <= cs.round
           /\ InTurn(n, cs) /\ LockBacked(cs) /\ ValidBacked(cs) /\ Known(cs)
<1>1. cs \in RoundState
  BY DEF Mid, Live
<1>. QED  BY <1>1, Ints DEF Mid, Live, RoundState

LEMMA SameValid ==
    ASSUME NEW cs, ValidBacked(cs), NEW c,
           c.votes = cs.votes, c.valid = cs.valid, c.validRound = cs.validRound
    PROVE  ValidBacked(c)
  BY DEF ValidBacked, VotersFor

(* enterPrevoteWait, called in the current round and with +2/3 prevotes *)
LEMMA PrevoteWaitEntered ==
    ASSUME NEW n, NEW cs, NEW q, NEW V, NEW W, Mid(n, cs, q, V, W),
           HasTwoThirdsAny(cs, Prevote, cs.round),
           NEW c, c = EnterPrevoteWait(cs, cs.round)
    PROVE  Mid(n, c, q, V, W)
<1>1. CASE Halted(cs) \/ Behind(cs, cs.round, PrevoteWait)
  BY <1>1 DEF EnterPrevoteWait
<1>2. CASE ~(Halted(cs) \/ Behind(cs, cs.round, PrevoteWait))
  <2>0. cs \in RoundState /\ cs.round \in Rounds /\ \A t \in cs.tocks : t.round <= cs.round
    BY Basics
  <2>1. PICK d : d = Scheduled(cs, cs.round, PrevoteWait)
    OBVIOUS
  <2>2. c = At(d, cs.round, PrevoteWait)
    BY <1>2, <2>1 DEF EnterPrevoteWait
  <2>3. d \in RoundState /\ SameButTimer(d, cs) /\ \A t \in d.tocks : t.round <= cs.round
    BY <2>0, <2>1, Scheduling
  <2>4. PrevoteWait \in NewHeight .. Done /\ PrevoteWait # Done
    BY SMTT(30), Steps
  <2>5. /\ c \in RoundState /\ c.round = cs.round /\ c.step = PrevoteWait
        /\ c.pblock = cs.pblock /\ c.parts = cs.parts
        /\ c.locked = cs.locked /\ c.lockedRound = cs.lockedRound
        /\ c.valid = cs.valid /\ c.validRound = cs.validRound
        /\ c.votes = cs.votes /\ c.decided = cs.decided /\ c.tocks = d.tocks
        /\ c.signed = cs.signed /\ c.queue = cs.queue /\ c.panic = cs.panic
    BY SMTT(30), <2>0, <2>2, <2>3, <2>4, AtStep DEF SameButTimer
  <2>6. cs.step <= PrevoteWait
    BY SMTT(30), <1>2, Basics, Steps DEF Behind
  <2>7. ValidBacked(c)
    BY <2>5, Basics, SameValid
  <2>. QED  BY <2>3, <2>4, <2>5, <2>6, <2>7, Basics, Frame
<1>. QED  BY <1>1, <1>2

(* enterPrecommitWait, called with +2/3 precommits for a round not ahead *)
LEMMA PrecommitWaitEntered ==
    ASSUME NEW n, NEW cs, NEW q, NEW V, NEW W, Mid(n, cs, q, V, W),
           NEW r \in Rounds, Halted(cs) \/ r <= cs.round, HasTwoThirdsAny(cs, Precommit, r),
           NEW c, c = EnterPrecommitWait(cs, r)
    PROVE  Mid(n, c, q, V, W)
<1>1. CASE Halted(cs) \/ r < cs.round \/ (r = cs.round /\ cs.ttp)
  BY <1>1 DEF EnterPrecommitWait
<1>2. CASE ~(Halted(cs) \/ r < cs.round \/ (r = cs.round /\ cs.ttp))
  <2>0. cs \in RoundState /\ cs.round \in Rounds /\ \A t \in cs.tocks : t.round <= cs.round
    BY Basics
  <2>1. PICK d : d = Scheduled(cs, cs.round, PrecommitWait)
    OBVIOUS
  <2>2. r = cs.round
    BY SMTT(30), <1>2, Basics, ConsensusAssumption DEF Rounds
  <2>3. c = [d EXCEPT !.ttp = TRUE]
    BY <1>2, <2>1, <2>2 DEF EnterPrecommitWait
  <2>4. d \in RoundState /\ SameButTimer(d, cs) /\ \A t \in d.tocks : t.round <= cs.round
    BY <2>0, <2>1, Scheduling
  <2>5. c \in RoundState /\ SameButTimer(c, d) /\ c.tocks = d.tocks
    <3>1. d \in RoundState
      BY <2>4
    <3>. QED  BY <2>3, <3>1 DEF RoundState, SameButTimer
  <2>6. SameButTimer(c, cs)
    BY <2>4, <2>5 DEF SameButTimer
  <2>7. ValidBacked(c)
    BY <2>6, Basics, SameValid DEF SameButTimer
  <2>8. cs.step <= cs.step
    BY SMTT(30), Basics
  <2>. QED  BY SMTT(30), <2>4, <2>5, <2>6, <2>7, <2>8, Basics, Frame DEF SameButTimer
<1>. QED  BY <1>1, <1>2

LEMMA Sending ==
    ASSUME NEW cs \in RoundState, cs.queue \in Seq(Messages(cs.signed)),
           NEW m \in Messages(cs.signed), NEW c, c = Sent(cs, m)
    PROVE  /\ c \in RoundState /\ SameRound(c, cs)
           /\ c.signed = cs.signed /\ c.panic = cs.panic
           /\ c.queue \in Seq(Messages(c.signed))
<1>1. m \in Messages(Votes)
  BY DEF Messages, RoundState
<1>2. Append(cs.queue, m) \in Seq(Messages(Votes))
  BY SMTT(30), <1>1 DEF RoundState
<1>3. Append(cs.queue, m) \in Seq(Messages(cs.signed))
  BY SMTT(30)
<1>4. /\ c \in RoundState /\ SameRound(c, cs)
      /\ c.signed = cs.signed /\ c.panic = cs.panic
      /\ c.queue = Append(cs.queue, m)
  BY <1>2 DEF Sent, RoundState, SameRound
<1>. QED  BY <1>3, <1>4

LEMMA Proposing ==
    ASSUME NEW cs \in RoundState, cs.queue \in Seq(Messages(cs.signed)),
           NEW n, Proposer[cs.round] = n,
           NEW c, c = DecideProposal(cs, n, cs.round)
    PROVE  /\ c \in RoundState /\ SameRound(c, cs)
           /\ c.signed = cs.signed /\ c.panic = cs.panic
           /\ c.queue \in Seq(Messages(c.signed))
<1>1. PICK b : b = IF cs.valid # None THEN cs.valid ELSE <<n, cs.round>>
  OBVIOUS
<1>2. b \in Blocks
  BY <1>1 DEF RoundState, MaybeBlock, Blocks
<1>3. PICK p : p = [round |-> cs.round, block |-> b, pol |-> cs.validRound]
  OBVIOUS
<1>4. p \in Proposals
  BY <1>2, <1>3 DEF Proposals, RoundState
<1>5. PICK m1 : m1 = [kind |-> "proposal", proposal |-> p]
  OBVIOUS
<1>6. PICK m2 : m2 = [kind |-> "part", block |-> b]
  OBVIOUS
<1>7. m1 \in Messages(cs.signed) /\ m2 \in Messages(cs.signed)
  BY <1>2, <1>4, <1>5, <1>6 DEF Messages
<1>8. PICK d : d = Sent(cs, m1)
  OBVIOUS
<1>9. /\ d \in RoundState /\ SameRound(d, cs)
      /\ d.signed = cs.signed /\ d.panic = cs.panic
      /\ d.queue \in Seq(Messages(d.signed))
  BY <1>7, <1>8, Sending
<1>10. c = Sent(d, m2)
  BY <1>1, <1>3, <1>5, <1>6, <1>8 DEF DecideProposal
<1>11. /\ c \in RoundState /\ SameRound(c, d)
       /\ c.signed = d.signed /\ c.panic = d.panic
       /\ c.queue \in Seq(Messages(c.signed))
  BY SMTT(30), <1>7, <1>9, <1>10, Sending
<1>. QED  BY <1>9, <1>11 DEF SameRound

(* enterPropose, called at the start of a round; a handler that has signed     *)
(* votes calls it only for a round that has no proposal yet                    *)
LEMMA ProposeEntered ==
    ASSUME NEW n, NEW cs, NEW q, NEW V, NEW W, Mid(n, cs, q, V, W), cs.step = NewRound,
           NEW c, c = EnterPropose(cs, n, cs.round)
    PROVE  /\ cs.proposal = None =>
                 Mid(n, c, q, V, W) /\ c.votes = cs.votes /\ c.round = cs.round
           /\ V = {} /\ W = {} =>
                 /\ \E p, U : Mid(n, c, p, U, {}) /\ (U # {} => p = cs.round)
                 /\ c.votes = cs.votes /\ c.round = cs.round
<1>0. /\ n \in Validators /\ cs \in RoundState /\ cs.round \in Rounds /\ cs.round \in Int
      /\ cs.decided = None /\ cs.panic # "sanity"
      /\ cs.queue \in Seq(Messages(cs.signed))
      /\ cs.pblock \in {None, cs.parts}
      /\ \A t \in cs.tocks : t.round <= cs.round
      /\ ValidBacked(cs)
  BY Basics
<1>1. CASE Halted(cs)
  <2>1. c = cs
    BY <1>1 DEF EnterPropose
  <2>2. V = {} /\ W = {} => Mid(n, c, cs.round, V, {})
    BY <2>1 DEF Mid, Cast, Allowed
  <2>. QED  BY <2>1, <2>2
<1>2. CASE ~Halted(cs)
  <2>1. ~Behind(cs, cs.round, Propose)
    BY SMTT(30), <1>0, Steps DEF Behind
  <2>2. PICK c1 : c1 = Scheduled(cs, cs.round, Propose)
    OBVIOUS
  <2>3. PICK c2 : c2 = IF Proposer[cs.round] = n THEN DecideProposal(c1, n, cs.round) ELSE c1
    OBVIOUS
  <2>4. PICK c3 : c3 = At(c2, cs.round, Propose)
    OBVIOUS
  <2>5. c = IF IsProposalComplete(c3) THEN EnterPrevote(c3, n, cs.round) ELSE c3
    BY <1>2, <2>1, <2>2, <2>3, <2>4 DEF EnterPropose
  <2>6. c1 \in RoundState /\ SameButTimer(c1, cs) /\ \A t \in c1.tocks : t.round <= cs.round
    BY <1>0, <2>2, Scheduling
  <2>7. /\ c2 \in RoundState /\ SameRound(c2, c1)
        /\ c2.signed = c1.signed /\ c2.panic = c1.panic
        /\ c2.queue \in Seq(Messages(c2.signed))
    <3>1. c1.round = cs.round /\ c1.queue \in Seq(Messages(c1.signed))
      BY <1>0, <2>6 DEF SameButTimer
    <3>2. CASE Proposer[cs.round] = n
      BY <2>3, <2>6, <3>1, <3>2, Proposing
    <3>3. CASE Proposer[cs.round] # n
      BY <2>3, <2>6, <3>1, <3>3 DEF SameRound
    <3>. QED  BY <3>2, <3>3
  <2>8. Propose \in NewHeight .. Done /\ Propose # Done
    BY SMTT(30), Steps
  <2>9. /\ c3 \in RoundState /\ c3.round = cs.round /\ c3.step = Propose
        /\ c3.proposal = cs.proposal /\ c3.pblock = cs.pblock /\ c3.parts = cs.parts
        /\ c3.locked = cs.locked /\ c3.lockedRound = cs.lockedRound
        /\ c3.valid = cs.valid /\ c3.validRound = cs.validRound
        /\ c3.votes = cs.votes /\ c3.decided = cs.decided /\ c3.tocks = c1.tocks
        /\ c3.signed = cs.signed /\ c3.queue = c2.queue /\ c3.panic = cs.panic
    BY SMTT(30), <1>0, <2>4, <2>6, <2>7, <2>8, AtStep DEF SameButTimer, SameRound
  <2>10. cs.step <= Propose
    BY SMTT(30), Steps
  <2>11. ValidBacked(c3)
    BY <1>0, <2>9, SameValid
  <2>12. c3.queue \in Seq(Messages(cs.signed)) /\ \A t \in c3.tocks : t.round <= c3.round
    BY <2>6, <2>7, <2>9 DEF SameButTimer
  <2>13. Mid(n, c3, q, V, W)
    BY <1>0, <2>8, <2>9, <2>10, <2>11, <2>12, Frame
  <2>14. ASSUME cs.proposal = None
         PROVE  Mid(n, c, q, V, W) /\ c.votes = cs.votes /\ c.round = cs.round
    BY <2>5, <2>9, <2>13, <2>14 DEF IsProposalComplete
  <2>15. CASE IsProposalComplete(c3)
    <3>1. c = EnterPrevote(c3, n, c3.round)
      BY <2>5, <2>9, <2>15
    <3>2. cs.proposal # None
      BY <2>9, <2>15 DEF IsProposalComplete
    <3>3. ASSUME V = {} /\ W = {}
          PROVE  /\ \E U : Mid(n, c, c3.round, U, {})
                 /\ c.votes = c3.votes /\ c.round = c3.round
      BY SMTT(30), <2>13, <3>1, <3>3, PrevoteEntered
    <3>. QED  BY <2>9, <3>2, <3>3
  <2>16. CASE ~IsProposalComplete(c3)
    <3>1. c = c3
      BY <2>5, <2>16
    <3>2. V = {} /\ W = {} => Mid(n, c, cs.round, {}, {})
      BY <2>13, <3>1 DEF Mid, Cast, Allowed
    <3>. QED  BY <2>9, <2>13, <3>1, <3>2
  <2>. QED  BY <2>14, <2>15, <2>16
<1>. QED  BY <1>1, <1>2

Cleared(cs, r) ==
    LET c == [At(cs, r, NewRound) EXCEPT !.ttp = FALSE]
    IN  IF r = 0 THEN c
        ELSE [c EXCEPT !.proposal = None, !.pblock = None, !.parts = None]

LEMMA RoundCleared ==
    ASSUME NEW cs \in RoundState, NEW r \in Rounds, NEW c, c = Cleared(cs, r)
    PROVE  /\ c \in RoundState /\ c.round = r /\ c.step = NewRound
           /\ c.locked = cs.locked /\ c.lockedRound = cs.lockedRound
           /\ c.valid = cs.valid /\ c.validRound = cs.validRound
           /\ c.votes = cs.votes /\ c.decided = cs.decided /\ c.tocks = cs.tocks
           /\ c.signed = cs.signed /\ c.queue = cs.queue /\ c.panic = cs.panic
           /\ \/ c.proposal = None /\ c.pblock = None /\ c.parts = None
              \/ r = 0 /\ c.pblock = cs.pblock /\ c.parts = cs.parts
<1>1. PICK a : a = At(cs, r, NewRound)
  OBVIOUS
<1>2. NewRound \in NewHeight .. Done
  BY SMTT(30), Steps
<1>3. /\ a \in RoundState /\ a.round = r /\ a.step = NewRound
      /\ a.pblock = cs.pblock /\ a.parts = cs.parts
      /\ a.locked = cs.locked /\ a.lockedRound = cs.lockedRound
      /\ a.valid = cs.valid /\ a.validRound = cs.validRound
      /\ a.votes = cs.votes /\ a.decided = cs.decided /\ a.tocks = cs.tocks
      /\ a.signed = cs.signed /\ a.queue = cs.queue /\ a.panic = cs.panic
  BY SMTT(30), <1>1, <1>2, AtStep
<1>4. PICK d : d = [a EXCEPT !.ttp = FALSE]
  OBVIOUS
<1>5. /\ d \in RoundState /\ SameButTimer(d, a) /\ d.tocks = a.tocks
  <2>1. a \in RoundState
    BY <1>3
  <2>. QED  BY <1>4, <2>1 DEF RoundState, SameButTimer
<1>6. CASE r = 0
  <2>1. c = d
    BY <1>1, <1>4, <1>6 DEF Cleared
  <2>. QED  BY <1>3, <1>5, <1>6, <2>1 DEF SameButTimer
<1>7. CASE r # 0
  <2>1. c = [d EXCEPT !.proposal = None, !.pblock = None, !.parts = None]
    BY <1>1, <1>4, <1>7 DEF Cleared
  <2>2. c \in RoundState
    BY <1>5, <2>1 DEF RoundState, MaybeBlock
  <2>3. /\ c.round = d.round /\ c.step = d.step
        /\ c.locked = d.locked /\ c.lockedRound = d.lockedRound
        /\ c.valid = d.valid /\ c.validRound = d.validRound
        /\ c.votes = d.votes /\ c.decided = d.decided /\ c.tocks = d.tocks
        /\ c.signed = d.signed /\ c.queue = d.queue /\ c.panic = d.panic
        /\ c.proposal = None /\ c.pblock = None /\ c.parts = None
    BY <1>5, <2>1 DEF RoundState
  <2>. QED  BY <1>3, <1>5, <2>2, <2>3 DEF SameButTimer
<1>. QED  BY <1>6, <1>7

(* enterNewRound; a handler that has signed votes calls it for a later round *)
LEMMA NewRoundEntered ==
    ASSUME NEW n, NEW cs, NEW q, NEW V, NEW W, Mid(n, cs, q, V, W),
           NEW r \in Rounds, (V = {} /\ W = {}) \/ r # 0,
           NEW c, c = EnterNewRound(cs, n, r)
    PROVE  /\ c.votes = cs.votes /\ (Halted(c) \/ r <= c.round)
           /\ r # 0 => Mid(n, c, q, V, W)
           /\ V = {} /\ W = {} =>
                 \E p, U : Mid(n, c, p, U, {}) /\ (U # {} => p = c.round)
<1>0. /\ n \in Validators /\ cs \in RoundState /\ cs.round \in Rounds /\ cs.round \in Int
      /\ cs.step \in Int /\ r \in Int
      /\ cs.decided = None /\ cs.panic # "sanity"
      /\ cs.queue \in Seq(Messages(cs.signed))
      /\ cs.pblock \in {None, cs.parts}
      /\ \A t \in cs.tocks : t.round <= cs.round
      /\ ValidBacked(cs)
  BY SMTT(30), Basics, ConsensusAssumption DEF Rounds
<1>1. CASE Halted(cs) \/ r < cs.round \/ (r = cs.round /\ cs.step # NewHeight)
  <2>1. c = cs
    BY <1>1 DEF EnterNewRound
  <2>2. Halted(c) \/ r <= c.round
    BY SMTT(30), <1>0, <1>1, <2>1
  <2>3. V = {} /\ W = {} => Mid(n, c, c.round, {}, {})
    BY <2>1 DEF Mid, Cast, Allowed
  <2>. QED  BY <2>1, <2>2, <2>3
<1>2. CASE ~(Halted(cs) \/ r < cs.round \/ (r = cs.round /\ cs.step # NewHeight))
  <2>1. PICK d : d = Cleared(cs, r)
    OBVIOUS
  <2>2. /\ d \in RoundState /\ d.round = r /\ d.step = NewRound
        /\ d.locked = cs.locked /\ d.lockedRound = cs.lockedRound
        /\ d.valid = cs.valid /\ d.validRound = cs.validRound
        /\ d.votes = cs.votes /\ d.decided = cs.decided /\ d.tocks = cs.tocks
        /\ d.signed = cs.signed /\ d.queue = cs.queue /\ d.panic = cs.panic
        /\ \/ d.proposal = None /\ d.pblock = None /\ d.parts = None
           \/ r = 0 /\ d.pblock = cs.pblock /\ d.parts = cs.parts
    BY SMTT(30), <1>0, <2>1, RoundCleared
  <2>3. c = EnterPropose(d, n, d.round)
    <3>1. c = EnterPropose(d, n, r)
      BY <1>2, <2>1 DEF EnterNewRound, Cleared
    <3>. QED  BY <2>2, <3>1
  <2>4. cs.round < r \/ (cs.round = r /\ cs.step <= NewRound)
    BY SMTT(30), <1>0, <1>2, Steps
  <2>5. \A t \in d.tocks : t.round <= d.round
    <3>1. \A t \in cs.tocks : t.round \in Int
      BY <1>0, Ints
    <3>. QED  BY SMTT(30), <1>0, <2>2, <2>4, <3>1
  <2>6. ValidBacked(d) /\ NewRound # Done
    BY SMTT(30), <1>0, <2>2, SameValid, Steps
  <2>7. d.pblock \in {None, d.parts}
    BY <1>0, <2>2
  <2>8. Mid(n, d, q, V, W)
    BY <1>0, <2>2, <2>4, <2>5, <2>6, <2>7, Frame
  <2>9. r <= r
    BY SMTT(30), <1>0
  <2>. QED  BY SMTT(30), <2>2, <2>3, <2>8, <2>9, ProposeEntered
<1>. QED  BY <1>1, <1>2

----------------------------------------------------------------------------
(* Commit *)

LEMMA FreshState ==
    /\ Fresh \in RoundState
    /\ Fresh.panic = None /\ Fresh.locked = None /\ Fresh.lockedRound = -1
    /\ Fresh.valid = None /\ Fresh.signed = {} /\ Fresh.votes = {} /\ Fresh.decided = None
    /\ Fresh.step = NewHeight /\ Fresh.round = 0 /\ Fresh.queue = <<>>
    /\ Fresh.pblock = None /\ Fresh.parts = None
    /\ Fresh.tocks = {[round |-> 0, step |-> NewHeight]}
<1>1. 0 \in Rounds /\ 0 \in Nat
  BY SMTT(30), ConsensusAssumption DEF Rounds
<1>2. [round |-> 0, step |-> NewHeight] \in Tocks
  BY <1>1 DEF Tocks
<1>3. <<>> \in Seq(Messages(Votes)) /\ NewHeight \in NewHeight .. Done
  BY SMTT(30), Steps
<1>4. Fresh \in RoundState
  BY <1>1, <1>2, <1>3 DEF Fresh, RoundState, MaybeBlock, MaybeRound
<1>. QED  BY <1>4 DEF Fresh

LEMMA CommitTried ==
    ASSUME NEW n, NEW cs, NEW q, NEW V, NEW W, Mid(n, cs, q, V, W),
           NEW c, c = TryFinalizeCommit(cs)
    PROVE  End(n, c, q, V, W)
<1>0. /\ cs \in RoundState /\ cs.pblock \in {None, cs.parts} /\ Known(cs) /\ LockBacked(cs)
  BY Basics
<1>1. PICK b : b = TwoThirdsMajority(cs, Precommit, cs.commitRound)
  OBVIOUS
<1>2. CASE b \notin Blocks \/ cs.pblock # b
  <2>1. c = cs
    BY <1>1, <1>2 DEF TryFinalizeCommit
  <2>. QED  BY <2>1 DEF End
<1>3. CASE b \in Blocks /\ cs.pblock = b
  <2>1. cs.parts = b
    BY <1>0, <1>3, QuorumAssumption
  <2>2. PICK U : U = {v \in cs.votes : v.type = Precommit /\ v.round = cs.commitRound}
    OBVIOUS
  <2>3. c = [Fresh EXCEPT !.decided = b, !.step = Done, !.pblock = b,
                          !.signed = cs.signed, !.commitRound = cs.commitRound,
                          !.votes = U]
    BY <1>1, <1>3, <2>1, <2>2 DEF TryFinalizeCommit
  <2>4. U \in SUBSET Votes /\ U \subseteq cs.votes
    BY <1>0, <2>2 DEF RoundState
  <2>5. Done \in NewHeight .. Done
    BY SMTT(30), Steps
  <2>6. c \in RoundState
    <3>1. cs.signed \in SUBSET Votes /\ cs.commitRound \in MaybeRound /\ b \in MaybeBlock
      BY <1>0, <1>3 DEF RoundState, MaybeBlock
    <3>2. Fresh \in RoundState
      BY FreshState
    <3>3. PICK f : f = [Fresh EXCEPT !.decided = b, !.step = Done, !.pblock = b]
      OBVIOUS
    <3>4. f \in RoundState
      BY <2>5, <3>1, <3>2, <3>3 DEF RoundState
    <3>5. c = [f EXCEPT !.signed = cs.signed, !.commitRound = cs.commitRound, !.votes = U]
      BY <2>3, <3>3
    <3>. QED  BY <2>4, <3>1, <3>4, <3>5 DEF RoundState
  <2>7. /\ c.step = Done /\ c.decided = b /\ c.panic = None /\ c.locked = None
        /\ c.lockedRound = -1 /\ c.valid = None /\ c.signed = cs.signed /\ c.votes = U
    BY <2>3, FreshState DEF RoundState
  <2>8. Over(c) /\ Known(c)
    BY <1>0, <1>3, <2>4, <2>6, <2>7 DEF Over, Known
  <2>9. Cast(n, c, q, V, W)
    BY <2>7 DEF Mid, Cast
  <2>10. LV!Committed(cs.commitRound, b) /\ cs.commitRound \in Rounds
    <3>1. VotersFor(cs, Precommit, cs.commitRound, b) \in Quorums /\ cs.commitRound \in Rounds
      BY <1>0, <1>1, <1>3, Majority, QuorumAssumption
    <3>. QED  BY <1>0, <3>1, KnownCommit
  <2>11. LockOf(cs) \in LV!Locks /\ Allowed(n, q, V, W, LockOf(cs))
    BY <1>0, LockIsLock DEF Mid
  <2>. QED  BY <2>7, <2>8, <2>9, <2>10, <2>11 DEF End
<1>. QED  BY <1>2, <1>3

LEMMA CommitEntered ==
    ASSUME NEW n, NEW cs, NEW q, NEW V, NEW W, Mid(n, cs, q, V, W),
           NEW r \in Rounds, TwoThirdsMajority(cs, Precommit, r) \in Blocks,
           NEW c, c = EnterCommit(cs, r)
    PROVE  End(n, c, q, V, W)
<1>0. /\ cs \in RoundState /\ cs.step \in Int
      /\ cs.decided = None /\ cs.panic # "sanity"
      /\ cs.queue \in Seq(Messages(cs.signed))
      /\ cs.pblock \in {None, cs.parts}
      /\ \A t \in cs.tocks : t.round <= cs.round
      /\ ValidBacked(cs)
  BY Basics
<1>1. CASE Halted(cs) \/ Commit <= cs.step
  <2>1. c = cs
    BY <1>1 DEF EnterCommit
  <2>. QED  BY <2>1 DEF End
<1>2. CASE ~(Halted(cs) \/ Commit <= cs.step)
  <2>1. PICK b : b = TwoThirdsMajority(cs, Precommit, r)
    OBVIOUS
  <2>2. b \in Blocks /\ b # None
    BY <2>1, QuorumAssumption
  <2>3. PICK c1 : c1 = IF cs.locked = b THEN [cs EXCEPT !.pblock = b, !.parts = b] ELSE cs
    OBVIOUS
  <2>4. PICK c2 : c2 = IF c1.pblock # b /\ c1.parts # b
                       THEN [c1 EXCEPT !.pblock = None, !.parts = b] ELSE c1
    OBVIOUS
  <2>5. PICK d : d = [c2 EXCEPT !.step = Commit, !.commitRound = r]
    OBVIOUS
  <2>6. c = TryFinalizeCommit(d)
    BY <1>2, <2>1, <2>2, <2>3, <2>4, <2>5 DEF EnterCommit
  <2>7. /\ c1 \in RoundState /\ Relocked(c1, cs) /\ c1.pblock \in {None, c1.parts}
        /\ c1.locked = cs.locked /\ c1.lockedRound = cs.lockedRound
    <3>1. cs \in RoundState /\ b \in MaybeBlock
      BY <1>0, <2>2 DEF MaybeBlock
    <3>2. CASE cs.locked = b
      <4>1. c1 = [cs EXCEPT !.pblock = b, !.parts = b]
        BY <2>3, <3>2
      <4>. QED  BY <3>1, <4>1 DEF RoundState, Relocked
    <3>3. CASE cs.locked # b
      BY <1>0, <2>3, <3>3 DEF Relocked
    <3>. QED  BY <3>2, <3>3
  <2>8. /\ c2 \in RoundState /\ Relocked(c2, c1) /\ c2.pblock \in {None, c2.parts}
        /\ c2.locked = c1.locked /\ c2.lockedRound = c1.lockedRound
    <3>1. c1 \in RoundState /\ b \in MaybeBlock /\ None \in MaybeBlock
      BY <2>2, <2>7 DEF MaybeBlock
    <3>2. CASE c1.pblock # b /\ c1.parts # b
      <4>1. c2 = [c1 EXCEPT !.pblock = None, !.parts = b]
        BY <2>4, <3>2
      <4>. QED  BY <3>1, <4>1 DEF RoundState, Relocked
    <3>3. CASE ~(c1.pblock # b /\ c1.parts # b)
      <4>1. c2 = c1
        BY <2>4, <3>3
      <4>. QED  BY <2>7, <4>1 DEF Relocked
    <3>. QED  BY <3>2, <3>3
  <2>9. Commit \in NewHeight .. Done /\ Commit # Done /\ cs.step <= Commit
    BY SMTT(30), <1>0, <1>2, Steps
  <2>10. /\ d \in RoundState /\ d.step = Commit /\ d.round = c2.round
         /\ d.valid = c2.valid /\ d.validRound = c2.validRound
         /\ d.votes = c2.votes /\ d.decided = c2.decided /\ d.tocks = c2.tocks
         /\ d.signed = c2.signed /\ d.queue = c2.queue /\ d.panic = c2.panic
         /\ d.pblock = c2.pblock /\ d.parts = c2.parts
         /\ d.locked = c2.locked /\ d.lockedRound = c2.lockedRound
    <3>1. c2 \in RoundState /\ r \in MaybeRound
      BY <2>8 DEF MaybeRound
    <3>. QED  BY <2>5, <2>9, <3>1 DEF RoundState
  <2>11. ValidBacked(d)
    BY <1>0, <2>7, <2>8, <2>10, SameValid DEF Relocked
  <2>12. Mid(n, d, q, V, W)
    BY SMTT(30), <1>0, <2>7, <2>8, <2>9, <2>10, <2>11, Frame DEF Relocked
  <2>. QED  BY <2>6, <2>12, CommitTried
<1>. QED  BY <1>1, <1>2

----------------------------------------------------------------------------
(* The handlers *)

LEMMA PartAdded ==
    ASSUME NEW n, NEW cs, NEW q, Mid(n, cs, q, {}, {}), NEW b \in Blocks,
           NEW c, c = AddProposalBlockPart(cs, n, b)
    PROVE  \E p, V, W : End(n, c, p, V, W)
<1>0. /\ cs \in RoundState /\ cs.step \in Int /\ cs.round \in Rounds
      /\ cs.step # Done /\ cs.decided = None /\ cs.panic # "sanity"
      /\ cs.queue \in Seq(Messages(cs.signed))
      /\ \A t \in cs.tocks : t.round <= cs.round
      /\ ValidBacked(cs)
  BY Basics
<1>1. CASE cs.parts # b \/ cs.pblock = b
  <2>1. c = cs
    BY <1>1 DEF AddProposalBlockPart
  <2>. QED  BY <2>1 DEF End
<1>2. CASE ~(cs.parts # b \/ cs.pblock = b)
  <2>1. PICK maj : maj = TwoThirdsMajority(cs, Prevote, cs.round)
    OBVIOUS
  <2>2. PICK c1 : c1 = [cs EXCEPT !.pblock = b]
    OBVIOUS
  <2>3. PICK c2 : c2 = IF maj = b /\ cs.validRound < cs.round
                       THEN [c1 EXCEPT !.validRound = cs.round, !.valid = b] ELSE c1
    OBVIOUS
  <2>4. c = IF c2.step <= Propose /\ IsProposalComplete(c2)
            THEN LET c3 == EnterPrevote(c2, n, c2.round)
                 IN  IF maj # None THEN EnterPrecommit(c3, n, c3.round) ELSE c3
            ELSE IF c2.step = Commit THEN TryFinalizeCommit(c2) ELSE c2
    BY SMTT(30), <1>2, <2>1, <2>2, <2>3 DEF AddProposalBlockPart
  <2>5. /\ c1 \in RoundState
        /\ c1.round = cs.round /\ c1.step = cs.step /\ c1.pblock = b /\ c1.parts = cs.parts
        /\ c1.locked = cs.locked /\ c1.lockedRound = cs.lockedRound
        /\ c1.valid = cs.valid /\ c1.validRound = cs.validRound
        /\ c1.votes = cs.votes /\ c1.decided = cs.decided /\ c1.tocks = cs.tocks
        /\ c1.signed = cs.signed /\ c1.queue = cs.queue /\ c1.panic = cs.panic
    BY SMTT(30), <1>0, <2>2 DEF RoundState, MaybeBlock
  <2>6. /\ c2 \in RoundState
        /\ c2.round = cs.round /\ c2.step = cs.step /\ c2.pblock = b /\ c2.parts = cs.parts
        /\ c2.locked = cs.locked /\ c2.lockedRound = cs.lockedRound
        /\ c2.votes = cs.votes /\ c2.decided = cs.decided /\ c2.tocks = cs.tocks
        /\ c2.signed = cs.signed /\ c2.queue = cs.queue /\ c2.panic = cs.panic
        /\ \/ c2.valid = cs.valid /\ c2.validRound = cs.validRound
           \/ maj = b /\ c2.valid = b /\ c2.validRound = cs.round
    <3>1. c1 \in RoundState /\ cs.round \in MaybeRound /\ b \in MaybeBlock
      BY <1>0, <2>5 DEF MaybeRound, MaybeBlock
    <3>2. CASE maj = b /\ cs.validRound < cs.round
      <4>1. c2 = [c1 EXCEPT !.validRound = cs.round, !.valid = b]
        BY <2>3, <3>2
      <4>2. /\ c2 \in RoundState
            /\ c2.round = c1.round /\ c2.step = c1.step /\ c2.pblock = c1.pblock
            /\ c2.parts = c1.parts
            /\ c2.locked = c1.locked /\ c2.lockedRound = c1.lockedRound
            /\ c2.votes = c1.votes /\ c2.decided = c1.decided /\ c2.tocks = c1.tocks
            /\ c2.signed = c1.signed /\ c2.queue = c1.queue /\ c2.panic = c1.panic
            /\ c2.valid = b /\ c2.validRound = cs.round
        BY <3>1, <4>1 DEF RoundState
      <4>. QED  BY <2>5, <3>2, <4>2
    <3>3. CASE ~(maj = b /\ cs.validRound < cs.round)
      <4>1. c2 = c1
        BY <2>3, <3>3
      <4>. QED  BY <2>5, <4>1
    <3>. QED  BY <3>2, <3>3
  <2>7. ValidBacked(c2)
    <3>1. CASE c2.valid = cs.valid /\ c2.validRound = cs.validRound
      BY <1>0, <2>6, <3>1, SameValid
    <3>2. CASE maj = b /\ c2.valid = b /\ c2.validRound = cs.round
      <4>1. VotersFor(cs, Prevote, cs.round, b) \in Quorums
        BY <1>0, <2>1, <3>2, Majority, QuorumAssumption
      <4>. QED  BY <2>6, <3>2, <4>1 DEF ValidBacked, VotersFor
    <3>. QED  BY <2>6, <3>1, <3>2
  <2>8. Mid(n, c2, q, {}, {})
    <3>1. c2.pblock \in {None, c2.parts} /\ cs.step <= c2.step
      BY SMTT(30), <1>0, <1>2, <2>6
    <3>. QED  BY <1>0, <2>6, <2>7, <3>1, Frame
  <2>9. CASE c2.step <= Propose /\ IsProposalComplete(c2)
    <3>1. PICK c3 : c3 = EnterPrevote(c2, n, c2.round)
      OBVIOUS
    <3>2. c = IF maj # None THEN EnterPrecommit(c3, n, c3.round) ELSE c3
      BY <2>4, <2>9, <3>1
    <3>3. c3.round = c2.round /\ \E V : Mid(n, c3, c2.round, V, {})
      BY SMTT(30), <2>8, <3>1, PrevoteEntered
    <3>4. PICK V : Mid(n, c3, c3.round, V, {})
      BY <3>3
    <3>5. CASE maj # None
      <4>1. c = EnterPrecommit(c3, n, c3.round)
        BY <3>2, <3>5
      <4>2. \E p, W : Mid(n, c, p, V, W)
        BY <3>4, <4>1, PrecommitEntered
      <4>. QED  BY <4>2 DEF End
    <3>6. CASE maj = None
      BY <3>2, <3>4, <3>6 DEF End
    <3>. QED  BY <3>5, <3>6
  <2>10. CASE ~(c2.step <= Propose /\ IsProposalComplete(c2))
    <3>1. CASE c2.step = Commit
      <4>1. c = TryFinalizeCommit(c2)
        BY <2>4, <2>10, <3>1
      <4>. QED  BY <2>8, <4>1, CommitTried
    <3>2. CASE c2.step # Commit
      <4>1. c = c2
        BY <2>4, <2>10, <3>2
      <4>. QED  BY <2>8, <4>1 DEF End
    <3>. QED  BY <3>1, <3>2
  <2>. QED  BY <2>9, <2>10
<1>. QED  BY <1>1, <1>2

LEMMA ProposalSet ==
    ASSUME NEW n, NEW cs, NEW q, Mid(n, cs, q, {}, {}), NEW p \in Proposals,
           NEW c, c = SetProposal(cs, p)
    PROVE  Mid(n, c, q, {}, {})
<1>0. /\ cs \in RoundState /\ cs.step \in Int /\ cs.round \in Rounds
      /\ cs.step # Done /\ cs.decided = None /\ cs.panic # "sanity"
      /\ cs.queue \in Seq(Messages(cs.signed))
      /\ cs.pblock \in {None, cs.parts}
      /\ \A t \in cs.tocks : t.round <= cs.round
      /\ ValidBacked(cs)
  BY Basics
<1>1. CASE c = cs
  BY <1>1
<1>2. CASE c # cs
  <2>1. PICK b : b = IF cs.parts = None THEN p.block ELSE cs.parts
    OBVIOUS
  <2>2. c = [cs EXCEPT !.proposal = p, !.parts = b]
    BY <1>2, <2>1 DEF SetProposal
  <2>3. b \in MaybeBlock /\ cs.pblock \in {None, b}
    BY <1>0, <2>1 DEF RoundState, MaybeBlock, Proposals
  <2>4. /\ c \in RoundState
        /\ c.round = cs.round /\ c.step = cs.step /\ c.pblock = cs.pblock /\ c.parts = b
        /\ c.locked = cs.locked /\ c.lockedRound = cs.lockedRound
        /\ c.valid = cs.valid /\ c.validRound = cs.validRound
        /\ c.votes = cs.votes /\ c.decided = cs.decided /\ c.tocks = cs.tocks
        /\ c.signed = cs.signed /\ c.queue = cs.queue /\ c.panic = cs.panic
    <3>1. cs \in RoundState /\ b \in MaybeBlock
      BY <1>0, <2>3
    <3>2. c \in RoundState
      BY <2>2, <3>1 DEF RoundState
    <3>. QED  BY <2>2, <3>1, <3>2 DEF RoundState
  <2>5. ValidBacked(c) /\ cs.step <= c.step
    BY SMTT(30), <1>0, <2>4, SameValid
  <2>. QED  BY <1>0, <2>3, <2>4, <2>5, Frame
<1>. QED  BY <1>1, <1>2

LEMMA PolkaSeen ==
    ASSUME NEW n, NEW cs, NEW q, Mid(n, cs, q, {}, {}),
           NEW r, NEW b, b = TwoThirdsMajority(cs, Prevote, r), b # None,
           NEW c, c = SeenPolka(cs, r, b)
    PROVE  Mid(n, c, q, {}, {}) /\ c.round = cs.round /\ c.votes = cs.votes
<1>0. /\ cs \in RoundState /\ cs.step \in Int /\ cs.round \in Rounds
      /\ cs.step # Done /\ cs.decided = None /\ cs.panic # "sanity"
      /\ cs.queue \in Seq(Messages(cs.signed))
      /\ cs.pblock \in {None, cs.parts}
      /\ \A t \in cs.tocks : t.round <= cs.round
      /\ ValidBacked(cs) /\ n \in Validators /\ Known(cs) /\ InTurn(n, cs)
  BY Basics
<1>1. b \in Values /\ VotersFor(cs, Prevote, r, b) \in Quorums /\ r \in Rounds
  BY <1>0, Majority
<1>2. PICK d : d = IF /\ cs.locked # None /\ cs.locked # b
                      /\ cs.lockedRound < r /\ r <= cs.round
                   THEN Unlocked(cs) ELSE cs
  OBVIOUS
<1>3. /\ Mid(n, d, q, {}, {}) /\ Relocked(d, cs)
      /\ d.pblock = cs.pblock /\ d.parts = cs.parts
  <2>1. CASE d = cs
    BY <2>1 DEF Relocked
  <2>2. CASE d # cs
    <3>1. d = Unlocked(cs) /\ cs.locked # b /\ cs.lockedRound < r
      BY <1>2, <2>2
    <3>2. /\ d \in RoundState /\ Relocked(d, cs)
          /\ d.pblock = cs.pblock /\ d.parts = cs.parts
          /\ d.locked = None /\ d.lockedRound = -1
      <4>1. cs \in RoundState
        BY <1>0
      <4>. QED  BY <3>1, <4>1 DEF Unlocked, RoundState, Relocked, MaybeBlock, MaybeRound
    <3>3. LV!MayHold(n, LV!NoLock)
      BY <1>1, <3>1, MayDrop
    <3>4. LockOf(d) = LV!NoLock
      BY <3>2 DEF LockOf, LV!NoLock
    <3>5. Allowed(n, q, {}, {}, LockOf(d))
      BY <3>3, <3>4 DEF Allowed
    <3>6. ValidBacked(d)
      BY <1>0, <3>2, SameValid DEF Relocked
    <3>7. InTurn(n, d) /\ LockBacked(d) /\ Known(d)
      BY <1>0, <3>2 DEF InTurn, LockBacked, Known, Relocked
    <3>8. Live(n, d)
      BY <1>0, <3>2, <3>6, <3>7 DEF Live, Relocked
    <3>9. Cast(n, d, q, {}, {})
      BY <3>2 DEF Cast, Mid, Relocked
    <3>. QED  BY <1>0, <3>2, <3>5, <3>7, <3>8, <3>9 DEF Mid
  <2>. QED  BY <2>1, <2>2
<1>4. CASE b = Nil \/ ~(cs.validRound < r) \/ r # cs.round
  <2>1. c = d
    BY <1>2, <1>4 DEF SeenPolka
  <2>. QED  BY <1>3, <2>1 DEF Relocked
<1>5. CASE ~(b = Nil \/ ~(cs.validRound < r) \/ r # cs.round)
  <2>1. b \in Blocks /\ b \in MaybeBlock /\ r \in MaybeRound /\ None \in MaybeBlock
    BY <1>1, <1>5 DEF Values, MaybeBlock, MaybeRound
  <2>2. d \in RoundState
    BY <1>3, Basics
  <2>3. CASE cs.pblock = b
    <3>1. c = [d EXCEPT !.validRound = r, !.valid = b, !.parts = b]
      BY <1>2, <1>5, <2>3 DEF SeenPolka
    <3>2. c \in RoundState
      BY <2>1, <2>2, <3>1 DEF RoundState
    <3>3. /\ c.round = d.round /\ c.step = d.step /\ c.pblock = d.pblock /\ c.parts = b
          /\ c.locked = d.locked /\ c.lockedRound = d.lockedRound
          /\ c.valid = b /\ c.validRound = r
          /\ c.votes = d.votes /\ c.decided = d.decided /\ c.tocks = d.tocks
          /\ c.signed = d.signed /\ c.queue = d.queue /\ c.panic = d.panic
      BY <2>2, <3>1 DEF RoundState
    <3>4. ValidBacked(c)
      BY SMTT(30), <1>1, <1>3, <3>3 DEF ValidBacked, VotersFor, Relocked
    <3>5. d.step <= c.step /\ c.pblock \in {None, c.parts}
      BY SMTT(30), <1>0, <1>3, <2>3, <3>3 DEF Relocked
    <3>6. Mid(n, c, q, {}, {})
      BY SMTT(30), <1>0, <1>3, <3>2, <3>3, <3>4, <3>5, Frame DEF Relocked
    <3>. QED  BY <1>3, <3>3, <3>6 DEF Relocked
  <2>4. CASE cs.pblock # b
    <3>1. c = [d EXCEPT !.pblock = None, !.parts = b]
      BY <1>2, <1>5, <2>4 DEF SeenPolka
    <3>2. c \in RoundState
      BY <2>1, <2>2, <3>1 DEF RoundState
    <3>3. /\ c.round = d.round /\ c.step = d.step /\ c.pblock = None /\ c.parts = b
          /\ c.locked = d.locked /\ c.lockedRound = d.lockedRound
          /\ c.valid = d.valid /\ c.validRound = d.validRound
          /\ c.votes = d.votes /\ c.decided = d.decided /\ c.tocks = d.tocks
          /\ c.signed = d.signed /\ c.queue = d.queue /\ c.panic = d.panic
      BY <2>2, <3>1 DEF RoundState
    <3>4. ValidBacked(c)
      BY <1>3, <3>3, Basics, SameValid
    <3>5. d.step <= c.step /\ c.pblock \in {None, c.parts}
      BY SMTT(30), <1>0, <1>3, <3>3 DEF Relocked
    <3>6. Mid(n, c, q, {}, {})
      BY SMTT(30), <1>0, <1>3, <3>2, <3>3, <3>4, <3>5, Frame DEF Relocked
    <3>. QED  BY <1>3, <3>3, <3>6 DEF Relocked
  <2>. QED  BY <2>3, <2>4
<1>. QED  BY <1>4, <1>5

LEMMA PrevoteAdded ==
    ASSUME NEW n, NEW cs, NEW q, Mid(n, cs, q, {}, {}), NEW r \in Rounds,
           NEW c, c = AddPrevote(cs, n, r)
    PROVE  \E p, V, W : Mid(n, c, p, V, W)
<1>1. PICK maj : maj = TwoThirdsMajority(cs, Prevote, r)
  OBVIOUS
<1>2. PICK c1 : c1 = IF maj # None THEN SeenPolka(cs, r, maj) ELSE cs
  OBVIOUS
<1>3. Mid(n, c1, q, {}, {}) /\ c1.round = cs.round /\ c1.votes = cs.votes
  <2>1. CASE maj # None
    <3>1. c1 = SeenPolka(cs, r, maj)
      BY <1>2, <2>1
    <3>. QED  BY SMTT(30), <1>1, <2>1, <3>1, PolkaSeen
  <2>2. CASE maj = None
    BY <1>2, <2>2
  <2>. QED  BY <2>1, <2>2
<1>4. \/ c = EnterNewRound(c1, n, r)
      \/ c1.round = r /\ c = EnterPrecommit(c1, n, r)
      \/ c1.round = r /\ HasTwoThirdsAny(cs, Prevote, r) /\ c = EnterPrevoteWait(c1, r)
      \/ c = EnterPrevote(c1, n, c1.round)
      \/ c = c1
  BY <1>1, <1>2 DEF AddPrevote
<1>5. CASE c = EnterNewRound(c1, n, r)
  BY <1>3, <1>5, NewRoundEntered
<1>6. CASE c1.round = r /\ c = EnterPrecommit(c1, n, r)
  BY <1>3, <1>6, PrecommitEntered
<1>7. CASE c1.round = r /\ HasTwoThirdsAny(cs, Prevote, r) /\ c = EnterPrevoteWait(c1, r)
  <2>1. HasTwoThirdsAny(c1, Prevote, c1.round)
    BY <1>3, <1>7 DEF HasTwoThirdsAny, Voters
  <2>. QED  BY <1>3, <1>7, <2>1, PrevoteWaitEntered
<1>8. CASE c = EnterPrevote(c1, n, c1.round)
  BY <1>3, <1>8, PrevoteEntered
<1>9. CASE c = c1
  BY <1>3, <1>9
<1>. QED  BY <1>4, <1>5, <1>6, <1>7, <1>8, <1>9

LEMMA PrecommitAdded ==
    ASSUME NEW n, NEW cs, NEW q, Mid(n, cs, q, {}, {}), NEW r \in Rounds,
           NEW c, c = AddPrecommit(cs, n, r)
    PROVE  \E p, V, W : End(n, c, p, V, W)
<1>0. cs \in RoundState
  BY Basics
<1>1. PICK maj : maj = TwoThirdsMajority(cs, Precommit, r)
  OBVIOUS
<1>2. PICK c1 : c1 = EnterNewRound(cs, n, r)
  OBVIOUS
<1>3. PICK c2 : c2 = EnterPrecommit(c1, n, r)
  OBVIOUS
<1>4. /\ c1.votes = cs.votes /\ (Halted(c1) \/ r <= c1.round)
      /\ \E p, U : Mid(n, c1, p, U, {}) /\ (U # {} => p = c1.round)
  BY SMTT(30), <1>2, NewRoundEntered
<1>5. PICK p, U : Mid(n, c1, p, U, {}) /\ (U # {} => p = c1.round)
  BY <1>4
<1>6. c1.round \in Int /\ r \in Int
  BY SMTT(30), <1>5, Basics, ConsensusAssumption DEF Rounds
<1>7. /\ \E o, W : Mid(n, c2, o, U, W)
      /\ c2.votes = c1.votes /\ (Halted(c2) \/ r <= c2.round)
  <2>1. CASE Halted(c1) \/ r < c1.round
    <3>1. c2 = c1
      BY <1>3, <2>1 DEF EnterPrecommit, Behind
    <3>. QED  BY <1>4, <1>5, <3>1
  <2>2. CASE r = c1.round
    <3>1. c2 = EnterPrecommit(c1, n, c1.round)
      BY <1>3, <2>2
    <3>2. (\E o, W : Mid(n, c2, o, U, W)) /\ c2.votes = c1.votes /\ c2.round = c1.round
      BY SMTT(30), <1>5, <3>1, PrecommitEntered
    <3>. QED  BY SMTT(30), <1>6, <2>2, <3>2
  <2>. QED  BY SMTT(30), <1>4, <1>6, <2>1, <2>2
<1>8. PICK o, W : Mid(n, c2, o, U, W)
  BY <1>7
<1>9. CASE maj \in Blocks
  <2>1. c = EnterCommit(c2, r)
    BY <1>1, <1>2, <1>3, <1>9, QuorumAssumption DEF AddPrecommit
  <2>2. TwoThirdsMajority(c2, Precommit, r) \in Blocks
    BY <1>1, <1>4, <1>7, <1>9 DEF TwoThirdsMajority, VotersFor
  <2>. QED  BY <1>8, <2>1, <2>2, CommitEntered
<1>10. CASE maj = Nil
  <2>1. c = EnterPrecommitWait(c2, r)
    BY <1>1, <1>2, <1>3, <1>10, QuorumAssumption DEF AddPrecommit
  <2>2. HasTwoThirdsAny(cs, Precommit, r)
    BY <1>0, <1>1, <1>10, Majority, QuorumAssumption
  <2>3. HasTwoThirdsAny(c2, Precommit, r)
    BY <1>4, <1>7, <2>2 DEF HasTwoThirdsAny, Voters
  <2>4. Mid(n, c, o, U, W)
    BY <1>7, <1>8, <2>1, <2>3, PrecommitWaitEntered
  <2>. QED  BY <2>4 DEF End
<1>11. CASE maj = None
  <2>1. CASE cs.round <= r /\ HasTwoThirdsAny(cs, Precommit, r)
    <3>1. c = EnterPrecommitWait(c1, r)
      BY <1>1, <1>2, <1>11, <2>1, QuorumAssumption DEF AddPrecommit
    <3>2. HasTwoThirdsAny(c1, Precommit, r)
      BY <1>4, <2>1 DEF HasTwoThirdsAny, Voters
    <3>3. Mid(n, c, p, U, {})
      BY <1>4, <1>5, <3>1, <3>2, PrecommitWaitEntered
    <3>. QED  BY <3>3 DEF End
  <2>2. CASE ~(cs.round <= r /\ HasTwoThirdsAny(cs, Precommit, r))
    <3>1. c = cs
      BY <1>1, <1>11, <2>2, QuorumAssumption DEF AddPrecommit
    <3>. QED  BY <3>1 DEF End
  <2>. QED  BY <2>1, <2>2
<1>. QED  BY <1>0, <1>1, <1>9, <1>10, <1>11, Majority DEF Values

LEMMA VoteStored ==
    ASSUME NEW n, NEW cs, NEW q, Mid(n, cs, q, {}, {}),
           NEW v \in Votes, v \in rs[v.val].signed,
           NEW c, c = [cs EXCEPT !.votes = @ \cup {v}]
    PROVE  Mid(n, c, q, {}, {})
<1>0. /\ cs \in RoundState /\ cs.step # Done /\ cs.decided = None /\ cs.panic # "sanity"
      /\ cs.queue \in Seq(Messages(cs.signed))
      /\ cs.pblock \in {None, cs.parts}
      /\ \A t \in cs.tocks : t.round <= cs.round
      /\ ValidBacked(cs) /\ n \in Validators /\ Known(cs) /\ InTurn(n, cs) /\ LockBacked(cs)
  BY Basics
<1>1. PICK U : U = cs.votes \cup {v}
  OBVIOUS
<1>2. U \in SUBSET Votes /\ c = [cs EXCEPT !.votes = U] /\ cs \in RoundState
  BY <1>0, <1>1 DEF RoundState
<1>3. c \in RoundState
  BY <1>2 DEF RoundState
<1>4. /\ c.round = cs.round /\ c.step = cs.step /\ c.pblock = cs.pblock /\ c.parts = cs.parts
      /\ c.locked = cs.locked /\ c.lockedRound = cs.lockedRound
      /\ c.valid = cs.valid /\ c.validRound = cs.validRound
      /\ c.votes = U /\ c.decided = cs.decided /\ c.tocks = cs.tocks
      /\ c.signed = cs.signed /\ c.queue = cs.queue /\ c.panic = cs.panic
  BY <1>2 DEF RoundState
<1>5. ASSUME NEW r, NEW b, VotersFor(cs, Prevote, r, b) \in Quorums
      PROVE  VotersFor(c, Prevote, r, b) \in Quorums
  <2>1. cs.votes \subseteq c.votes
    BY <1>1, <1>4
  <2>. QED  BY <1>0, <1>3, <1>5, <2>1, MoreVotes
<1>6. LockBacked(c) /\ ValidBacked(c) /\ InTurn(n, c)
  BY <1>0, <1>4, <1>5 DEF LockBacked, ValidBacked, InTurn
<1>7. Known(c)
  BY <1>0, <1>1, <1>4 DEF Known
<1>8. Live(n, c)
  BY <1>0, <1>3, <1>4, <1>6 DEF Live
<1>9. LockOf(c) = LockOf(cs) /\ Cast(n, c, q, {}, {})
  BY <1>4 DEF LockOf, Cast, Mid
<1>. QED  BY <1>0, <1>7, <1>8, <1>9 DEF Mid

LEMMA VoteAdded ==
    ASSUME NEW n, NEW cs, NEW q, Mid(n, cs, q, {}, {}),
           NEW v \in Votes, v \in rs[v.val].signed,
           NEW c, c = AddVote(cs, n, v)
    PROVE  \E p, V, W : End(n, c, p, V, W)
<1>1. PICK c1 : c1 = [cs EXCEPT !.votes = @ \cup {v}]
  OBVIOUS
<1>2. Mid(n, c1, q, {}, {})
  BY <1>1, VoteStored
<1>3. v.round \in Rounds
  BY DEF Votes
<1>4. c = c1 \/ c = AddPrevote(c1, n, v.round) \/ c = AddPrecommit(c1, n, v.round)
  BY <1>1 DEF AddVote
<1>5. CASE c = c1
  BY <1>2, <1>5 DEF End
<1>6. CASE c = AddPrevote(c1, n, v.round)
  <2>1. \E p, V, W : Mid(n, c, p, V, W)
    BY <1>2, <1>3, <1>6, PrevoteAdded
  <2>. QED  BY <2>1 DEF End
<1>7. CASE c = AddPrecommit(c1, n, v.round)
  BY <1>2, <1>3, <1>7, PrecommitAdded
<1>. QED  BY <1>4, <1>5, <1>6, <1>7

LEMMA MsgHandled ==
    ASSUME NEW n, NEW cs, NEW q, Mid(n, cs, q, {}, {}),
           NEW m \in Messages(rs[n].signed),
           \A v \in rs[n].signed : v \in Votes /\ v.val = n,
           NEW c, c = HandleMsg(cs, n, m)
    PROVE  \E p, V, W : End(n, c, p, V, W)
<1>1. \/ m.kind = "proposal" /\ m.proposal \in Proposals
      \/ m.kind = "part" /\ m.block \in Blocks
      \/ m.kind = "vote" /\ m.vote \in rs[n].signed
  BY DEF Messages
<1>2. CASE m.kind = "proposal" /\ m.proposal \in Proposals
  <2>1. c = SetProposal(cs, m.proposal)
    BY <1>2 DEF HandleMsg
  <2>2. Mid(n, c, q, {}, {})
    BY <1>2, <2>1, ProposalSet
  <2>. QED  BY <2>2 DEF End
<1>3. CASE m.kind = "part" /\ m.block \in Blocks
  <2>1. c = AddProposalBlockPart(cs, n, m.block)
    BY <1>3 DEF HandleMsg
  <2>. QED  BY <1>3, <2>1, PartAdded
<1>4. CASE m.kind = "vote" /\ m.vote \in rs[n].signed
  <2>1. c = AddVote(cs, n, m.vote)
    BY <1>4 DEF HandleMsg
  <2>2. m.vote \in Votes /\ m.vote \in rs[m.vote.val].signed
    BY <1>4
  <2>. QED  BY <2>1, <2>2, VoteAdded
<1>. QED  BY <1>1, <1>2, <1>3, <1>4

LEMMA TimeoutHandled ==
    ASSUME NEW n, NEW cs, NEW q, Mid(n, cs, q, {}, {}),
           NEW t \in Tocks, t.round <= cs.round,
           t.step = PrecommitWait => t.round < MaxRound,
           NEW c, c = HandleTimeout(cs, n, t)
    PROVE  \E p, V, W : Mid(n, c, p, V, W)
<1>0. /\ cs \in RoundState /\ cs.round \in Int /\ t.round \in Int /\ t.round \in Rounds
      /\ t.step \in {NewHeight, Propose, PrevoteWait, PrecommitWait}
  BY SMTT(30), Basics, ConsensusAssumption DEF Tocks, Rounds
<1>1. PICK c1 : c1 = EnterPrecommit(cs, n, t.round)
  OBVIOUS
<1>2. \E p, W : Mid(n, c1, p, {}, W)
  <2>1. CASE t.round < cs.round
    <3>1. c1 = cs
      BY <1>1, <2>1 DEF EnterPrecommit, Behind
    <3>. QED  BY <3>1
  <2>2. CASE t.round = cs.round
    BY <1>1, <2>2, PrecommitEntered
  <2>. QED  BY SMTT(30), <1>0, <2>1, <2>2
<1>3. CASE t.step = NewHeight
  <2>1. c = EnterNewRound(cs, n, 0) /\ 0 \in Rounds
    BY SMTT(30), <1>3, Steps, ConsensusAssumption DEF HandleTimeout, Rounds
  <2>. QED  BY <2>1, NewRoundEntered
<1>4. CASE t.step = Propose
  <2>1. c = EnterPrevote(cs, n, t.round)
    BY SMTT(30), <1>4, Steps DEF HandleTimeout
  <2>2. CASE t.round < cs.round
    <3>1. c = cs
      BY <2>1, <2>2 DEF EnterPrevote, Behind
    <3>. QED  BY <3>1
  <2>3. CASE t.round = cs.round
    BY <2>1, <2>3, PrevoteEntered
  <2>. QED  BY SMTT(30), <1>0, <2>2, <2>3
<1>5. CASE t.step = PrevoteWait
  <2>1. c = c1
    BY SMTT(30), <1>1, <1>5, Steps DEF HandleTimeout
  <2>. QED  BY <1>2, <2>1
<1>6. CASE t.step = PrecommitWait
  <2>1. c = EnterNewRound(c1, n, t.round + 1)
    BY SMTT(30), <1>1, <1>6, Steps DEF HandleTimeout
  <2>2. t.round + 1 \in Rounds /\ t.round + 1 # 0
    <3>1. \A i, m \in Nat : i < m => i + 1 \in 0..m /\ i + 1 # 0
      BY SMTT(30)
    <3>2. t.round \in Nat /\ MaxRound \in Nat /\ t.round < MaxRound
      <4>1. MaxRound \in Nat /\ t.round \in 0..MaxRound
        BY <1>0, ConsensusAssumption DEF Rounds
      <4>2. \A m \in Nat : \A i \in 0..m : i \in Nat
        BY SMTT(30)
      <4>. QED  BY <1>6, <4>1, <4>2
    <3>. QED  BY <3>1, <3>2 DEF Rounds
  <2>. QED  BY SMTT(30), <1>2, <2>1, <2>2, NewRoundEntered
<1>. QED  BY <1>0, <1>3, <1>4, <1>5, <1>6

----------------------------------------------------------------------------
(* A step of the network *)

LEMMA Untouched ==
    ASSUME IInv, NEW n \in Validators, Running(n)
    PROVE  Mid(n, rs[n], 0, {}, {}) /\ \A v \in rs[n].signed : v \in Votes /\ v.val = n
<1>1. rs[n].step # Done
  BY DEF Running
<1>2. Live(n, rs[n]) /\ Known(rs[n])
  BY <1>1 DEF IInv, Over
<1>3. Cast(n, rs[n], 0, {}, {})
  BY DEF Cast
<1>4. LV!MayHold(n, LockOf(rs[n]))
  BY DEF LV!MayHold, LockOf
<1>5. Allowed(n, 0, {}, {}, LockOf(rs[n]))
  BY <1>4 DEF Allowed
<1>6. \A v \in rs[n].signed : v \in Votes /\ v.val = n
  BY <1>2 DEF Live, InTurn, RoundState
<1>. QED  BY <1>2, <1>3, <1>5, <1>6 DEF Mid

LEMMA InSigned ==
    ASSUME NEW t, NEW x
    PROVE  x \in Signed(t) <=>
              \E n \in Validators : \E v \in rs[n].signed :
                  v.type = t /\ x = <<n, v.round, v.block>>
  BY SMTT(30) DEF Signed

LEMMA InSignedNext ==
    ASSUME NEW t, NEW x
    PROVE  x \in Signed(t)' <=>
              \E n \in Validators : \E v \in rs'[n].signed :
                  v.type = t /\ x = <<n, v.round, v.block>>
  BY SMTT(30) DEF Signed

Ballots(n, r, V) == {<<n, r, v>> : v \in V}

LEMMA SignedGrows ==
    ASSUME rs \in [Validators -> RoundState], NEW n \in Validators, NEW d,
           rs' = [rs EXCEPT ![n] = d],
           NEW r, NEW V, NEW W, Cast(n, d, r, V, W)
    PROVE  /\ Signed(Prevote)' = Signed(Prevote) \cup Ballots(n, r, V)
           /\ Signed(Precommit)' = Signed(Precommit) \cup Ballots(n, r, W)
<1>1. Prevote # Precommit
  BY SMTT(30), Steps
<1>2. rs'[n] = d /\ \A m \in Validators : m # n => rs'[m] = rs[m]
  OBVIOUS
<1>3. d.signed = rs[n].signed \cup {Vote(n, Prevote, r, v) : v \in V}
                              \cup {Vote(n, Precommit, r, w) : w \in W}
  BY DEF Cast
<1>4. \A v, t : /\ Vote(n, t, r, v).type = t /\ Vote(n, t, r, v).round = r
                /\ Vote(n, t, r, v).block = v
  BY DEF Vote
<1>5. ASSUME NEW x
      PROVE  x \in Signed(Prevote)' <=> x \in Signed(Prevote) \/ \E v \in V : x = <<n, r, v>>
  <2>1. ASSUME x \in Signed(Prevote)'
        PROVE  x \in Signed(Prevote) \/ \E v \in V : x = <<n, r, v>>
    <3>1. PICK m \in Validators : \E v \in rs'[m].signed :
              v.type = Prevote /\ x = <<m, v.round, v.block>>
      BY SMTT(30), <2>1, InSignedNext
    <3>2. PICK v \in rs'[m].signed : v.type = Prevote /\ x = <<m, v.round, v.block>>
      BY <3>1
    <3>3. CASE v \in rs[m].signed
      BY <3>2, <3>3, InSigned
    <3>4. CASE v \notin rs[m].signed
      <4>1. m = n
        BY <1>2, <3>4
      <4>2. \/ \E u \in V : v = Vote(n, Prevote, r, u)
            \/ \E w \in W : v = Vote(n, Precommit, r, w)
        BY <1>2, <1>3, <3>4, <4>1
      <4>. QED  BY SMTT(30), <1>1, <1>4, <3>2, <4>1, <4>2
    <3>. QED  BY <3>3, <3>4
  <2>2. ASSUME x \in Signed(Prevote)
        PROVE  x \in Signed(Prevote)'
    <3>1. PICK m \in Validators : \E v \in rs[m].signed :
              v.type = Prevote /\ x = <<m, v.round, v.block>>
      BY SMTT(30), <2>2, InSigned
    <3>2. rs[m].signed \subseteq rs'[m].signed
      BY <1>2, <1>3
    <3>. QED  BY <3>1, <3>2, InSignedNext
  <2>3. ASSUME NEW v \in V, x = <<n, r, v>>
        PROVE  x \in Signed(Prevote)'
    <3>1. Vote(n, Prevote, r, v) \in rs'[n].signed
      BY <1>2, <1>3
    <3>. QED  BY SMTT(30), <1>4, <2>3, <3>1, InSignedNext
  <2>. QED  BY <2>1, <2>2, <2>3
<1>6. ASSUME NEW x
      PROVE  x \in Signed(Precommit)' <=> x \in Signed(Precommit) \/ \E w \in W : x = <<n, r, w>>
  <2>1. ASSUME x \in Signed(Precommit)'
        PROVE  x \in Signed(Precommit) \/ \E w \in W : x = <<n, r, w>>
    <3>1. PICK m \in Validators : \E v \in rs'[m].signed :
              v.type = Precommit /\ x = <<m, v.round, v.block>>
      BY SMTT(30), <2>1, InSignedNext
    <3>2. PICK v \in rs'[m].signed : v.type = Precommit /\ x = <<m, v.round, v.block>>
      BY <3>1
    <3>3. CASE v \in rs[m].signed
      BY <3>2, <3>3, InSigned
    <3>4. CASE v \notin rs[m].signed
      <4>1. m = n
        BY <1>2, <3>4
      <4>2. \/ \E u \in V : v = Vote(n, Prevote, r, u)
            \/ \E w \in W : v = Vote(n, Precommit, r, w)
        BY <1>2, <1>3, <3>4, <4>1
      <4>. QED  BY SMTT(30), <1>1, <1>4, <3>2, <4>1, <4>2
    <3>. QED  BY <3>3, <3>4
  <2>2. ASSUME x \in Signed(Precommit)
        PROVE  x \in Signed(Precommit)'
    <3>1. PICK m \in Validators : \E v \in rs[m].signed :
              v.type = Precommit /\ x = <<m, v.round, v.block>>
      BY SMTT(30), <2>2, InSigned
    <3>2. rs[m].signed \subseteq rs'[m].signed
      BY <1>2, <1>3
    <3>. QED  BY <3>1, <3>2, InSignedNext
  <2>3. ASSUME NEW w \in W, x = <<n, r, w>>
        PROVE  x \in Signed(Precommit)'
    <3>1. Vote(n, Precommit, r, w) \in rs'[n].signed
      BY <1>2, <1>3
    <3>. QED  BY SMTT(30), <1>4, <2>3, <3>1, InSignedNext
  <2>. QED  BY <2>1, <2>2, <2>3
<1>. QED  BY <1>5, <1>6 DEF Ballots

LEMMA StaleDropped ==
    ASSUME NEW c \in RoundState, NEW d, d = WithoutStaleTocks(c)
    PROVE  /\ d \in RoundState /\ SameRound(c, [d EXCEPT !.tocks = c.tocks])
           /\ d.tocks \subseteq c.tocks /\ d.signed = c.signed /\ d.queue = c.queue
           /\ d.panic = c.panic /\ d.votes = c.votes /\ d.decided = c.decided
           /\ d.locked = c.locked /\ d.lockedRound = c.lockedRound
<1>1. PICK T : T = {t \in c.tocks : /\ ~Halted(c) /\ c.step # Done
                                    /\ t.round >= c.round
                                    /\ t.round = c.round => t.step >= c.step}
  OBVIOUS
<1>2. T \subseteq c.tocks /\ d = [c EXCEPT !.tocks = T]
  BY <1>1 DEF WithoutStaleTocks
<1>3. d \in RoundState
  BY <1>2 DEF RoundState
<1>. QED  BY <1>2, <1>3 DEF RoundState, SameRound

LEMMA StepInv ==
    ASSUME IInv, NEW n \in Validators, NEW c, NEW r, NEW V, NEW W, End(n, c, r, V, W),
           rs' = [rs EXCEPT ![n] = WithoutStaleTocks(c)]
    PROVE  IInv'
<1>1. PICK d : d = WithoutStaleTocks(c)
  OBVIOUS
<1>2. c \in RoundState /\ Known(c) /\ Cast(n, c, r, V, W) /\ (Live(n, c) \/ Over(c))
  BY DEF End, Mid, Live, Over
<1>3. /\ d \in RoundState
      /\ d.round = c.round /\ d.step = c.step /\ d.pblock = c.pblock /\ d.parts = c.parts
      /\ d.valid = c.valid /\ d.validRound = c.validRound
      /\ d.tocks \subseteq c.tocks /\ d.signed = c.signed /\ d.queue = c.queue
      /\ d.panic = c.panic /\ d.votes = c.votes /\ d.decided = c.decided
      /\ d.locked = c.locked /\ d.lockedRound = c.lockedRound
  BY SMTT(30), <1>1, <1>2, StaleDropped DEF SameRound, RoundState
<1>4. rs \in [Validators -> RoundState]
  BY DEF IInv
<1>5. /\ rs' \in [Validators -> RoundState] /\ rs'[n] = d
      /\ \A m \in Validators : m # n => rs'[m] = rs[m]
  BY <1>1, <1>3, <1>4
<1>6. Live(n, d) \/ Over(d)
  <2>1. CASE Live(n, c)
    <3>1. InTurn(n, d) /\ LockBacked(d) /\ ValidBacked(d)
      BY SMTT(30), <1>3, <2>1 DEF Live, InTurn, LockBacked, ValidBacked, VotersFor
    <3>2. \A t \in d.tocks : t.round <= d.round
      BY <1>3, <2>1 DEF Live
    <3>. QED  BY <1>3, <2>1, <3>1, <3>2 DEF Live
  <2>2. CASE Over(c)
    BY <1>3, <2>2 DEF Over
  <2>. QED  BY <1>2, <2>1, <2>2
<1>7. \A m \in Validators : Live(m, rs'[m]) \/ Over(rs'[m])
  BY <1>5, <1>6 DEF IInv
<1>8. \A m \in Validators : rs[m].signed \subseteq rs'[m].signed
  <2>1. rs[n].signed \subseteq d.signed
    BY <1>2, <1>3 DEF Cast
  <2>. QED  BY <1>5, <2>1
<1>9. \A m \in Validators : Known(rs'[m])
  BY <1>2, <1>3, <1>5 DEF IInv, Known
<1>10. ASSUME NEW m \in Validators, NEW v \in rs'[m].votes
       PROVE  v \in rs'[v.val].signed
  <2>1. v \in rs[v.val].signed
    BY <1>9 DEF Known
  <2>2. v.val \in Validators
    BY SMTT(30), <1>5 DEF RoundState, Votes
  <2>. QED  BY <1>8, <2>1, <2>2
<1>11. \A m \in Validators : Known(rs[m])'
  BY <1>10 DEF Known
<1>12. \A m \in Validators : Live(m, rs[m])' \/ Over(rs[m])'
  BY <1>7 DEF Live, Over, InTurn, LockBacked, ValidBacked, VotersFor
<1>. QED  BY <1>5, <1>11, <1>12 DEF IInv

LEMMA StepRefines ==
    ASSUME IInv, NEW n \in Validators, Running(n),
           NEW c, NEW r, NEW V, NEW W, End(n, c, r, V, W),
           rs' = [rs EXCEPT ![n] = WithoutStaleTocks(c)]
    PROVE  LV!Next
<1>1. PICK d : d = WithoutStaleTocks(c)
  OBVIOUS
<1>2. c \in RoundState /\ Cast(n, c, r, V, W)
  BY DEF End, Mid, Live, Over
<1>3. /\ d.signed = c.signed /\ d.decided = c.decided
      /\ d.locked = c.locked /\ d.lockedRound = c.lockedRound
  BY <1>1, <1>2, StaleDropped
<1>4. rs \in [Validators -> RoundState] /\ rs' = [rs EXCEPT ![n] = d] /\ rs'[n] = d
  BY <1>1 DEF IInv
<1>5. rs[n].decided = None
  BY Untouched DEF Mid, Live
<1> DEFINE lock == [m \in Validators |-> [round |-> rs[m].lockedRound, block |-> rs[m].locked]]
           decision == [m \in Validators |-> rs[m].decided]
<1>6. lock' = [lock EXCEPT ![n] = LockOf(c)]
  BY <1>3, <1>4 DEF LockOf
<1>7. decision' = [decision EXCEPT ![n] = c.decided]
  BY <1>3, <1>4
<1>8. /\ Signed(Prevote)' = Signed(Prevote) \cup Ballots(n, r, V)
      /\ Signed(Precommit)' = Signed(Precommit) \cup Ballots(n, r, W)
  <2>1. Cast(n, d, r, V, W)
    BY <1>2, <1>3 DEF Cast
  <2>. QED  BY <1>4, <2>1, SignedGrows
<1>9. PICK l \in LV!Locks : Allowed(n, r, V, W, l) /\ LV!Conclude(n, l)
  <2>1. CASE Mid(n, c, r, V, W)
    <3>1. c.decided = None /\ LockOf(c) \in LV!Locks /\ Allowed(n, r, V, W, LockOf(c))
      BY <1>2, <2>1, LockIsLock DEF Mid, Live
    <3>2. decision' = decision
      BY <1>5, <1>7, <3>1
    <3>3. LV!Conclude(n, LockOf(c))
      BY <1>6, <3>2 DEF LV!Conclude
    <3>. QED  BY <3>1, <3>3
  <2>2. CASE ~Mid(n, c, r, V, W)
    <3>1. /\ c.decided \in Blocks /\ LockOf(c) = LV!NoLock
          /\ \E q \in Rounds : LV!Committed(q, c.decided)
          /\ \E l \in LV!Locks : Allowed(n, r, V, W, l)
      BY <2>2 DEF End, Over, LockOf, LV!NoLock
    <3>2. PICK l \in LV!Locks : Allowed(n, r, V, W, l)
      BY <3>1
    <3>3. LV!Conclude(n, l)
      BY <1>6, <1>7, <3>1 DEF LV!Conclude
    <3>. QED  BY <3>2, <3>3
  <2>. QED  BY <2>1, <2>2
<1>10. \/ LV!UnlockOrDecide(n)
       \/ \E p \in Rounds : \E v \in LV!Values :
             \/ LV!Prevote(n, p, v)
             \/ LV!Precommit(n, p, v)
             \/ \E w \in LV!Values : LV!PrevoteAndPrecommit(n, p, v, w)
  <2>1. CASE V = {} /\ W = {}
    <3>1. Signed(Prevote)' = Signed(Prevote) /\ Signed(Precommit)' = Signed(Precommit)
      BY <1>8, <2>1 DEF Ballots
    <3>2. LV!MayHold(n, l)
      BY <1>9, <2>1 DEF Allowed
    <3>. QED  BY <1>9, <3>1, <3>2 DEF LV!UnlockOrDecide
  <2>2. CASE V # {} /\ W = {}
    <3>1. PICK v \in V : V = {v}
      BY <1>9, <2>2 DEF Allowed
    <3>2. /\ Signed(Prevote)' = Signed(Prevote) \cup {<<n, r, v>>}
          /\ Signed(Precommit)' = Signed(Precommit)
      BY <1>8, <2>2, <3>1 DEF Ballots
    <3>3. /\ LV!MayHold(n, l) /\ LV!MayPrevote(l, v)
          /\ r \in Rounds /\ LV!PrevoteTurn(n, r) /\ v \in LV!Values
      BY <1>9, <2>2, <3>1 DEF Allowed, LV!Values, Values
    <3>4. LV!Prevote(n, r, v)
      BY <1>9, <3>2, <3>3 DEF LV!Prevote
    <3>. QED  BY <3>3, <3>4
  <2>3. CASE V = {} /\ W # {}
    <3>1. PICK w \in W : W = {w}
      BY <1>9, <2>3 DEF Allowed
    <3>2. /\ Signed(Prevote)' = Signed(Prevote)
          /\ Signed(Precommit)' = Signed(Precommit) \cup {<<n, r, w>>}
      BY <1>8, <2>3, <3>1 DEF Ballots
    <3>3. /\ LV!MayPrecommit(n, r, w, l)
          /\ r \in Rounds /\ LV!PrecommitTurn(n, r) /\ w \in LV!Values
      BY <1>9, <2>3, <3>1 DEF Allowed, LV!Values, Values
    <3>4. LV!Precommit(n, r, w)
      BY <1>9, <3>2, <3>3 DEF LV!Precommit
    <3>. QED  BY <3>3, <3>4
  <2>4. CASE V # {} /\ W # {}
    <3>1. PICK v \in V : V = {v}
      BY <1>9, <2>4 DEF Allowed
    <3>2. PICK w \in W : W = {w}
      BY <1>9, <2>4 DEF Allowed
    <3>3. /\ Signed(Prevote)' = Signed(Prevote) \cup {<<n, r, v>>}
          /\ Signed(Precommit)' = Signed(Precommit) \cup {<<n, r, w>>}
      BY <1>8, <3>1, <3>2 DEF Ballots
    <3>4. /\ LV!MayPrecommit(n, r, w, l)
          /\ r \in Rounds /\ LV!PrevoteTurn(n, r) /\ v \in LV!Values /\ w \in LV!Values
          /\ \E k \in LV!Locks : LV!MayHold(n, k) /\ LV!MayPrevote(k, v)
      BY <1>9, <2>4, <3>1, <3>2 DEF Allowed, LV!Values, Values
    <3>5. LV!PrevoteAndPrecommit(n, r, v, w)
      BY <1>9, <3>3, <3>4 DEF LV!PrevoteAndPrecommit
    <3>. QED  BY <3>4, <3>5
  <2>. QED  BY <2>1, <2>2, <2>3, <2>4
<1>11. decision[n] = None /\ n \in LV!Honest
  BY <1>5 DEF LV!Honest
<1>. QED  BY <1>10, <1>11 DEF LV!Next

LEMMA HeadAndTail ==
    ASSUME NEW S, NEW s \in Seq(S), s # <<>>
    PROVE  Head(s) \in S /\ Tail(s) \in Seq(S)
  BY SMTT(30)

(* Every step ends one handler of one running validator. *)
LEMMA OneHandler ==
    ASSUME IInv, NEW n \in Validators, Receive(n) \/ Timeout(n)
    PROVE  /\ Running(n)
           /\ \E c, r, V, W : End(n, c, r, V, W) /\ rs' = [rs EXCEPT ![n] = WithoutStaleTocks(c)]
<1>1. Running(n)
  BY DEF Receive, ReceiveInternal, ReceiveProposal, ReceivePart, ReceiveVote, Timeout, Expire
<1>2. /\ Mid(n, rs[n], 0, {}, {}) /\ \A v \in rs[n].signed : v \in Votes /\ v.val = n
  BY <1>1, Untouched
<1>3. /\ rs[n] \in RoundState /\ rs[n].step # Done /\ rs[n].decided = None
      /\ rs[n].panic # "sanity" /\ rs[n].queue \in Seq(Messages(rs[n].signed))
      /\ rs[n].pblock \in {None, rs[n].parts}
      /\ \A t \in rs[n].tocks : t.round <= rs[n].round
      /\ ValidBacked(rs[n]) /\ rs[n].step \in Int /\ rs[n].round \in Int
  BY <1>2, Basics
<1>4. \A m \in Validators : rs[m] \in RoundState /\ Known(rs[m])
  BY DEF IInv
<1>5. \A m \in Peers[n] : m \in Validators
  BY ConsensusAssumption
<1>6. ASSUME NEW c, NEW r, NEW V, NEW W, End(n, c, r, V, W), Handle(n, c)
      PROVE  \E d, p, X, Y : End(n, d, p, X, Y) /\ rs' = [rs EXCEPT ![n] = WithoutStaleTocks(d)]
  BY <1>6 DEF Handle
<1>7. CASE ReceiveInternal(n)
  <2>1. PICK cs : cs = [rs[n] EXCEPT !.queue = Tail(rs[n].queue)]
    OBVIOUS
  <2>2. PICK m : m = Head(rs[n].queue)
    OBVIOUS
  <2>3. PICK c : c = HandleMsg(cs, n, m)
    OBVIOUS
  <2>4. Handle(n, c) /\ rs[n].queue # <<>>
    BY <1>7, <2>1, <2>2, <2>3 DEF ReceiveInternal
  <2>5. m \in Messages(rs[n].signed) /\ Tail(rs[n].queue) \in Seq(Messages(rs[n].signed))
    BY <1>3, <2>2, <2>4, HeadAndTail
  <2>6. Tail(rs[n].queue) \in Seq(Messages(Votes))
    <3>1. rs[n].queue \in Seq(Messages(Votes))
      BY <1>3 DEF RoundState
    <3>. QED  BY <2>4, <3>1, HeadAndTail
  <2>7. /\ cs \in RoundState /\ SameRound(cs, rs[n]) /\ cs.signed = rs[n].signed
        /\ cs.panic = rs[n].panic /\ cs.queue = Tail(rs[n].queue)
    <3>1. rs[n] \in RoundState
      BY <1>3
    <3>2. cs \in RoundState
      BY <2>1, <2>6, <3>1 DEF RoundState
    <3>. QED  BY <2>1, <3>1, <3>2 DEF RoundState, SameRound
  <2>8. ValidBacked(cs)
    BY <1>3, <2>7, SameValid DEF SameRound
  <2>9. Mid(n, cs, 0, {}, {})
    BY SMTT(30), <1>2, <1>3, <2>5, <2>7, <2>8, Frame DEF SameRound
  <2>10. \E p, V, W : End(n, c, p, V, W)
    BY <1>2, <2>3, <2>5, <2>9, MsgHandled
  <2>. QED  BY <1>1, <1>6, <2>4, <2>10
<1>8. ASSUME NEW m \in Peers[n], ReceiveProposal(n, m)
      PROVE  \E d, p, X, Y : End(n, d, p, X, Y) /\ rs' = [rs EXCEPT ![n] = WithoutStaleTocks(d)]
  <2>1. PICK c : c = SetProposal(rs[n], rs[m].proposal)
    OBVIOUS
  <2>2. Handle(n, c) /\ rs[m].proposal # None
    BY <1>8, <2>1 DEF ReceiveProposal
  <2>3. rs[m].proposal \in Proposals
    BY <1>4, <1>5, <2>2 DEF RoundState
  <2>4. Mid(n, c, 0, {}, {})
    BY <1>2, <2>1, <2>3, ProposalSet
  <2>. QED  BY <1>6, <2>2, <2>4 DEF End
<1>9. ASSUME NEW m \in Peers[n], ReceivePart(n, m)
      PROVE  \E d, p, X, Y : End(n, d, p, X, Y) /\ rs' = [rs EXCEPT ![n] = WithoutStaleTocks(d)]
  <2>1. PICK c : c = AddProposalBlockPart(rs[n], n, rs[n].parts)
    OBVIOUS
  <2>2. Handle(n, c) /\ rs[n].parts # None
    BY <1>9, <2>1 DEF ReceivePart
  <2>3. rs[n].parts \in Blocks
    BY <1>3, <2>2 DEF RoundState, MaybeBlock
  <2>4. \E p, V, W : End(n, c, p, V, W)
    BY <1>2, <2>1, <2>3, PartAdded
  <2>. QED  BY <1>6, <2>2, <2>4
<1>10. ASSUME NEW m \in Peers[n], ReceiveVote(n, m)
       PROVE  \E d, p, X, Y : End(n, d, p, X, Y) /\ rs' = [rs EXCEPT ![n] = WithoutStaleTocks(d)]
  <2>1. PICK v \in rs[m].votes : Handle(n, AddVote(rs[n], n, v))
    BY <1>10 DEF ReceiveVote
  <2>2. v \in Votes /\ v \in rs[v.val].signed
    BY <1>4, <1>5 DEF RoundState, Known
  <2>3. PICK c : c = AddVote(rs[n], n, v)
    OBVIOUS
  <2>4. \E p, V, W : End(n, c, p, V, W)
    BY <1>2, <2>2, <2>3, VoteAdded
  <2>. QED  BY <1>6, <2>1, <2>3, <2>4
<1>11. CASE Timeout(n)
  <2>1. PICK t \in rs[n].tocks : Expire(n, t)
    BY <1>11 DEF Timeout
  <2>2. PICK T : T = rs[n].tocks \ {t}
    OBVIOUS
  <2>3. PICK e : e = IF t.step = NewHeight THEN rs[n].expired ELSE rs[n].expired + 1
    OBVIOUS
  <2>4. PICK cs : cs = [rs[n] EXCEPT !.tocks = T, !.expired = e]
    OBVIOUS
  <2>5. PICK c : c = HandleTimeout(cs, n, t)
    OBVIOUS
  <2>6. Handle(n, c) /\ (t.step = PrecommitWait => t.round < MaxRound)
    BY <2>1, <2>2, <2>3, <2>4, <2>5 DEF Expire
  <2>7. t \in Tocks /\ t.round <= rs[n].round /\ T \in SUBSET Tocks /\ T \subseteq rs[n].tocks
    BY <1>3, <2>2 DEF RoundState
  <2>8. e \in Nat
    <3>1. rs[n].expired \in Nat
      BY <1>3 DEF RoundState
    <3>. QED  BY SMTT(30), <2>3, <3>1
  <2>9. /\ cs \in RoundState /\ cs.round = rs[n].round /\ cs.step = rs[n].step
        /\ cs.pblock = rs[n].pblock /\ cs.parts = rs[n].parts
        /\ cs.locked = rs[n].locked /\ cs.lockedRound = rs[n].lockedRound
        /\ cs.valid = rs[n].valid /\ cs.validRound = rs[n].validRound
        /\ cs.votes = rs[n].votes /\ cs.decided = rs[n].decided /\ cs.tocks = T
        /\ cs.signed = rs[n].signed /\ cs.panic = rs[n].panic /\ cs.queue = rs[n].queue
    <3>1. rs[n] \in RoundState
      BY <1>3
    <3>2. cs \in RoundState
      BY <2>4, <2>7, <2>8, <3>1 DEF RoundState
    <3>. QED  BY <2>4, <3>1, <3>2 DEF RoundState
  <2>10. ValidBacked(cs)
    BY <1>3, <2>9, SameValid
  <2>11. Mid(n, cs, 0, {}, {})
    BY SMTT(30), <1>2, <1>3, <2>7, <2>9, <2>10, Frame
  <2>12. \E p, V, W : Mid(n, c, p, V, W)
    BY <2>5, <2>6, <2>7, <2>9, <2>11, TimeoutHandled
  <2>. QED  BY <1>1, <1>6, <2>6, <2>12 DEF End
<1>. QED  BY <1>1, <1>7, <1>8, <1>9, <1>10, <1>11 DEF Receive

LEMMA Initially == Init => IInv
<1> SUFFICES ASSUME Init
             PROVE  IInv
  OBVIOUS
<1>1. Fresh \in RoundState /\ \A n \in Validators : rs[n] = Fresh
  BY FreshState DEF Init
<1>2. rs \in [Validators -> RoundState]
  BY <1>1 DEF Init
<1>3. ASSUME NEW n \in Validators
      PROVE  Live(n, Fresh) /\ Known(Fresh)
  <2>1. InTurn(n, Fresh) /\ LockBacked(Fresh) /\ ValidBacked(Fresh) /\ Known(Fresh)
    BY FreshState DEF InTurn, LockBacked, ValidBacked, Known
  <2>2. Fresh.step # Done /\ Fresh.panic # "sanity"
    BY SMTT(30), FreshState, Steps, QuorumAssumption
  <2>3. Fresh.queue \in Seq(Messages(Fresh.signed))
    BY SMTT(30), FreshState
  <2>4. \A t \in Fresh.tocks : t.round <= Fresh.round
    BY SMTT(30), FreshState
  <2>. QED  BY <1>1, <2>1, <2>2, <2>3, <2>4, FreshState DEF Live
<1>. QED  BY <1>1, <1>2, <1>3 DEF IInv

LEMMA Inductive == IInv /\ [Next]_rs => IInv'
<1>1. ASSUME IInv, NEW n \in Validators, Receive(n) \/ Timeout(n)
      PROVE  IInv'
  BY <1>1, OneHandler, StepInv
<1>2. ASSUME IInv, UNCHANGED rs
      PROVE  IInv'
  <2>1. ASSUME NEW n \in Validators
        PROVE  Live(n, rs[n])' <=> Live(n, rs[n])
    BY <1>2 DEF Live, InTurn, LockBacked, ValidBacked, VotersFor
  <2>2. ASSUME NEW n \in Validators
        PROVE  (Over(rs[n])' <=> Over(rs[n])) /\ (Known(rs[n])' <=> Known(rs[n]))
    BY <1>2 DEF Over, Known
  <2>. QED  BY <1>2, <2>1, <2>2 DEF IInv
<1>. QED  BY <1>1, <1>2 DEF Next

LEMMA Invariance == Spec => []IInv
  BY Initially, Inductive, PTL DEF Spec

(* The votes at hand justify the lock, the valid block and the step of every   *)
(* validator, in every reachable state: no order of votes, parts and timeouts  *)
(* reaches a sanity panic of enterPrevoteWait, enterPrecommit,                 *)
(* enterPrecommitWait, enterCommit or finalizeCommit.                          *)
THEOREM AlwaysJustified == Spec => []StateJustified
<1>1. IInv => StateJustified
  <2> SUFFICES ASSUME IInv, NEW n \in Validators
               PROVE  /\ rs[n].locked # None =>
                           VotersFor(rs[n], Prevote, rs[n].lockedRound, rs[n].locked) \in Quorums
                      /\ rs[n].valid # None =>
                           VotersFor(rs[n], Prevote, rs[n].validRound, rs[n].valid) \in Quorums
                      /\ rs[n].panic # "sanity"
    BY DEF StateJustified, LocksHavePolkas, NoSanityPanic
  <2>1. CASE Live(n, rs[n])
    BY <2>1 DEF Live, LockBacked, ValidBacked
  <2>2. CASE Over(rs[n])
    BY <2>2, QuorumAssumption DEF Over
  <2>. QED  BY <2>1, <2>2 DEF IInv
<1>. QED  BY <1>1, Invariance, PTL

----------------------------------------------------------------------------
(* The refinement *)

LEMMA InitRefines == Init => LV!Init
<1> SUFFICES ASSUME Init
             PROVE  LV!Init
  OBVIOUS
<1>1. \A n \in Validators : rs[n] = Fresh
  BY DEF Init
<1>2. Signed(Prevote) = {} /\ Signed(Precommit) = {}
  BY SMTT(30), <1>1, FreshState DEF Signed
<1>. QED  BY <1>1, <1>2, FreshState DEF LV!Init, LV!Honest, LV!NoLock

LEMMA NextRefines == IInv /\ [Next]_rs => [LV!Next]_(LV!vars)
<1>1. ASSUME IInv, NEW n \in Validators, Receive(n) \/ Timeout(n)
      PROVE  LV!Next
  BY <1>1, OneHandler, StepRefines
<1>2. ASSUME UNCHANGED rs
      PROVE  UNCHANGED LV!vars
  BY SMTT(30), <1>2 DEF LV!vars, Signed
<1>. QED  BY <1>1, <1>2 DEF Next

(* Whatever a handler of state.go does, in any order of votes, parts and       *)
(* timeouts, is a step of LockVoting or leaves its votes, locks and decisions  *)
(* alone: a validator votes once per round and kind, prevotes nothing but its  *)
(* lock, unlocks only on a more recent polka, precommits a block only with its *)
(* polka, and commits only with +2/3 precommits (doPrevote, enterPrecommit,    *)
(* addVote, finalizeCommit).                                                   *)
THEOREM ImplementsVoting == Spec => VotesByTheRules
  BY InitRefines, NextRefines, Invariance, PTL DEF Spec, VotesByTheRules, LV!Spec

LVP == INSTANCE LockVotingProofs WITH
         Faulty <- {},
         prevotes <- Signed(Prevote),
         precommits <- Signed(Precommit),
         lock <- [n \in Validators |-> [round |-> rs[n].lockedRound, block |-> rs[n].locked]],
         decision <- [n \in Validators |-> rs[n].decided]

LEMMA VotingAssumed == LVP!VotingAssumption
<1>1. Rounds \subseteq Nat
  BY SMTT(30), ConsensusAssumption DEF Rounds
<1>2. \A P, Q \in Quorums : \E n \in Validators : n \in P /\ n \in Q
  BY ConsensusAssumption, QuorumAssumption
<1>. QED  BY <1>1, <1>2, ConsensusAssumption, QuorumAssumption DEF LVP!VotingAssumption, LVP!Honest

(* Two validators never commit different blocks of a height (finalizeCommit),  *)
(* for every validator set whose quorums meet, every network, every proposer   *)
(* schedule and every number of rounds.                                        *)
THEOREM ConsensusAgreement == Spec => []Agreement
<1>1. LVP!Agreement <=> Agreement
  BY DEF LVP!Agreement, Agreement, LVP!Honest
<1>2. LVP!Spec => []LVP!Agreement
  BY LVP!SafeAgreement, VotingAssumed
<1>3. VotesByTheRules => LVP!Spec
  <2>1. LV!Init => LVP!Init
    BY DEF LV!Init, LVP!Init, LV!Honest, LVP!Honest, LV!NoLock, LVP!NoLock
  <2>2. [LV!Next]_(LV!vars) => [LVP!Next]_(LVP!vars)
    BY DEF LV!Next, LVP!Next, LV!vars, LVP!vars, LV!Honest, LVP!Honest, LV!NoLock,
       LVP!NoLock, LV!Values, LVP!Values, LV!Locks, LVP!Locks, LV!Polka, LVP!Polka,
       LV!Committed, LVP!Committed, LV!Unlockable, LVP!Unlockable, LV!MayHold, LVP!MayHold,
       LV!PrevoteTurn, LVP!PrevoteTurn, LV!PrecommitTurn, LVP!PrecommitTurn,
       LV!MayPrevote, LVP!MayPrevote, LV!MayPrecommit, LVP!MayPrecommit,
       LV!Conclude, LVP!Conclude, LV!Prevote, LVP!Prevote, LV!Precommit, LVP!Precommit,
       LV!PrevoteAndPrecommit, LVP!PrevoteAndPrecommit, LV!UnlockOrDecide, LVP!UnlockOrDecide
  <2>. QED  BY <2>1, <2>2, PTL DEF VotesByTheRules, LV!Spec, LVP!Spec
<1>. QED  BY <1>1, <1>2, <1>3, ImplementsVoting, PTL

=============================================================================
