------------------------------ MODULE VoteSet ------------------------------
(***************************************************************************)
(* The votes of one round and type (types/vote_set.go) as a record, its    *)
(* operations as operators, and the commit made from it.                   *)
(*                                                                         *)
(* A vote is a record [val, block, type, share, valid]: share when it      *)
(* carries its part of the threshold signature, valid when it passes the   *)
(* checks of addVote on its index, address and signature.                  *)
(***************************************************************************)
EXTENDS Integers, FiniteSets, FiniteSetsExt

CONSTANTS Power,       \* validator -> voting power
          Blocks,      \* the BlockIDs, NilBlock among them
          NilBlock,    \* the zero BlockID
          None,        \* the nil pointer
          Peers

Types == {"prevote", "precommit"}
Members == DOMAIN Power
PowerOf(S) == MapThenSumSet(LAMBDA v : Power[v], S)
Total == PowerOf(Members)
Quorum == (Total * 2) \div 3 + 1

NewBlockVotes(claimed) == [peerMaj23 |-> claimed, votes |-> {}, sum |-> 0]

NewVoteSet ==
  [votes |-> [v \in Members |-> None], sum |-> 0, maj23 |-> None,
   byBlock |-> [b \in Blocks |-> None], peerMaj23s |-> [p \in Peers |-> None],
   shares |-> [v \in Members |-> 0]]

\* getVote: there is one of this validator for this block already.
Known(s, m) ==
  \/ s.votes[m.val] = m.block
  \/ s.byBlock[m.block] # None /\ m.val \in s.byBlock[m.block].votes

\* blockVotes.addVerifiedVote
BlockVotesAdd(bv, v) ==
  IF v \in bv.votes THEN bv ELSE [bv EXCEPT !.votes = @ \union {v}, !.sum = @ + Power[v]]

\* The votes for the majority are not copied over those that conflict with them.
Promote_NoCopy(s, b) == IF s.maj23 # None THEN s ELSE [s EXCEPT !.maj23 = b]
\* The first majority: its votes become the votes of their validators.
Promote(s, b) ==
  IF s.maj23 # None THEN s
  ELSE [s EXCEPT !.maj23 = b,
                 !.votes = [v \in Members |-> IF v \in s.byBlock[b].votes THEN b ELSE @[v]]]

\* The share is kept first, whatever becomes of the vote.
KeepShare(s, m) ==
  IF m.type = "prevote" /\ m.share THEN [s EXCEPT !.shares[m.val] = @ + 1] ELSE s

\* A vote that replaces another is counted as well.
Canonical_CountsAgain(s, m) ==
  IF s.votes[m.val] = None \/ s.maj23 = m.block
    THEN [s EXCEPT !.votes[m.val] = m.block, !.sum = @ + Power[m.val]] ELSE s
\* The canonical vote: the first one, or the one for the majority.
Canonical(s, m) ==
  IF s.votes[m.val] = None
    THEN [s EXCEPT !.votes[m.val] = m.block, !.sum = @ + Power[m.val]]
  ELSE IF s.maj23 = m.block THEN [s EXCEPT !.votes[m.val] = m.block] ELSE s

\* A conflicting vote for a block a peer claims is forgotten too.
Tracked_First(s, m) == s.votes[m.val] = None
\* A vote is kept by block when it is the validator's first or a peer claims its block.
Tracked(s, m) ==
  s.votes[m.val] = None \/ (s.byBlock[m.block] # None /\ s.byBlock[m.block].peerMaj23)

AddVerifiedVote(s, m) ==
  LET t  == Canonical(KeepShare(s, m), m)
      bv == IF t.byBlock[m.block] = None THEN NewBlockVotes(FALSE) ELSE t.byBlock[m.block]
      u  == [t EXCEPT !.byBlock[m.block] = BlockVotesAdd(bv, m.val)]
  IN IF ~Tracked(s, m) THEN t
     ELSE IF bv.sum < Quorum /\ Quorum <= u.byBlock[m.block].sum THEN Promote(u, m.block)
     ELSE u

\* AddVote: a duplicate, or a vote that fails a check, changes nothing.
AddVote(s, m) == IF ~m.valid \/ Known(s, m) THEN s ELSE AddVerifiedVote(s, m)

Added(s, m) == m.valid /\ ~Known(s, m) /\ Tracked(s, m)

\* A peer tells of one majority only.
SetPeerMaj23(s, p, b) ==
  IF s.peerMaj23s[p] # None THEN s
  ELSE [s EXCEPT !.peerMaj23s[p] = b,
                 !.byBlock[b] = IF @ = None THEN NewBlockVotes(TRUE) ELSE [@ EXCEPT !.peerMaj23 = TRUE]]

\* MakeCommit, and VerifyCommit of its precommits.
MakeCommit(s) == [block |-> s.maj23, precommits |-> s.votes]
VerifyCommit(b, commit) ==
  /\ commit.block # NilBlock
  /\ b = commit.block
  /\ PowerOf({v \in Members : commit.precommits[v] = b}) > (Total * 2) \div 3

\* The two sets of a round (addRound of HeightVoteSet).
NewRoundVoteSet == [t \in Types |-> NewVoteSet]

HasTwoThirdsAny(s) == s.sum > (Total * 2) \div 3
=============================================================================
