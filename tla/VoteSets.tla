------------------------------ MODULE VoteSets ------------------------------
(***************************************************************************)
(* The votes a node keeps for one height: a VoteSet for each round and     *)
(* type (types/vote_set.go), the rounds of the height that exist at all    *)
(* (consensus/types/height_vote_set.go), and the precommits that become    *)
(* the LastCommit of the next height and are still added to.               *)
(* Votes come from any peer, any number of times, conflicting ones         *)
(* included.                                                               *)
(***************************************************************************)
EXTENDS VoteSet, Sequences, TLC

CONSTANTS Votes,       \* the votes that may arrive
          Claims,      \* VoteSetMaj23 messages that may arrive: [round, type, block]
          MaxRound,    \* bound on the round of this node
          MaxShares    \* bound on the shares kept for a validator

VARIABLES round,         \* hvs.round
          sets,          \* roundVoteSets: round -> type -> VoteSet
          catchup,       \* peerCatchupRounds
          csRound,       \* the round of the consensus state
          lastCommit,    \* LastCommit once the height is decided, with its round, or None
          heard          \* the votes handed to a set that tracked their block for a peer

vars == <<round, sets, catchup, csRound, lastCommit, heard>>

-----------------------------------------------------------------------------
(* HeightVoteSet *)

\* A round below the new one may exist because of a peer.
SetRound(r) ==
  /\ Assert(round = 0 \/ r >= round + 1, "SetRound() must increment hvs.round")
  /\ sets' = [k \in DOMAIN sets \union round + 1 .. r |->
                IF k \in DOMAIN sets THEN sets[k] ELSE NewRoundVoteSet]
  /\ round' = r

\* Any number of rounds.
MayCatchup_Always(p) == TRUE
MayCatchup(p) == Len(catchup[p]) < 2

\* Every vote that finds a set that tracks its block for a peer.
Hear(s, m) ==
  IF m.valid /\ s.byBlock[m.block] # None /\ s.byBlock[m.block].peerMaj23
    THEN heard \union {[val |-> m.val, block |-> m.block, round |-> m.round, type |-> m.type]}
    ELSE heard

\* HeightVoteSet.AddVote: an unknown round is created for the peer before the vote is checked.
AddVoteFrom(p, m) ==
  /\ lastCommit = None
  /\ \/ /\ m.round \in DOMAIN sets
        /\ sets' = [sets EXCEPT ![m.round][m.type] = AddVote(@, m)]
        /\ heard' = Hear(sets[m.round][m.type], m)
        /\ UNCHANGED catchup
     \/ /\ m.round \notin DOMAIN sets /\ MayCatchup(p)
        /\ sets' = [k \in DOMAIN sets \union {m.round} |->
                      IF k # m.round THEN sets[k]
                      ELSE [NewRoundVoteSet EXCEPT ![m.type] = AddVote(@, m)]]
        /\ catchup' = [catchup EXCEPT ![p] = Append(@, m.round)]
        /\ UNCHANGED heard
  /\ sets'[m.round][m.type].shares[m.val] <= MaxShares
  /\ UNCHANGED <<round, csRound, lastCommit>>

\* HeightVoteSet.SetPeerMaj23: nothing for a round this node does not know of.
PeerClaims(p, c) ==
  /\ lastCommit = None /\ c.round \in DOMAIN sets
  /\ sets' = [sets EXCEPT ![c.round][c.type] = SetPeerMaj23(@, p, c.block)]
  /\ UNCHANGED <<round, catchup, csRound, lastCommit, heard>>

\* enterNewRound tracks the round after the new one too.
EnterNewRound(r) ==
  /\ lastCommit = None /\ r > csRound /\ r <= MaxRound
  /\ SetRound(r + 1) /\ csRound' = r
  /\ UNCHANGED <<catchup, lastCommit, heard>>

\* updateToState after the block of round r is committed: Reset, with the precommits kept.
UpdateToState(r) ==
  /\ lastCommit = None
  /\ sets[r]["precommit"].maj23 \notin {None, NilBlock}
  /\ lastCommit' = [round |-> r, set |-> sets[r]["precommit"]]
  /\ round' = 0 /\ sets' = [k \in {0} |-> NewRoundVoteSet]
  /\ catchup' = [p \in Peers |-> <<>>] /\ csRound' = -1 /\ heard' = {}

\* A late precommit of the decided height; one of another round is an error.
AddToLastCommit(m) ==
  /\ lastCommit # None /\ m.type = "precommit"
  /\ lastCommit' = IF m.round # lastCommit.round THEN lastCommit
                   ELSE [lastCommit EXCEPT !.set = AddVote(@, m)]
  /\ UNCHANGED <<round, sets, catchup, csRound, heard>>

Init ==
  /\ round = 0 /\ sets = [k \in {0} |-> NewRoundVoteSet]
  /\ catchup = [p \in Peers |-> <<>>] /\ csRound = -1
  /\ lastCommit = None /\ heard = {}

Next ==
  \/ \E p \in Peers, m \in Votes : AddVoteFrom(p, m)
  \/ \E p \in Peers, c \in Claims : PeerClaims(p, c)
  \/ \E r \in 0 .. MaxRound : EnterNewRound(r)
  \/ \E r \in DOMAIN sets : UpdateToState(r)
  \/ \E m \in Votes : AddToLastCommit(m)

Spec == Init /\ [][Next]_vars

-----------------------------------------------------------------------------
AllSets == {sets[r][t] : r \in DOMAIN sets, t \in Types}
             \union (IF lastCommit = None THEN {} ELSE {lastCommit.set})

(* A set with a majority has the proof of it, in whatever order votes, conflicting votes   *)
(* and claims arrived: the commit that MakeCommit builds from its votes, the late ones of   *)
(* LastCommit included, passes VerifyCommit at every other node.                            *)
CommitVerifies ==
  \A s \in AllSets :
    s.maj23 \notin {None, NilBlock} => VerifyCommit(s.maj23, MakeCommit(s))

(* The sums the consensus decides by count every validator once: that of a set the          *)
(* validators that voted, that of a block those that voted for it, and a block whose sum    *)
(* reached the quorum is the majority unless another was before it.                         *)
TalliesRight ==
  \A s \in AllSets :
    /\ s.sum = PowerOf({v \in Members : s.votes[v] # None})
    /\ \A b \in Blocks : s.byBlock[b] # None =>
         /\ s.byBlock[b].sum = PowerOf(s.byBlock[b].votes)
         /\ s.byBlock[b].sum >= Quorum => s.maj23 # None

(* What a peer's claim is for: once +2/3 of the validators' votes for the claimed block     *)
(* were received after the claim, the majority is found, although any of them may conflict  *)
(* with a vote seen before.                                                                 *)
ClaimedMajorityFound ==
  \A r \in DOMAIN sets, t \in Types, b \in Blocks :
    PowerOf({v \in Members : [val |-> v, block |-> b, round |-> r, type |-> t] \in heard}) >= Quorum
      => sets[r][t].maj23 # None

(* "We let each peer provide us with up to 2 unexpected catchup rounds": the rounds kept     *)
(* beyond the tracked ones are at most two for each peer.                                   *)
RoundsBounded ==
  Cardinality({r \in DOMAIN sets : r > round}) <= 2 * Cardinality(Peers)
=============================================================================
