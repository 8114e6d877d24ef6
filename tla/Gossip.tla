------------------------------- MODULE Gossip -------------------------------
(***************************************************************************)
(* How a node brings a peer up to its own state of the consensus           *)
(* (consensus/reactor.go): what it believes of the peer (PeerState), the   *)
(* three routines it runs for it, gossipDataRoutine, gossipVotesRoutine    *)
(* and queryMaj23Routine, and the messages the peer answers with.          *)
(*                                                                         *)
(* The node is at height us, with the round state Rs[us], and has stored   *)
(* the lower heights.  The peer is a consensus state of its own, reduced   *)
(* to what the messages change; its timeouts come at any time.  Every      *)
(* height has one block, named by its height where a PartSetHeader is      *)
(* meant.  What the peer broadcasts is sent by a goroutine for each        *)
(* message (Switch.Broadcast), so it arrives in any order.  What the peer  *)
(* gossips itself is not part of this module.                              *)
(***************************************************************************)
EXTENDS VoteSet, Sequences

CONSTANTS Block,        \* the BlockID that is not nil
          Parts,        \* the part indices of a block
          Heights,      \* the heights the node is at, in order: first .. last
          Rs,           \* height -> its round state there: [round, proposal, pol, prevotes, precommits]
          Commit,       \* height -> the commit stored for it: [round, votes]
          Seen,         \* height -> LastCommit at the next height: [round, votes]
          Me,           \* the node, as a peer of its peer
          PeerInit,     \* the states the peer may start in
          MaxRound,     \* bound on the rounds the peer's timeouts reach
          MaxCasts,     \* bound on the broadcasts of the peer on their way when it takes a step
          LateAt        \* the heights at which the peer's answer may overtake the note of a part sent

VARIABLES us,       \* the node's height
          prs,      \* PeerRoundState: what the node believes of the peer
          marks,    \* routine -> what it sent and has not noted yet
          data, votes,   \* the channels to the peer
          peer,     \* the peer's round state
          casts,    \* the messages of the peer that are on their way
          bits      \* its VoteSetBits answers

vars == <<us, prs, marks, data, votes, peer, casts, bits>>

\* RoundStepType
NewHeight == 1
Propose == 3
Prevote == 4
PrevoteWait == 5
Precommit == 6
PrecommitWait == 7
CommitStep == 8

Have(v) == {i \in Members : v[i] # None}

-----------------------------------------------------------------------------
(* PeerState *)

NewPeerState ==
  [height |-> 0, round |-> -1, step |-> 0, proposal |-> FALSE, header |-> None, parts |-> None,
   polRound |-> -1, pol |-> None, prevotes |-> None, precommits |-> None,
   lastCommitRound |-> -1, lastCommit |-> None, catchupRound |-> -1, catchup |-> None]

\* The field getVoteBitArray returns the bits of; "" for nil.
VoteBits(p, h, r, t) ==
  IF p.height = h
    THEN IF p.round = r THEN IF t = "prevote" THEN "prevotes" ELSE "precommits"
         ELSE IF p.catchupRound = r THEN IF t = "precommit" THEN "catchup" ELSE ""
         ELSE IF p.polRound = r /\ t = "prevote" THEN "pol" ELSE ""
  ELSE IF p.height = h + 1 /\ p.lastCommitRound = r /\ t = "precommit" THEN "lastCommit"
  ELSE ""

\* The catchup commit and the precommits of one round are the same bits.
SetBits(p, f, S) ==
  LET q == [p EXCEPT ![f] = S] IN
  IF p.catchupRound = p.round /\ f = "precommits" /\ p.catchup # None THEN [q EXCEPT !.catchup = S] ELSE q

EnsureVoteBitArrays(p, h) ==
  LET Ensure(S) == IF S = None THEN {} ELSE S IN
  IF p.height = h
    THEN [p EXCEPT !.prevotes = Ensure(@), !.precommits = Ensure(@), !.catchup = Ensure(@), !.pol = Ensure(@)]
  ELSE IF p.height = h + 1 THEN [p EXCEPT !.lastCommit = Ensure(@)] ELSE p

EnsureCatchupCommitRound(p, h, r) ==
  IF p.height # h \/ p.catchupRound = r THEN p
  ELSE [p EXCEPT !.catchupRound = r, !.catchup = IF r = p.round THEN p.precommits ELSE {}]

SetHasVote(p, h, r, t, i) ==
  LET f == VoteBits(p, h, r, t) IN
  IF f = "" THEN p ELSE IF p[f] = None THEN p ELSE SetBits(p, f, p[f] \union {i})

SetHasProposalBlockPart(p, h, r, i) ==
  IF p.height # h \/ p.round # r \/ p.parts = None THEN p ELSE [p EXCEPT !.parts = @ \union {i}]

SetHasProposal(p, h, r, pol) ==
  IF p.height # h \/ p.round # r \/ p.proposal THEN p
  ELSE IF p.parts # None THEN [p EXCEPT !.proposal = TRUE]
  ELSE [p EXCEPT !.proposal = TRUE, !.header = h, !.parts = {}, !.polRound = pol, !.pol = None]

Before(m, p) ==
  \/ m.height < p.height
  \/ m.height = p.height /\ (m.round < p.round \/ (m.round = p.round /\ m.step <= p.step))

\* What is known of the precommits survives a round.
ApplyNewRoundStep_Keeps(p, m) ==
  IF Before(m, p) THEN p
  ELSE [p EXCEPT !.height = m.height, !.round = m.round, !.step = m.step,
                 !.lastCommitRound = IF p.height # m.height THEN m.last ELSE @,
                 !.lastCommit = IF p.height # m.height THEN None ELSE @]

\* A new round forgets the proposal and the votes, unless the round is the one of the catchup
\* commit; a new height makes the precommits of the last round the last commit.
ApplyNewRoundStep(p, m) ==
  LET newHeight == p.height # m.height
      newRound  == newHeight \/ p.round # m.round
      q == IF ~newRound THEN p
           ELSE [p EXCEPT !.proposal = FALSE, !.header = None, !.parts = None, !.polRound = -1,
                          !.pol = None, !.prevotes = None,
                          !.precommits = IF ~newHeight /\ m.round = p.catchupRound THEN p.catchup ELSE None]
      s == [q EXCEPT !.height = m.height, !.round = m.round, !.step = m.step]
  IN IF Before(m, p) THEN p
     ELSE IF ~newHeight THEN s
     ELSE [s EXCEPT !.lastCommitRound = m.last,
                    !.lastCommit = IF p.height + 1 = m.height /\ p.round = m.last THEN s.precommits ELSE None,
                    !.catchupRound = -1, !.catchup = None]

\* The message is about the peer's round, or about the block it commits.
ApplyNewValidBlock_Never(p, m) == p
ApplyNewValidBlock(p, m) ==
  IF p.height # m.height \/ (p.round # m.round /\ ~m.commit) THEN p
  ELSE [p EXCEPT !.header = m.height, !.parts = m.parts]

ApplyHasVote(p, m) == IF p.height # m.height THEN p ELSE SetHasVote(p, m.height, m.round, m.type, m.val)

\* What the peer says replaces what was believed of the votes the node has for the block.
ApplyVoteSetBits_Adds(p, m, ours) ==
  LET f == VoteBits(p, m.height, m.round, m.type) IN
  IF f = "" THEN p ELSE IF p[f] = None THEN p ELSE SetBits(p, f, p[f] \union m.votes)
ApplyVoteSetBits(p, m, ours) ==
  LET f == VoteBits(p, m.height, m.round, m.type) IN
  IF f = "" THEN p ELSE IF p[f] = None THEN p ELSE SetBits(p, f, (p[f] \ ours) \union m.votes)

-----------------------------------------------------------------------------
(* The node's routines *)

rs == Rs[us]
VotesAt(r, t) == IF t = "prevote" THEN rs.prevotes[r] ELSE rs.precommits[r]
OurRounds == DOMAIN rs.prevotes
Maj23(v) == {b \in Blocks : PowerOf({i \in Members : v[i] = b}) >= Quorum}

\* One of the sends of gossipDataRoutine, the first whose condition holds.
NeedsPart == prs.header = us /\ rs.parts /\ Parts \ prs.parts # {}
LagsBehind == 0 < prs.height /\ prs.height < us

SendPart(h, r, i) ==
  /\ data' = Append(data, [kind |-> "part", height |-> h, round |-> r, index |-> i])
  /\ IF us \in LateAt
       THEN marks' = [marks EXCEPT !.data = [height |-> prs.height, round |-> prs.round, index |-> i]] /\ UNCHANGED prs
       ELSE prs' = SetHasProposalBlockPart(prs, prs.height, prs.round, i) /\ UNCHANGED marks

SendProposal ==
  /\ data' = data \o <<[kind |-> "proposal", height |-> us, round |-> rs.round, pol |-> rs.pol]>>
  /\ prs' = SetHasProposal(prs, us, rs.round, rs.pol)
  /\ UNCHANGED marks

GossipData ==
  /\ marks.data = None /\ Len(data) = 0
  /\ \/ NeedsPart /\ \E i \in Parts \ prs.parts : SendPart(us, rs.round, i)
     \/ /\ ~NeedsPart /\ LagsBehind /\ prs.parts = None
        /\ prs' = [prs EXCEPT !.header = prs.height, !.parts = {}]
        /\ UNCHANGED <<data, marks>>
     \/ /\ ~NeedsPart /\ LagsBehind /\ prs.parts # None /\ prs.header = prs.height
        /\ \E i \in Parts \ prs.parts : SendPart(prs.height, prs.round, i)
     \/ /\ ~NeedsPart /\ us = prs.height /\ rs.round = prs.round
        /\ rs.proposal /\ ~prs.proposal
        /\ SendProposal
  /\ UNCHANGED <<us, votes, peer, casts, bits>>

\* The sets of votes gossipVotesRoutine tries, in its order: [height, round, type, votes, commit].
Candidates ==
  LET Set(h, r, t, v) == [height |-> h, round |-> r, type |-> t, votes |-> v,
                          commit |-> t = "precommit" /\ Maj23(v) # {}]
      LastC    == Set(us - 1, Seen[us - 1].round, "precommit", Seen[us - 1].votes)
      Prevotes == Set(us, prs.round, "prevote", VotesAt(prs.round, "prevote"))
      Precommits == Set(us, prs.round, "precommit", VotesAt(prs.round, "precommit"))
      POL      == Set(us, prs.polRound, "prevote", VotesAt(prs.polRound, "prevote"))
      known    == prs.round # -1 /\ prs.round <= rs.round
      hasPOL   == prs.polRound \in OurRounds
      If(c, x) == IF c THEN <<x>> ELSE <<>>
  IN IF us = prs.height
       THEN If(prs.step = NewHeight /\ us - 1 \in DOMAIN Seen, LastC)
            \o If(prs.step <= Propose /\ known /\ hasPOL, POL)
            \o If(prs.step <= PrevoteWait /\ known, Prevotes)
            \o If(prs.step <= PrecommitWait /\ known, Precommits)
            \o If(known, Prevotes) \o If(hasPOL, POL)
     ELSE IF prs.height # 0 /\ us = prs.height + 1 THEN <<LastC>>
     ELSE IF prs.height # 0 /\ us >= prs.height + 2
       THEN LET c == Commit[prs.height] IN <<[Set(prs.height, c.round, "precommit", c.votes) EXCEPT !.commit = TRUE]>>
     ELSE <<>>

\* PickVoteToSend: the bits of the peer are created as they are needed.
Prepared(p, c) ==
  EnsureVoteBitArrays(IF c.commit THEN EnsureCatchupCommitRound(p, c.height, c.round) ELSE p, c.height)
Missing(p, c) ==
  LET f == VoteBits(p, c.height, c.round, c.type) IN IF f = "" THEN {} ELSE Have(c.votes) \ p[f]

\* PickSendVote of each of the sets, until one has a vote to send.
RECURSIVE PickSendVote(_, _)
PickSendVote(p, sets) ==
  IF sets = <<>> THEN prs' = p /\ UNCHANGED <<votes, marks>>
  ELSE \E c \in {Head(sets)} : \E q \in {Prepared(p, c)} :
         IF Missing(q, c) = {} THEN PickSendVote(q, Tail(sets))
         ELSE \E i \in Missing(q, c) :
                LET m == [height |-> c.height, round |-> c.round, type |-> c.type, val |-> i, block |-> c.votes[i]] IN
                /\ votes' = <<m>>
                /\ marks' = [marks EXCEPT !.votes = m] /\ prs' = q

GossipVotes ==
  /\ marks.votes = None /\ Len(votes) = 0
  /\ \E sets \in {Candidates} : PickSendVote(prs, sets)
  /\ UNCHANGED <<us, data, peer, casts, bits>>

\* Send returned: the routine notes what it sent, unless it has.
MarkData ==
  /\ marks.data # None
  /\ prs' = SetHasProposalBlockPart(prs, marks.data.height, marks.data.round, marks.data.index)
  /\ marks' = [marks EXCEPT !.data = None]
  /\ UNCHANGED <<us, data, votes, peer, casts, bits>>
MarkVote ==
  /\ marks.votes # None
  /\ prs' = SetHasVote(prs, marks.votes.height, marks.votes.round, marks.votes.type, marks.votes.val)
  /\ marks' = [marks EXCEPT !.votes = None]
  /\ UNCHANGED <<us, data, votes, peer, casts, bits>>

\* queryMaj23Routine: one of its four claims.
Claims23 ==
  LET Claim(h, r, t, v) == {[height |-> h, round |-> r, type |-> t, block |-> b] : b \in Maj23(v)} IN
  (IF us = prs.height /\ prs.round \in OurRounds
     THEN UNION {Claim(us, prs.round, t, VotesAt(prs.round, t)) : t \in Types} ELSE {})
  \union (IF us = prs.height /\ prs.polRound \in OurRounds
     THEN Claim(us, prs.polRound, "prevote", VotesAt(prs.polRound, "prevote")) ELSE {})
  \union (IF prs.catchupRound # -1 /\ 0 < prs.height /\ prs.height < us
     THEN LET c == IF prs.height = us - 1 THEN Seen[prs.height] ELSE Commit[prs.height]
          IN {[height |-> prs.height, round |-> c.round, type |-> "precommit", block |-> Block]} ELSE {})
\* The node commits its height; the rest of its round state is that of the next.
Advance ==
  /\ us + 1 \in Heights /\ us' = us + 1
  /\ UNCHANGED <<prs, marks, data, votes, peer, casts, bits>>

-----------------------------------------------------------------------------
(* The node receives *)

ReceiveCast(m) ==
  /\ casts' = casts \ {m}
  /\ prs' = CASE m.kind = "step"  -> ApplyNewRoundStep(prs, m)
              [] m.kind = "valid" -> ApplyNewValidBlock(prs, m)
              [] m.kind = "has"   -> ApplyHasVote(prs, m)
  /\ UNCHANGED <<us, marks, data, votes, peer, bits>>

\* BitArrayByBlockID of the node's own set for the message.
Ours(m) ==
  IF us = m.height /\ m.round \in OurRounds
    THEN {i \in Members : VotesAt(m.round, m.type)[i] = m.block} ELSE {}
NoteBits(p, m) == ApplyVoteSetBits(p, m, IF Ours(m) # {} THEN Ours(m) ELSE Members)
ReceiveBits ==
  /\ Len(bits) > 0
  /\ prs' = NoteBits(prs, Head(bits))
  /\ bits' = Tail(bits)
  /\ UNCHANGED <<us, marks, data, votes, peer, casts>>

-----------------------------------------------------------------------------
(* The peer *)

Step(p) == [kind |-> "step", height |-> p.height, round |-> p.round, step |-> p.step, last |-> p.lastRound]
Valid(p) == [kind |-> "valid", height |-> p.height, round |-> p.round, parts |-> p.parts,
             commit |-> p.step = CommitStep]

\* enterNewRound and enterPropose
EnterNewRound(p, r) ==
  [p EXCEPT !.round = r, !.step = Propose,
            !.proposal = IF r = 0 THEN @ ELSE FALSE, !.parts = IF r = 0 THEN @ ELSE None,
            !.sets = [k \in DOMAIN @ \union 0 .. r + 1 |-> IF k \in DOMAIN @ THEN @[k] ELSE NewRoundVoteSet]]

\* tryFinalizeCommit and updateToState: what follows once the block is complete.
Finalize(p) ==
  IF p.step # CommitStep \/ p.parts # Parts THEN p
  ELSE [p EXCEPT !.height = @ + 1, !.round = 0, !.step = NewHeight, !.proposal = FALSE, !.parts = None,
                 !.valid = -1, !.sets = [k \in {0} |-> NewRoundVoteSet], !.extra = {},
                 !.lastRound = p.commitRound, !.last = p.sets[p.commitRound]["precommit"]]

\* The peer takes the new state q and broadcasts its steps and M.
Become(s, M) ==
  /\ Cardinality(casts) <= MaxCasts
  /\ \E q \in {s} : \E f \in {Finalize(q)} :
    /\ peer' = f
    /\ casts' = casts \union M \union (IF <<q.height, q.round, q.step>> # <<peer.height, peer.round, peer.step>>
                                       THEN {Step(q)} ELSE {})
                      \union (IF f # q THEN {Step(f)} ELSE {})

Timeout ==
  /\ peer.step # CommitStep
  /\ IF peer.step = Precommit THEN peer.round < MaxRound /\ Become(EnterNewRound(peer, peer.round + 1), {})
     ELSE IF peer.step = NewHeight THEN Become(EnterNewRound(peer, 0), {})
     ELSE Become([peer EXCEPT !.step = IF @ = Propose THEN Prevote ELSE Precommit], {})
  /\ UNCHANGED <<us, prs, marks, data, votes, bits>>

\* setProposal and addProposalBlockPart: a part that is not expected is dropped.
TakeData ==
  /\ Len(data) > 0 /\ data' = Tail(data)
  /\ LET m == Head(data) IN
     IF m.kind = "proposal"
       THEN IF peer.proposal \/ m.height # peer.height \/ m.round # peer.round THEN UNCHANGED <<peer, casts>>
            ELSE Become([peer EXCEPT !.proposal = TRUE, !.parts = IF @ = None THEN {} ELSE @], {})
     ELSE IF m.height # peer.height \/ peer.parts = None THEN UNCHANGED <<peer, casts>>
     ELSE Become([peer EXCEPT !.parts = @ \union {m.index}], {})
  /\ UNCHANGED <<us, prs, marks, votes, bits>>

\* The round set of a vote, created for a round the node gets for a catchup.
WithRound(p, r) ==
  IF r \in DOMAIN p.sets \/ Cardinality(p.extra) >= 2 THEN p
  ELSE [p EXCEPT !.extra = @ \union {r},
                 !.sets = [k \in DOMAIN @ \union {r} |-> IF k = r THEN NewRoundVoteSet ELSE @[k]]]

\* enterCommit: without the parts of the block, set up to get it, and tell.
EnterCommit(p, r) ==
  LET new == r > p.round \/ (r = p.round /\ p.step = NewHeight)
      q == IF new THEN EnterNewRound(p, r) ELSE p
      s == IF q.parts = None THEN [q EXCEPT !.parts = {}] ELSE q
  IN IF q.step = CommitStep THEN [state |-> q, tell |-> {}]
     ELSE [state |-> [s EXCEPT !.step = CommitStep, !.commitRound = r],
           tell  |-> (IF new THEN {Step(q)} ELSE {}) \union (IF q.parts = None THEN {Valid(s)} ELSE {})]

\* addVote once the vote is in the set: the transitions of its type.
Transitions(p, m) ==
  LET s == p.sets[m.round][m.type]
      skip == [state |-> EnterNewRound(p, m.round), tell |-> {}]
      stay == [state |-> p, tell |-> {}]
      q == [p EXCEPT !.parts = IF @ = None THEN {} ELSE @, !.valid = IF p.parts = Parts THEN m.round ELSE @]
  IN IF m.type = "precommit"
       THEN IF s.maj23 = Block THEN EnterCommit(p, m.round)
            ELSE IF m.round > p.round /\ HasTwoThirdsAny(s) THEN skip ELSE stay
     ELSE IF s.maj23 = Block /\ p.valid < m.round /\ m.round = p.round
            THEN [state |-> q, tell |-> {Valid(q)}]
     ELSE IF m.round > p.round /\ HasTwoThirdsAny(s) THEN skip ELSE stay

Has(m) == [kind |-> "has", height |-> m.height, round |-> m.round, type |-> m.type, val |-> m.val]
AsVote(m) == [val |-> m.val, block |-> m.block, type |-> m.type, share |-> FALSE, valid |-> TRUE]

\* A late precommit of the last height; it must be of the round of the commit.
AddToLast(m) ==
  /\ m.height + 1 = peer.height /\ peer.step = NewHeight /\ m.round = peer.lastRound
  /\ Become([peer EXCEPT !.last = AddVote(@, AsVote(m))],
            IF Added(peer.last, AsVote(m)) THEN {Has(m)} ELSE {})

AddToHeight(m) ==
  /\ m.height = peer.height
  /\ \E p \in {WithRound(peer, m.round)} :
       IF m.round \notin DOMAIN p.sets THEN UNCHANGED <<peer, casts>>
       ELSE \E q \in {[p EXCEPT !.sets[m.round][m.type] = AddVote(@, AsVote(m))]} :
              IF ~Added(p.sets[m.round][m.type], AsVote(m)) THEN Become(q, {})
              ELSE \E t \in {Transitions(q, m)} : Become(t.state, t.tell \union {Has(m)})

Ignore(m) ==
  /\ m.height # peer.height
  /\ ~(m.height + 1 = peer.height /\ peer.step = NewHeight /\ m.round = peer.lastRound)
  /\ UNCHANGED <<peer, casts>>

TakeVote ==
  /\ Len(votes) > 0 /\ votes' = Tail(votes)
  /\ \E m \in {Head(votes)} : AddToLast(m) \/ AddToHeight(m) \/ Ignore(m)
  /\ UNCHANGED <<us, prs, marks, data, bits>>

\* VoteSetMaj23: the peer keeps the claim and answers with the votes for the block.
Answer(m) ==
  LET bv == SetPeerMaj23(peer.sets[m.round][m.type], Me, m.block).byBlock[m.block]
  IN [height |-> m.height, round |-> m.round, type |-> m.type, block |-> m.block,
      votes |-> IF bv = None THEN {} ELSE bv.votes]
QueryMaj23 ==
  /\ Len(bits) = 0
  /\ \E m \in Claims23 :
       /\ m.height = peer.height /\ m.round \in DOMAIN peer.sets
       /\ peer' = [peer EXCEPT !.sets[m.round][m.type] = SetPeerMaj23(@, Me, m.block)]
       /\ bits' = <<Answer(m)>>
  /\ UNCHANGED <<us, prs, marks, data, votes, casts>>

-----------------------------------------------------------------------------
Init ==
  /\ us \in Heights /\ peer \in {p \in PeerInit : p.height \in us - 2 .. us}
  /\ prs = NewPeerState /\ marks = [data |-> None, votes |-> None]
  /\ data = <<>> /\ votes = <<>> /\ bits = <<>>
  /\ casts = {Step(peer)}    \* AddPeer, or SwitchToConsensus

Next ==
  \/ GossipData \/ GossipVotes \/ QueryMaj23 \/ MarkData \/ MarkVote \/ Advance
  \/ (\E m \in casts : ReceiveCast(m)) \/ ReceiveBits
  \/ Timeout \/ TakeData \/ TakeVote

Spec == Init /\ [][Next]_vars

-----------------------------------------------------------------------------
\* Nothing is on its way, and no round of the three routines would send or note anything new.
Quiet ==
  /\ casts = {} /\ data = <<>> /\ votes = <<>> /\ bits = <<>>
  /\ marks = [data |-> None, votes |-> None]
  /\ ~NeedsPart
  /\ LagsBehind => (prs.parts # None /\ (prs.header = prs.height => prs.parts = Parts))
  /\ (us = prs.height /\ rs.round = prs.round /\ rs.proposal) => prs.proposal
  /\ \E sets \in {Candidates} : \A k \in 1 .. Len(sets) :
        Prepared(prs, sets[k]) = prs /\ Missing(prs, sets[k]) = {}
  /\ \A m \in Claims23 : (m.height = peer.height /\ m.round \in DOMAIN peer.sets) =>
        /\ SetPeerMaj23(peer.sets[m.round][m.type], Me, m.block) = peer.sets[m.round][m.type]
        /\ NoteBits(prs, Answer(m)) = prs

(* The routines never rest with the peer behind: whatever it knew of the height, in whatever *)
(* order its own messages arrive, and although the parts it is sent before it knows of the   *)
(* block are dropped, there is something to send until it is past every height the node has  *)
(* committed.                                                                                *)
CatchesUp == Quiet => peer.height >= us

(* At the node's own height they rest only when the peer has the majority the node has for   *)
(* the peer's round, or for the round its proposal points back to, despite conflicting votes *)
(* the peer saw first.                                                                       *)
GetsMajority ==
  (Quiet /\ us = peer.height /\ peer.step < CommitStep) =>
    \A t \in Types : \A r \in OurRounds \intersect {peer.round, IF t = "prevote" THEN prs.polRound ELSE peer.round} :
      Maj23(VotesAt(r, t)) \subseteq {peer.sets[r][t].maj23}

(* What the node believes the peer has, in the round both know it to be in, the peer has or *)
(* is about to get: a vote noted wrongly would not be sent again.                           *)
BeliefsTrue ==
  (prs.height = peer.height /\ prs.round = peer.round) =>
    /\ \A t \in Types :
         LET f == VoteBits(prs, prs.height, prs.round, t) IN
         prs[f] # None => prs[f] \subseteq Have(peer.sets[peer.round][t].votes)
                            \union {votes[k].val : k \in 1 .. Len(votes)}
=============================================================================
