----------------------------- MODULE MCNetwork -----------------------------
(* What nodes exchange, component by component: the peers of a switch, the     *)
(* connection to one of them, what is gossiped over it, the votes as they are  *)
(* collected, and the rules they are cast by.                                  *)
(* The components have no state in common: a behaviour is one of the component *)
(* that `part' names, and the variables of the others are off.                 *)
EXTENDS LockVoting

CONSTANTS v1, v2, v3
VARIABLES running, closed, lookup, list, dialing, reconnecting, conns, conn, dialer, accepting,
          stops, reactorPeers, ourAddrs,
          queue, sending, queueSize, recentlySent, wake, sender, buffer, flushTimer, routine,
          pongTimer, pongTimeoutCh, pong, messages, pings, outgoing, incoming, far, accepted, life,
          round, sets, catchup, csRound, lastCommit, heard,
          us, prs, marks, data, votes, peer, casts, bits,
          part

switchVars == <<running, closed, lookup, list, dialing, reconnecting, conns, conn, dialer,
                accepting, stops, reactorPeers, ourAddrs>>
mconnVars == <<queue, sending, queueSize, recentlySent, wake, sender, buffer, flushTimer, routine,
               pongTimer, pongTimeoutCh, pong, messages, pings, outgoing, incoming, far, accepted,
               life>>
voteVars == <<round, sets, catchup, csRound, lastCommit, heard>>
gossipVars == <<us, prs, marks, data, votes, peer, casts, bits>>

-----------------------------------------------------------------------------
(* LockVoting: v1 holds two of four votes, and v3, with one, follows no rules. *)
Three == {v1, v2, v3}
HeavyFirst == {{v1, v2}, {v1, v3}, Three}

(* Switch: two nodes besides us, and connections that end at them, at a silent  *)
(* one, at one of another network, with unknown channels or a wrong id, and at  *)
(* ourselves; node 1 is persistent.                                             *)
OurInfo == [id |-> 9, key |-> 9, answers |-> TRUE, wellFormed |-> TRUE, channels |-> <<1, 2>>,
            block |-> 1, network |-> 1]
InfoOf(i) == [OurInfo EXCEPT !.id = i, !.key = i]

FarEnds ==
  {InfoOf(1), InfoOf(2), OurInfo, [InfoOf(1) EXCEPT !.answers = FALSE],
   [InfoOf(2) EXCEPT !.network = 2], [InfoOf(2) EXCEPT !.channels = <<3, 3>>],
   [InfoOf(2) EXCEPT !.id = 1]}
TwoDialers == {[id |-> 1, kind |-> k, n |-> 1] : k \in {"dial", "reconnect"}}
OwnIP == [i \in {1, 2, 9} |-> i]

SW == INSTANCE Switch WITH
  Self <- 9, Ids <- {1, 2}, Conns <- {1, 2}, OurInfo <- OurInfo, Remotes <- FarEnds,
  Dialers <- TwoDialers, Persistent <- {1}, IP <- OwnIP, AllowDuplicateIP <- TRUE,
  MaxNumInboundPeers <- 1, ReconnectAttempts <- 1, MaxNumChannels <- 2, MaxStops <- 1

(* MConn: two channels, messages of one to three chunks, packets of two. *)
ChannelOf == [m \in {"a", "b", "c"} |-> IF m = "c" THEN 2 ELSE 1]
LengthOf == [m \in {"a", "b", "c"} |-> IF m = "a" THEN 3 ELSE IF m = "b" THEN 1 ELSE 2]
TwoLoads == {[messages |-> {"a", "b", "c"}, pings |-> 0], [messages |-> {"a"}, pings |-> 2]}
MC == INSTANCE MConn WITH
  Channels <- {1, 2}, Priority <- <<1, 2>>, QueueCapacity <- 1, RecvCapacity <- 3, MaxPayload <- 2,
  BatchSize <- 2, Senders <- {"s", "t"},
  OnChannel <- ChannelOf, Length <- LengthOf, Loads <- TwoLoads

(* VoteSets: three validators, the third with half of the power; precommits for  *)
(* a block and for nil, and votes of rounds that are far ahead.                  *)
VoteOf(v, b, r, t) == [val |-> v, block |-> b, round |-> r, type |-> t, share |-> FALSE, valid |-> TRUE]
HalfToThird == [v \in 1 .. 3 |-> IF v = 3 THEN 2 ELSE 1]
VotesCast ==
  {VoteOf(v, b, 0, "precommit") : v \in 1 .. 3, b \in {"A", "nil"}}
  \union {[VoteOf(1, b, 0, "prevote") EXCEPT !.share = TRUE] : b \in {"A", "nil"}}
  \union {[VoteOf(1, "A", r, "precommit") EXCEPT !.valid = (r # 4)] : r \in 2 .. 4}
MajorityClaims == {[round |-> 0, type |-> "precommit", block |-> b] : b \in {"A", "nil"}}
VS == INSTANCE VoteSets WITH
  Power <- HalfToThird, Blocks <- {"A", "nil"}, NilBlock <- "nil", Peers <- {"p"},
  MaxRound <- 1, MaxShares <- 2, Votes <- VotesCast, Claims <- MajorityClaims

(* Gossip: the node is catching the peer up (2, 3), in the second round of the   *)
(* peer's height, whose proposal points back to the first (6), or one height     *)
(* ahead (10); at the last two the peer has seen a conflicting vote.             *)
All(b) == [v \in {1, 2} |-> b]
NoVotes == [r \in 0 .. 2 |-> All(None)]
GV == INSTANCE VoteSet WITH
  Power <- [v \in {1, 2} |-> v], Blocks <- {"B", "nil"}, NilBlock <- "nil", Peers <- {"me"}
Fresh(h) ==
  [height |-> h, round |-> 0, step |-> 1, proposal |-> FALSE, parts |-> None, valid |-> -1,
   sets |-> [k \in {0} |-> GV!NewRoundVoteSet], extra |-> {}, commitRound |-> -1,
   lastRound |-> 1, last |-> GV!NewVoteSet]
SetsWith(rounds, r, t) ==
  [k \in rounds |-> [GV!NewRoundVoteSet EXCEPT ![t] =
     IF k = r THEN GV!AddVote(@, VoteOf(1, "nil", r, t)) ELSE @]]
PowerOf == [v \in {1, 2} |-> v]
RoundStates ==
  [h \in {2, 3, 6, 10} |->
     [round |-> IF h = 6 THEN 1 ELSE 0, proposal |-> h = 6, parts |-> h = 6,
      pol |-> IF h = 6 THEN 0 ELSE -1, precommits |-> NoVotes,
      prevotes |-> IF h = 6 THEN [NoVotes EXCEPT ![0] = All("B")] ELSE NoVotes]]
BlockCommits == [h \in {1} |-> [round |-> 1, votes |-> All("B")]]
SeenCommits == [h \in {1, 2, 5, 9} |-> [round |-> IF h = 9 THEN 1 ELSE 0, votes |-> All("B")]]
PeerStarts ==
  {[Fresh(1) EXCEPT !.lastRound = -1],
   [Fresh(6) EXCEPT !.round = 1, !.step = 3, !.sets = SetsWith(0 .. 2, 0, "prevote")],
   [Fresh(9) EXCEPT !.step = 3, !.sets = SetsWith(0 .. 1, 1, "precommit")]}
GO == INSTANCE Gossip WITH
  Power <- PowerOf, Blocks <- {"B", "nil"}, NilBlock <- "nil", Peers <- {"me"},
  Me <- "me", Block <- "B", Parts <- {1}, Heights <- {2, 3, 6, 10}, Rs <- RoundStates,
  Commit <- BlockCommits, Seen <- SeenCommits, PeerInit <- PeerStarts,
  MaxRound <- 0, MaxCasts <- 0, LateAt <- {6}

-----------------------------------------------------------------------------
off == "off"
On(p) == part = p
Off(p) == part # p
PartsInit ==
  /\ part \in {"voting", "switch", "connection", "votes", "gossip"}
  /\ Init
  /\ \/ On("switch") /\ SW!Init
     \/ /\ Off("switch")
        /\ running = off /\ closed = off /\ lookup = off /\ list = off /\ dialing = off
        /\ reconnecting = off /\ conns = off /\ conn = off /\ dialer = off /\ accepting = off
        /\ stops = off /\ reactorPeers = off /\ ourAddrs = off
  /\ \/ On("connection") /\ MC!Init
     \/ /\ Off("connection")
        /\ queue = off /\ sending = off /\ queueSize = off /\ recentlySent = off /\ wake = off
        /\ sender = off /\ buffer = off /\ flushTimer = off /\ routine = off /\ pongTimer = off
        /\ pongTimeoutCh = off /\ pong = off /\ messages = off /\ pings = off /\ outgoing = off
        /\ incoming = off /\ far = off /\ accepted = off /\ life = off
  /\ \/ On("votes") /\ VS!Init
     \/ /\ Off("votes")
        /\ round = off /\ sets = off /\ catchup = off /\ csRound = off /\ lastCommit = off
        /\ heard = off
  /\ \/ On("gossip") /\ GO!Init
     \/ /\ Off("gossip")
        /\ us = off /\ prs = off /\ marks = off /\ data = off /\ votes = off /\ peer = off
        /\ casts = off /\ bits = off

PartsNext ==
  /\ UNCHANGED part
  /\ Off("voting") => UNCHANGED vars
  /\ Off("switch") => UNCHANGED switchVars
  /\ Off("connection") => UNCHANGED mconnVars
  /\ Off("votes") => UNCHANGED voteVars
  /\ Off("gossip") => UNCHANGED gossipVars
  /\ \/ On("voting") /\ Next
     \/ On("switch") /\ SW!Next
     \/ On("connection") /\ MC!Next
     \/ On("votes") /\ VS!Next
     \/ On("gossip") /\ GO!Next

PartsSpec ==
  PartsInit /\ [][PartsNext]_<<vars, switchVars, mconnVars, voteVars, gossipVars, part>>

-----------------------------------------------------------------------------
(* The switch's peer set holds together and stays within its limit (PeersAdmitted), and no  *)
(* address is blocked by a connection that is gone (AddressesReleased), whatever its        *)
(* goroutines accept, dial, stop and clean up at once.                                      *)
PeersAccounted == On("switch") => SW!PeersAdmitted /\ SW!AddressesReleased

(* What a channel accepts arrives whole and in order (StreamsIntact), and nothing queued    *)
(* waits for a wake-up or a flush that will not come (NothingStuck).                        *)
MessagesFlow == On("connection") => MC!StreamsIntact /\ MC!NothingStuck

(* Majorities are real: their commits verify at other nodes (CommitVerifies), and every sum *)
(* counts each validator once (TalliesRight), in whatever order votes and claims come.      *)
MajoritiesReal == On("votes") => VS!CommitVerifies /\ VS!TalliesRight

(* A peer's claim gets a majority found despite conflicting votes (ClaimedMajorityFound),   *)
(* and what peers can make the node keep for later rounds is bounded (RoundsBounded).       *)
ClaimsServed == On("votes") => VS!ClaimedMajorityFound /\ VS!RoundsBounded

(* A node never takes a peer to have a vote that it has not (BeliefsTrue of Gossip).        *)
BeliefsTrue == On("gossip") => GO!BeliefsTrue

(* The gossip routines rest only when the peer has caught up (CatchesUp) and has the        *)
(* majorities of its round (GetsMajority).                                                  *)
PeerServed == On("gossip") => GO!CatchesUp /\ GO!GetsMajority
=============================================================================
