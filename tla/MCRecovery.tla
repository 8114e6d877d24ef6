------------------------------ MODULE MCRecovery ------------------------------
(* What a node has again after a restart: its chain and its votes (Recovery), and *)
(* its address book and its peers (Pex).  The two have no state in common, and a  *)
(* behaviour is one of either.                                                    *)
EXTENDS Recovery

CONSTANTS BookIds, Private, OurIds, NewBuckets, OldBuckets, BucketSize, MaxNewBucketsPerAddress,
          Seeds, Dialers, MaxOutboundPeers, MaxAttemptsToDial, Unreachable, MaxRestarts
VARIABLES book, peers, inbound, dialer, attempts, requestsSent, inbox, restarts, part

ASSUME BookAssumption == MaxNewBucketsPerAddress \in Nat \ {0}

PX == INSTANCE Pex
pexVars == <<book, peers, inbound, dialer, attempts, requestsSent, inbox, restarts>>

BothInit == part \in {"recovery", "pex"} /\ Init /\ PX!Init
BothNext ==
  /\ \/ part = "recovery" /\ Next /\ UNCHANGED pexVars
     \/ part = "pex" /\ PX!Next /\ UNCHANGED vars
  /\ UNCHANGED part

\* The fairness of Recovery and of Pex, for the part that runs.
Node(action) == part = "recovery" /\ action
Peers(action) == part = "pex" /\ action
BothFair ==
  /\ WF_vars(Node(Commit)) /\ WF_vars(Node(Start)) /\ WF_vars(Node(SaveSigned \/ SignReturns))
  /\ WF_pexVars(Peers(PX!EnsurePeers)) /\ SF_pexVars(Peers(PX!EnsurePeers /\ peers' # {}))
  /\ \A d \in Dialers :
       /\ SF_pexVars(Peers(PX!DialPeer(d)))
       /\ WF_pexVars(Peers(PX!DialSucceeds(d) \/ PX!DialFails(d)))
BothSpec == BothInit /\ [][BothNext]_<<vars, pexVars, part>> /\ BothFair

(* The node comes up again after every crash and decides every height (Recovers): no        *)
(* combination of the heights of store, state and application blocks the handshake.         *)
NodeRecovers == part = "recovery" => Recovers

(* The address book stays consistent (BookConsistent of Pex), whatever peers announce,      *)
(* dials report and restarts reload.                                                        *)
BookConsistent == PX!BookConsistent

(* A node left alone finds somebody again (FindsPeers of Pex): addresses that do not answer *)
(* are given up in the end, and the seeds are asked.                                        *)
FindsPeers == part = "pex" => PX!FindsPeers
=============================================================================
