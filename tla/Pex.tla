-------------------------------- MODULE Pex ---------------------------------
(***************************************************************************)
(* The peer exchange reactor of a node (p2p/pex/pex_reactor.go), with its  *)
(* address book: it asks its peers for addresses, answers theirs, and      *)
(* dials addresses of the book in goroutines of their own, with a count of *)
(* the attempts; with nobody to talk to it falls back to its seeds.  The   *)
(* switch is what the reactor calls of it.                                 *)
(***************************************************************************)
EXTENDS AddrBook, Functions

CONSTANTS Seeds,              \* ids of the seeds, not in BookIds
          Dialers,            \* goroutines that run dialPeer
          MaxOutboundPeers,
          MaxAttemptsToDial,
          Unreachable,        \* ids whose dials always fail
          MaxRestarts         \* bound

VARIABLES book,
          peers, inbound,     \* ids of connected peers; those that dialed us
          dialer,             \* dialer -> its dialPeer in progress
          attempts,           \* attemptsToDial, 0 when there is no entry
          requestsSent,
          inbox,              \* answers from peers: [from, id]
          restarts

vars == <<book, peers, inbound, dialer, attempts, requestsSent, inbox, restarts>>

Ids == BookIds \union Seeds
Nobody == "nobody"
Free == [at |-> "free", id |-> Nobody, n |-> 0]
Dialing == {dialer[d].id : d \in {e \in Dialers : dialer[e].at = "dialing"}}

-----------------------------------------------------------------------------
(* dialPeer, around the switch's DialPeerWithAddress. *)

DialPeer(d) ==
  /\ dialer[d].at = "start"
  /\ LET i == dialer[d].id IN
     IF attempts[i] > MaxAttemptsToDial
     THEN book' = RemoveAddress(book, i) /\ dialer' = [dialer EXCEPT ![d] = Free]
     ELSE /\ IF i \in Dialing \union peers THEN dialer' = [dialer EXCEPT ![d] = Free]
             ELSE dialer' = [dialer EXCEPT ![d] = [at |-> "dialing", id |-> i, n |-> attempts[i]]]
          /\ UNCHANGED book
  /\ UNCHANGED <<peers, inbound, attempts, requestsSent, inbox, restarts>>

\* The exponential backoff since the last attempt is not over.
TooEarly(d) ==
  /\ dialer[d].at = "start" /\ attempts[dialer[d].id] \in 1 .. MaxAttemptsToDial
  /\ dialer' = [dialer EXCEPT ![d] = Free]
  /\ UNCHANGED <<book, peers, inbound, attempts, requestsSent, inbox, restarts>>

\* The switch adds the peer; AddPeer of an outbound peer asks it for addresses.
DialSucceeds(d) ==
  /\ dialer[d].at = "dialing" /\ dialer[d].id \notin Unreachable \union peers
  /\ peers' = peers \union {dialer[d].id} /\ requestsSent' = requestsSent \union {dialer[d].id}
  /\ attempts' = [attempts EXCEPT ![dialer[d].id] = 0]
  /\ dialer' = [dialer EXCEPT ![d] = Free]
  /\ UNCHANGED <<book, inbound, inbox, restarts>>

\* A failed dial leaves the count alone.
DialFails_NotCounted(d) ==
  /\ dialer[d].at = "dialing"
  /\ \/ attempts' = attempts /\ UNCHANGED book
     \/ attempts' = [attempts EXCEPT ![dialer[d].id] = 0] /\ book' = RemoveAddress(book, dialer[d].id)
  /\ dialer' = [dialer EXCEPT ![d] = Free]
  /\ UNCHANGED <<peers, inbound, requestsSent, inbox, restarts>>

\* markAddrInBookBasedOnErr: an authentication failure removes the address, any other error
\* counts as an attempt.
DialFails(d) ==
  /\ dialer[d].at = "dialing"
  /\ \/ attempts' = [attempts EXCEPT ![dialer[d].id] = dialer[d].n + 1] /\ UNCHANGED book
     \/ attempts' = [attempts EXCEPT ![dialer[d].id] = 0] /\ book' = RemoveAddress(book, dialer[d].id)
  /\ dialer' = [dialer EXCEPT ![d] = Free]
  /\ UNCHANGED <<peers, inbound, requestsSent, inbox, restarts>>

-----------------------------------------------------------------------------
(* ensurePeers. *)

\* dialSeeds: the seeds in a random order until one answers (or none).
DialSeeds(P) == P \in SUBSET Seeds /\ Cardinality(P) <= 1

\* With the book b and the requests sent so far: picks up to numToDial addresses to dial (the
\* random picks may all fall on addresses in use already), asks a peer for more, falls back to
\* the seeds.  Bound: there are Dialers enough.
Ensure(b, sent) ==
  LET numToDial == MaxOutboundPeers - Cardinality((peers \ inbound) \union Dialing)
      pickable  == PickAddress(b) \ (peers \union Dialing)
      idle      == {d \in Dialers : dialer[d].at = "free"}
  IN \/ numToDial <= 0 /\ requestsSent' = sent /\ UNCHANGED <<dialer, peers>>
     \/ \E T \in SUBSET pickable :
          /\ numToDial \in 1 .. Cardinality(idle) /\ Cardinality(T) <= numToDial
          /\ T = {} => pickable = {} \/ pickable # PickAddress(b)
          /\ \E f \in Injection(T, idle) :
               dialer' = [d \in Dialers |-> IF \E i \in T : f[i] = d
                                           THEN [at |-> "start", id |-> CHOOSE i \in T : f[i] = d, n |-> 0]
                                           ELSE dialer[d]]
          /\ IF peers \union Dialing \union T = {}
             THEN \E P \in SUBSET Seeds : DialSeeds(P) /\ peers' = P /\ requestsSent' = sent \union P
             ELSE /\ UNCHANGED peers
                  /\ \/ peers = {} /\ requestsSent' = sent
                     \/ \E p \in peers : requestsSent' = sent \union {p}

EnsurePeers == Ensure(book, requestsSent) /\ UNCHANGED <<book, inbound, attempts, inbox, restarts>>

-----------------------------------------------------------------------------
(* Peers: they come, answer, ask and go. *)

\* The switch stops the peer: its connection is gone with what it carried, and RemovePeer.
Remove(p) ==
  /\ peers' = peers \ {p} /\ inbound' = inbound \ {p}
  /\ requestsSent' = requestsSent \ {p} /\ inbox' = {m \in inbox : m.from # p}

\* AddPeer of an inbound peer: it is its own source.
InboundPeer(i) ==
  /\ i \in BookIds \ peers /\ peers' = peers \union {i} /\ inbound' = inbound \union {i}
  /\ \E n \in NewBuckets : book' \in AddAddress(book, i, i, n)
  /\ UNCHANGED <<dialer, attempts, requestsSent, inbox, restarts>>

\* A peer sends an address, asked or not.  Bound: one answer is under way at a time.
Answer(p) ==
  /\ p \in peers /\ inbox = {}
  /\ \E i \in BookIds : inbox' = inbox \union {[from |-> p, id |-> i]}
  /\ UNCHANGED <<book, peers, inbound, dialer, attempts, requestsSent, restarts>>

\* ReceiveAddrs: of an open request, else the peer is stopped.  An address from a seed is tried
\* without waiting.
ReceiveAddrs(m) ==
  /\ IF m.from \in requestsSent
     THEN /\ inbox' = inbox \ {m} /\ UNCHANGED inbound
          /\ \E n \in NewBuckets : book' \in AddAddress(book, m.id, m.from, n)
          /\ LET sent == requestsSent \ {m.from} IN
             IF m.from \in Seeds THEN Ensure(book', sent)
             ELSE requestsSent' = sent /\ UNCHANGED <<peers, dialer>>
     ELSE Remove(m.from) /\ UNCHANGED <<book, dialer>>
  /\ UNCHANGED <<attempts, restarts>>

PeerGone(p) ==
  /\ Remove(p)
  /\ UNCHANGED <<book, dialer, attempts, restarts>>

\* receiveRequest: a request too soon after the last stops the peer; otherwise it is answered,
\* which changes nothing here.
ReceiveRequest(p) ==
  /\ Remove(p)
  /\ UNCHANGED <<book, dialer, attempts, restarts>>

\* The switch marks a peer good once it has been useful.
PeerIsGood(p) ==
  /\ p \in peers /\ \E n \in OldBuckets : book' \in MarkGood(book, p, n)
  /\ UNCHANGED <<peers, inbound, dialer, attempts, requestsSent, inbox, restarts>>

\* The node stops: saveRoutine saves the book, and OnStart loads it again.  (After a crash an
\* older book is loaded: one that this action could have saved then.)
Restart ==
  /\ restarts < MaxRestarts /\ restarts' = restarts + 1
  /\ book' = LoadFromFile(book.lookup) /\ peers' = {} /\ inbound' = {} /\ requestsSent' = {} /\ inbox' = {}
  /\ dialer' = [d \in Dialers |-> Free] /\ attempts' = [i \in BookIds |-> 0]

Init ==
  /\ book = EmptyBook /\ peers = {} /\ inbound = {} /\ requestsSent = {} /\ inbox = {}
  /\ dialer = [d \in Dialers |-> Free] /\ attempts = [i \in BookIds |-> 0]
  /\ restarts = 0

Next ==
  \/ \E d \in Dialers : DialPeer(d) \/ TooEarly(d) \/ DialSucceeds(d) \/ DialFails(d)
  \/ EnsurePeers \/ \E i \in BookIds : InboundPeer(i)
  \/ \E p \in peers : Answer(p) \/ PeerGone(p) \/ ReceiveRequest(p) \/ PeerIsGood(p)
  \/ \E m \in inbox : ReceiveAddrs(m)
  \/ Restart

Spec == Init /\ [][Next]_vars

\* The ticker fires, goroutines run; a backoff ends some time, and so does the trouble with
\* the seeds.
Fairness ==
  /\ WF_vars(EnsurePeers) /\ SF_vars(EnsurePeers /\ peers' # {})
  /\ \A d \in Dialers : SF_vars(DialPeer(d)) /\ WF_vars(DialSucceeds(d) \/ DialFails(d))
FairSpec == Spec /\ Fairness

(* The address book stays consistent whatever peers announce, dials report and restarts     *)
(* reload: a nonzero count means a bucket with an address (PickAddress loops until it finds *)
(* one), Size is the number of entries (GetSelection fills a slice of that length and "must *)
(* never return a nil address"), and no own or private id is in it.                         *)
BookConsistent == Consistent(book)

(* A node left alone finds somebody again: addresses that do not answer are counted and     *)
(* given up, so that in the end ensurePeers has nothing to dial and turns to the seeds.     *)
FindsPeers == []<>(peers # {})
=============================================================================
