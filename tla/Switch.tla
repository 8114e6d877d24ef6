------------------------------- MODULE Switch -------------------------------
(***************************************************************************)
(* The p2p switch of one node and the multiplex transport under it         *)
(* (p2p/switch.go, transport.go, peer_set.go, conn_set.go): connections    *)
(* are dialed, accepted, filtered, upgraded and turned into peers by       *)
(* goroutines that share the peer set and the connection set, while peers  *)
(* fail and persistent ones are dialed again.                              *)
(*                                                                         *)
(* A connection is an element of Conns; who answers on it, and what it     *)
(* says in the handshake, is one of Remotes.                               *)
(***************************************************************************)
EXTENDS Integers, Sequences, FiniteSets, Functions

CONSTANTS Self, Ids,         \* our node ID, and those of the others
          Conns,             \* bound: the connections ever made
          Remotes,           \* the node infos a connection may end at
          OurInfo,           \* our node info
          Dialers,           \* [id, kind, n]: goroutines that dial, kind "dial" or "reconnect"
          Persistent,        \* the ids of the persistent peers
          IP,                \* id -> its address without the port
          AllowDuplicateIP,  \* P2P.AllowDuplicateIP
          MaxNumInboundPeers,
          ReconnectAttempts, \* reconnectAttempts + reconnectBackOffAttempts
          MaxNumChannels,    \* maxNumChannels of a node info
          MaxStops           \* bound: calls of StopPeerForError at a time

VARIABLES running,      \* the switch: started and not stopped
          closed,       \* the transport's closec
          lookup, list, \* PeerSet
          dialing, reconnecting,
          conns,        \* ConnSet: the remote addresses it holds
          conn,         \* connection -> its progress
          dialer,       \* dialer -> its progress
          accepting,    \* acceptRoutine
          stops,        \* calls of StopPeerForError in progress
          reactorPeers, \* the ids the reactors have been given
          ourAddrs      \* AddOurAddress

vars == <<running, closed, lookup, list, dialing, reconnecting, conns, conn, dialer,
          accepting, stops, reactorPeers, ourAddrs>>
peerSet == <<lookup, list>>
service == <<running, closed>>

NoId == 0
Fresh == [phase |-> "free", id |-> NoId, out |-> FALSE, persistent |-> FALSE, self |-> FALSE,
          open |-> FALSE, started |-> FALSE, stopped |-> FALSE]
\* An open connection with id, dialed (out) or accepted.
Made(phase, id, out, persistent) ==
  [phase |-> phase, id |-> id, out |-> out, persistent |-> persistent, self |-> FALSE,
   open |-> TRUE, started |-> FALSE, stopped |-> FALSE]

\* RemoteAddr: every dial of an id goes to one address, an accepted connection has its own port.
Addr(c) == IF conn[c].out THEN <<"listens", conn[c].id>> ELSE <<"port", c>>
AddrIP(a) == IF a[1] = "listens" THEN IP[a[2]] ELSE IP[conn[a[2]].id]
IsRunning(c) == conn[c].started /\ ~conn[c].stopped

-----------------------------------------------------------------------------
(* PeerSet: a map from ids to places in a list. *)

Add(c) ==
  /\ lookup' = [i \in DOMAIN lookup \cup {conn[c].id} |->
                 IF i = conn[c].id THEN Len(list) + 1 ELSE lookup[i]]
  /\ list' = Append(list, c)

\* The place of the moved peer is not updated.
Remove_KeepsIndex(c) ==
  LET id == conn[c].id IN
  IF id \notin DOMAIN lookup THEN UNCHANGED peerSet
  ELSE LET i == lookup[id]
           n == Len(list)
           last == list[n]
       IN /\ list' = SubSeq([list EXCEPT ![i] = last], 1, n - 1)
          /\ lookup' = Restrict(lookup, DOMAIN lookup \ {id})

\* Remove goes by the id of the peer it is given; the last of the list takes the place.
Remove(c) ==
  LET id == conn[c].id IN
  IF id \notin DOMAIN lookup THEN UNCHANGED peerSet
  ELSE LET i == lookup[id]
           n == Len(list)
           last == list[n]
       IN /\ list' = SubSeq([list EXCEPT ![i] = last], 1, n - 1)
          /\ lookup' = Restrict([lookup EXCEPT ![conn[last].id] = i], DOMAIN lookup \ {id})

HasIP(ip) == \E i \in DOMAIN lookup : IP[conn[list[lookup[i]]].id] = ip

\* NumPeers
Inbound == Cardinality({i \in DOMAIN list : ~conn[list[i]].out})

-----------------------------------------------------------------------------
(* The transport: filterConn, upgrade, Cleanup. *)

\* Validate and CompatibleWith: what our node makes of another's node info.
Validate(info) ==
  /\ info.wellFormed                       \* addresses, texts and the index switch
  /\ Len(info.channels) <= MaxNumChannels
  /\ IsInjective(info.channels)

CompatibleWith(info) ==
  /\ info.block = OurInfo.block
  /\ info.network = OurInfo.network
  /\ OurInfo.channels # <<>> => Range(OurInfo.channels) \cap Range(info.channels) # {}

\* filterConn up to conns.Set: the address is new, and so is its IP unless duplicates may be.
PassesFilter(a) ==
  /\ a \notin conns
  /\ AllowDuplicateIP \/ \A b \in conns : AddrIP(b) # AddrIP(a)

\* The outcome of the secret connection and the handshake on a connection to remote r.
Upgrade(c, r) ==
  CASE ~r.answers -> "failed"                               \* a timeout or a broken handshake
    [] conn[c].out /\ r.key # conn[c].id -> "failed"
    [] ~Validate(r) -> "failed"
    [] r.key # r.id -> "failed"
    [] r.id = Self -> "self"
    [] ~CompatibleWith(r) -> "failed"
    [] OTHER -> "peer"

Cleanup(c) == conns' = conns \ {Addr(c)}

In(r, phase) == [r EXCEPT !.phase = phase]
Closed(r) == [r EXCEPT !.open = FALSE]
\* Stop of a peer: nothing if it has not been started.
Stopped(r) == [Closed(r) EXCEPT !.stopped = @ \/ r.started]

\* acceptPeers: a connection arrives, and its goroutine filters it.
Arrive(c, r) ==
  /\ ~closed /\ conn[c] = Fresh
  /\ LET a == <<"port", c>>
         pass == a \notin conns /\ (AllowDuplicateIP \/ \A b \in conns : AddrIP(b) # IP[r.key])
     IN conn' = [conn EXCEPT ![c] = IF pass THEN Made("filtered", r.key, FALSE, FALSE)
                                    ELSE Closed(Made("rejected", r.key, FALSE, FALSE))]
  /\ UNCHANGED <<service, peerSet, dialing, reconnecting, conns, dialer, accepting, stops,
                 reactorPeers, ourAddrs>>

\* conns.Set, the last step of filterConn.
SetConn(c) ==
  /\ conn[c].phase = "filtered"
  /\ conns' = conns \cup {Addr(c)}
  /\ conn' = [conn EXCEPT ![c] = In(@, "upgrading")]
  /\ UNCHANGED <<service, peerSet, dialing, reconnecting, dialer, accepting, stops,
                 reactorPeers, ourAddrs>>

\* upgrade on a failure removes the connection from the set and closes it.
Upgraded_KeepsAddr(c, r) ==
  conns' = IF Upgrade(c, r) = "self" THEN conns \ {Addr(c)} ELSE conns

Upgraded(c, r) ==
  conns' = IF Upgrade(c, r) = "peer" THEN conns ELSE conns \ {Addr(c)}

\* An accepted connection is then offered on acceptc, peer or error.
UpgradeAccepted(c, r) ==
  /\ conn[c].phase = "upgrading" /\ ~conn[c].out /\ r.key = conn[c].id
  /\ Upgraded(c, r)
  /\ conn' = [conn EXCEPT ![c] =
       CASE Upgrade(c, r) = "peer" -> In(@, "offered")
         [] Upgrade(c, r) = "self" -> [In(Closed(@), "rejected") EXCEPT !.self = TRUE]
         [] OTHER -> In(Closed(@), "rejected")]
  /\ UNCHANGED <<service, peerSet, dialing, reconnecting, dialer, accepting, stops,
                 reactorPeers, ourAddrs>>

\* The transport is closed: a connection that waits for acceptRoutine is given up.
GiveUp(c) ==
  /\ closed /\ ~conn[c].out /\ conn[c].phase \in {"offered", "rejected"}
  /\ conn' = [conn EXCEPT ![c] = In(Closed(@), "done")]
  /\ UNCHANGED <<service, peerSet, dialing, reconnecting, conns, dialer, accepting, stops,
                 reactorPeers, ourAddrs>>

-----------------------------------------------------------------------------
(* addPeer, in the steps other goroutines can come between.  A thread is the *)
(* record with the fields at and conn that acceptRoutine and dialers have.   *)

\* filterPeer: no such peer yet, and the peer filters (FilterPeers) do not object.
FilterPeer(c, objects) == conn[c].id \notin DOMAIN lookup /\ ~objects

\* The error path of both callers: Cleanup, and Stop if it runs.
Drop(c) == Cleanup(c) /\ conn' = [conn EXCEPT ![c] = In(Stopped(@), "done")]

\* IsRunning, then Start; with the switch stopped the peer is left as it is.
StartPeer(c) ==
  conn' = [conn EXCEPT ![c] = IF running THEN [In(@, "peer") EXCEPT !.started = TRUE]
                              ELSE In(@, "done")]

AddReactors(c) == reactorPeers' = reactorPeers \cup {conn[c].id}

-----------------------------------------------------------------------------
(* acceptRoutine. *)

\* One more than the configured number is let in.
Room_OffByOne == Inbound <= MaxNumInboundPeers
Room == Inbound < MaxNumInboundPeers

\* Accept returns an error: our own address is noted, the others only logged.
AcceptError(c) ==
  /\ accepting.at = "accept" /\ ~conn[c].out /\ conn[c].phase = "rejected"
  /\ ourAddrs' = IF conn[c].self THEN ourAddrs \cup {Addr(c)} ELSE ourAddrs
  /\ conn' = [conn EXCEPT ![c] = In(@, "done")]
  /\ UNCHANGED <<service, peerSet, dialing, reconnecting, conns, dialer, accepting, stops,
                 reactorPeers>>

\* The peer is let in as far as addPeer's Start, if there is room and no filter objects.
AcceptPeer(c, objects) ==
  /\ accepting.at = "accept" /\ conn[c].phase = "offered"
  /\ IF Room /\ FilterPeer(c, objects)
     THEN /\ StartPeer(c)
          /\ accepting' = IF running THEN [at |-> "add", conn |-> c] ELSE accepting
          /\ UNCHANGED conns
     ELSE Drop(c) /\ UNCHANGED accepting
  /\ UNCHANGED <<service, peerSet, dialing, reconnecting, dialer, stops, reactorPeers, ourAddrs>>

AcceptAdd ==
  /\ accepting.at = "add"
  /\ LET c == accepting.conn IN
     IF conn[c].id \in DOMAIN lookup
     THEN /\ Drop(c) /\ UNCHANGED peerSet
          /\ accepting' = [at |-> "accept", conn |-> NoId]
     ELSE /\ Add(c) /\ UNCHANGED <<conns, conn>>
          /\ accepting' = [accepting EXCEPT !.at = "reactors"]
  /\ UNCHANGED <<service, dialing, reconnecting, dialer, stops, reactorPeers, ourAddrs>>

AcceptReactors ==
  /\ accepting.at = "reactors"
  /\ AddReactors(accepting.conn)
  /\ accepting' = [at |-> "accept", conn |-> NoId]
  /\ UNCHANGED <<service, peerSet, dialing, reconnecting, conns, conn, dialer, stops, ourAddrs>>

\* ErrTransportClosed ends the routine.
AcceptEnds ==
  /\ accepting.at = "accept" /\ closed
  /\ accepting' = [at |-> "ended", conn |-> NoId]
  /\ UNCHANGED <<service, peerSet, dialing, reconnecting, conns, conn, dialer, stops,
                 reactorPeers, ourAddrs>>

-----------------------------------------------------------------------------
(* DialPeerWithAddress, called by DialPeersAsync or by a reconnect loop. *)

Idle == [at |-> "idle", conn |-> NoId, tries |-> 0]
\* A goroutine's end: DialPeersAsync dials each address once.
End(d) == IF d.kind = "dial" THEN [Idle EXCEPT !.at = "over"] ELSE Idle

IsDialingOrExistingAddress(id) ==
  id \in dialing \/ id \in DOMAIN lookup \/ (~AllowDuplicateIP /\ HasIP(IP[id]))

\* A goroutine that runs reconnectToPeer; if all the model's are busy, none.
Spawn(D, id, wanted) ==
  LET idle == {d \in DOMAIN D : d.kind = "reconnect" /\ d.id = id /\ D[d].at = "idle"} IN
  IF ~wanted \/ idle = {} THEN D
  ELSE [D EXCEPT ![CHOOSE d \in idle : \A e \in idle : d.n <= e.n].at = "begin"]

\* The end of a dial: dialing.Delete; a reconnect loop goes on after an error.
Return(d, result) ==
  LET t == dialer[d].tries + 1
      again == d.kind = "reconnect" /\ result # "ok" /\ t < ReconnectAttempts
      retry == result = "error" /\ d.id \in Persistent \* transport.Dial has failed
      quits == d.kind = "reconnect" /\ ~again
  IN /\ dialing' = dialing \ {d.id}
     /\ reconnecting' = IF quits THEN reconnecting \ {d.id} ELSE reconnecting
     /\ dialer' = Spawn([dialer EXCEPT ![d] = IF again THEN [at |-> "check", conn |-> NoId, tries |-> t]
                                              ELSE End(d)], d.id, retry)

DialPeersAsync(d) ==
  /\ d.kind = "dial" /\ running /\ dialer[d] = Idle /\ d.id # Self
  /\ dialer' = [dialer EXCEPT ![d].at = "check"]
  /\ UNCHANGED <<service, peerSet, dialing, reconnecting, conns, conn, accepting, stops,
                 reactorPeers, ourAddrs>>

\* reconnectToPeer: one loop per address.
ReconnectToPeer(d) ==
  /\ dialer[d].at = "begin"
  /\ IF d.id \in reconnecting
     THEN dialer' = [dialer EXCEPT ![d] = Idle] /\ UNCHANGED reconnecting
     ELSE /\ dialer' = [dialer EXCEPT ![d].at = "check"]
          /\ reconnecting' = reconnecting \cup {d.id}
  /\ UNCHANGED <<service, peerSet, dialing, conns, conn, accepting, stops, reactorPeers, ourAddrs>>

\* The loop ends with the switch; a dial ends at once if the address is taken.
DialCheck(d) ==
  /\ dialer[d].at = "check"
  /\ IF (d.kind = "reconnect" /\ ~running) \/ IsDialingOrExistingAddress(d.id)
     THEN /\ dialer' = [dialer EXCEPT ![d] = End(d)]
          /\ reconnecting' = IF d.kind = "reconnect" THEN reconnecting \ {d.id} ELSE reconnecting
     ELSE dialer' = [dialer EXCEPT ![d].at = "dial"] /\ UNCHANGED reconnecting
  /\ UNCHANGED <<service, peerSet, dialing, conns, conn, accepting, stops, reactorPeers, ourAddrs>>

\* dialing.Set, and the TCP connection is made and filtered, or fails.
Dial(d) ==
  /\ dialer[d].at = "dial"
  /\ \/ /\ Return(d, "error") /\ UNCHANGED conn          \* DialTimeout fails, or filterConn
     \/ \E c \in Conns :
          /\ conn[c] = Fresh /\ PassesFilter(<<"listens", d.id>>)
          /\ conn' = [conn EXCEPT ![c] = Made("filtered", d.id, TRUE, d.id \in Persistent)]
          /\ dialing' = dialing \cup {d.id}
          /\ dialer' = [dialer EXCEPT ![d] = [at |-> "upgrade", conn |-> c, tries |-> @.tries]]
          /\ UNCHANGED reconnecting
  /\ UNCHANGED <<service, peerSet, conns, accepting, stops, reactorPeers, ourAddrs>>

\* The rest of transport.Dial, and addPeer as far as Start.
DialUpgrade(d, r, objects) ==
  LET c == dialer[d].conn
      outcome == Upgrade(c, r)
      added == outcome = "peer" /\ FilterPeer(c, objects)
  IN
  /\ dialer[d].at = "upgrade" /\ conn[c].phase = "upgrading"
  /\ CASE added -> StartPeer(c) /\ UNCHANGED conns
       [] outcome = "peer" /\ ~added -> Drop(c)
       [] OTHER -> Upgraded(c, r) /\ conn' = [conn EXCEPT ![c] = In(Closed(@), "done")]
  /\ IF added /\ running
     THEN dialer' = [dialer EXCEPT ![d].at = "add"] /\ UNCHANGED <<dialing, reconnecting>>
     ELSE Return(d, CASE added -> "ok" [] outcome = "failed" -> "error" [] OTHER -> "refused")
  /\ ourAddrs' = IF outcome = "self" THEN ourAddrs \cup {Addr(c)} ELSE ourAddrs
  /\ UNCHANGED <<service, peerSet, accepting, stops, reactorPeers>>

DialAdd(d) ==
  /\ dialer[d].at = "add"
  /\ LET c == dialer[d].conn IN
     IF conn[c].id \in DOMAIN lookup
     THEN Drop(c) /\ Return(d, "refused") /\ UNCHANGED peerSet
     ELSE /\ Add(c) /\ dialer' = [dialer EXCEPT ![d].at = "reactors"]
          /\ UNCHANGED <<conns, conn, dialing, reconnecting>>
  /\ UNCHANGED <<service, accepting, stops, reactorPeers, ourAddrs>>

DialReactors(d) ==
  /\ dialer[d].at = "reactors"
  /\ AddReactors(dialer[d].conn)
  /\ Return(d, "ok")
  /\ UNCHANGED <<service, peerSet, conns, conn, accepting, stops, ourAddrs>>

-----------------------------------------------------------------------------
(* StopPeerForError, from the connection's own goroutines or from a reactor *)
(* that is in Receive, and Stop.                                            *)

\* A call: how it came about, the connection, and the step it is at.  The connection
\* reports its first error only.
Begin(c, who) ==
  /\ IsRunning(c) /\ Cardinality(stops) < MaxStops /\ (who = "mconn" => conn[c].open)
  /\ \A s \in stops : s.conn = c => s.who # who
  /\ stops' = stops \cup {[who |-> who, conn |-> c, at |-> "remove"]}
  \* the multiplex connection has stopped itself
  /\ conn' = IF who = "mconn" THEN [conn EXCEPT ![c] = Closed(@)] ELSE conn
  /\ UNCHANGED <<service, peerSet, dialing, reconnecting, conns, dialer, accepting,
                 reactorPeers, ourAddrs>>

Step(s, at) == stops' = (stops \ {s}) \cup {[s EXCEPT !.at = at]}

StopRemove(s) ==
  /\ s.at = "remove" /\ Remove(s.conn) /\ Step(s, "cleanup")
  /\ UNCHANGED <<service, dialing, reconnecting, conns, conn, dialer, accepting,
                 reactorPeers, ourAddrs>>

StopCleanup(s) ==
  /\ s.at = "cleanup" /\ Cleanup(s.conn) /\ Step(s, "reactors")
  /\ conn' = [conn EXCEPT ![s.conn] = Stopped(@)]
  /\ UNCHANGED <<service, peerSet, dialing, reconnecting, dialer, accepting,
                 reactorPeers, ourAddrs>>

\* RemovePeer of the reactors; a persistent peer is dialed again.
StopReactors(s) ==
  /\ s.at = "reactors" /\ stops' = stops \ {s}
  /\ reactorPeers' = reactorPeers \ {conn[s.conn].id}
  /\ dialer' = Spawn(dialer, conn[s.conn].id, conn[s.conn].persistent)
  /\ UNCHANGED <<service, peerSet, dialing, reconnecting, conns, conn, accepting, ourAddrs>>

\* OnStop, and the transport's Close that follows it in the node's OnStop.
OnStop ==
  /\ running /\ running' = FALSE /\ closed' = TRUE
  /\ LET gone == Range(list) IN
     /\ conns' = conns \ {Addr(c) : c \in gone}
     /\ conn' = [c \in Conns |-> IF c \in gone THEN Stopped(conn[c]) ELSE conn[c]]
  /\ lookup' = <<>> /\ list' = <<>> /\ reactorPeers' = {}
  /\ UNCHANGED <<dialing, reconnecting, dialer, accepting, stops, ourAddrs>>

Init ==
  /\ running = TRUE /\ closed = FALSE
  /\ lookup = <<>> /\ list = <<>> /\ dialing = {} /\ reconnecting = {} /\ conns = {}
  /\ conn = [c \in Conns |-> Fresh]
  /\ dialer = [d \in Dialers |-> Idle]
  /\ accepting = [at |-> "accept", conn |-> NoId]
  /\ stops = {} /\ reactorPeers = {} /\ ourAddrs = {}

Next ==
  \/ \E c \in Conns :
       \/ \E r \in Remotes : Arrive(c, r) \/ UpgradeAccepted(c, r)
       \/ SetConn(c) \/ GiveUp(c) \/ AcceptError(c)
       \/ \E objects \in BOOLEAN : AcceptPeer(c, objects)
       \/ \E who \in {"mconn", "reactor"} : Begin(c, who)
  \/ AcceptAdd \/ AcceptReactors \/ AcceptEnds
  \/ \E d \in Dialers :
       \/ DialPeersAsync(d) \/ ReconnectToPeer(d) \/ DialCheck(d) \/ Dial(d)
       \/ \E r \in Remotes, objects \in BOOLEAN : DialUpgrade(d, r, objects)
       \/ DialAdd(d) \/ DialReactors(d)
  \/ \E s \in stops : StopRemove(s) \/ StopCleanup(s) \/ StopReactors(s)
  \/ OnStop

Spec == Init /\ [][Next]_vars

-----------------------------------------------------------------------------
(* The peer set holds together whatever the goroutines do: each id has one place in the  *)
(* list, which is that of a connection that authenticated as the id and is not our own   *)
(* (PeerSet, upgrade), and the inbound peers are never more than MaxNumInboundPeers.     *)
PeersAdmitted ==
  /\ Len(list) = Cardinality(DOMAIN lookup)
  /\ \A id \in DOMAIN lookup : lookup[id] \in DOMAIN list /\ conn[list[lookup[id]]].id = id
  /\ Self \notin DOMAIN lookup
  /\ Inbound <= MaxNumInboundPeers

(* An address in the connection set belongs to a connection that is open, or whose stop  *)
(* is still going to release it: filterConn never turns a node away because of a         *)
(* connection that is gone.                                                              *)
AddressesReleased ==
  \A a \in conns : \E c \in Conns :
    /\ conn[c] # Fresh /\ Addr(c) = a
    /\ conn[c].open \/ closed \/ \E s \in stops : s.conn = c /\ s.at \in {"remove", "cleanup"}
=============================================================================
