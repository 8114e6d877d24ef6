---------------------------- MODULE SwitchProofs ----------------------------
(***************************************************************************)
(* The switch and its transport, for any connections, remotes, goroutines  *)
(* that dial and calls of StopPeerForError: what the peer set holds, and   *)
(* which addresses the connection set keeps.                               *)
(*                                                                         *)
(* Neither is inductive.  That an added peer is not ourselves and that its *)
(* place is its own depends on what acceptRoutine and the dialers hold     *)
(* between Start and Add; that there is room, on acceptRoutine being alone *)
(* in adding inbound peers; that an address is released, on who is still   *)
(* going to call Cleanup.  SwitchInv says all of it.  Most steps are about *)
(* one connection, and OneConn concludes SwitchInv' for those.             *)
(***************************************************************************)
EXTENDS Switch, SequenceTheorems, FiniteSetTheorems, TLAPS

(* Leaves that need arithmetic, records or sequences name SMT. *)
USE ZenonT(60)

(* Connections as records. *)
IsConn(r) == r = [phase |-> r.phase, id |-> r.id, out |-> r.out, persistent |-> r.persistent,
                  self |-> r.self, open |-> r.open, started |-> r.started, stopped |-> r.stopped]

\* What does not change of a connection once it is made.
SameEnds(q, r) == IsConn(q) /\ q.id = r.id /\ q.out = r.out

LEMMA InIs ==
  ASSUME NEW r, IsConn(r), NEW p
  PROVE  LET q == In(r, p) IN SameEnds(q, r) /\ q.phase = p /\ q.open = r.open /\ q.started = r.started
  BY SMTT(30) DEF IsConn, SameEnds, In

LEMMA FieldSet ==
  ASSUME NEW r, IsConn(r), NEW v
  PROVE  /\ LET q == [r EXCEPT !.open = v] IN
              SameEnds(q, r) /\ q.phase = r.phase /\ q.started = r.started
         /\ LET q == [r EXCEPT !.stopped = v] IN
              SameEnds(q, r) /\ q.phase = r.phase /\ q.started = r.started
         /\ LET q == [r EXCEPT !.self = v] IN
              SameEnds(q, r) /\ q.phase = r.phase /\ q.started = r.started
         /\ LET q == [r EXCEPT !.started = v] IN
              SameEnds(q, r) /\ q.phase = r.phase /\ q.open = r.open
  BY SMTT(30) DEF IsConn, SameEnds

LEMMA ClosedIs ==
  ASSUME NEW r, IsConn(r)
  PROVE  LET q == Closed(r) IN SameEnds(q, r) /\ q.phase = r.phase /\ q.started = r.started
  BY FieldSet DEF Closed

LEMMA StoppedIs ==
  ASSUME NEW r, IsConn(r)
  PROVE  LET q == Stopped(r) IN SameEnds(q, r) /\ q.phase = r.phase /\ q.started = r.started
<1> DEFINE c == Closed(r)
<1>1. SameEnds(c, r) /\ c.phase = r.phase /\ c.started = r.started
  BY ClosedIs
<1>2. Stopped(r) = [c EXCEPT !.stopped = c.stopped \/ r.started]
  BY DEF Stopped
<1> HIDE DEF c
<1>3. LET q == [c EXCEPT !.stopped = c.stopped \/ r.started] IN
        SameEnds(q, c) /\ q.phase = c.phase /\ q.started = c.started
  <2>1. IsConn(c)
    BY <1>1 DEF SameEnds
  <2>. QED
    BY <2>1, FieldSet
<1>. QED
  BY <1>1, <1>2, <1>3 DEF SameEnds

LEMMA MadeIs ==
  ASSUME NEW p, NEW i, NEW o, NEW s
  PROVE  LET q == Made(p, i, o, s) IN
         IsConn(q) /\ q.id = i /\ q.out = o /\ q.phase = p /\ q.open = TRUE /\ q.started = FALSE
  BY SMTT(30) DEF IsConn, Made

Up == {"peer", "done"}

\* A connection: it is open until its upgrade ends, it is started last, and what is offered is not us.
ConnOK(r) ==
  /\ IsConn(r)
  /\ r.phase \in {"filtered", "upgrading"} => r.open = TRUE
  /\ r.started # FALSE => r.phase \in Up
  /\ r.phase = "offered" => r.id # Self

\* The rest is about the connections K (conn, or conn').

\* A connection that authenticated as somebody else.
Established(c, K) == c \in Conns /\ K[c].phase \in Up /\ K[c].id # Self

IsDialer(e) == e = [at |-> e.at, conn |-> e.conn, tries |-> e.tries]
DialerOK(e, K) ==
  /\ IsDialer(e)
  /\ e.at = "upgrade" => e.conn \in Conns /\ K[e.conn].out = TRUE /\ K[e.conn].phase # "free"
  /\ e.at = "add" => Established(e.conn, K) /\ K[e.conn].out = TRUE

IsStop(s) == s = [who |-> s.who, conn |-> s.conn, at |-> s.at]
StopOK(s, K) == IsStop(s) /\ s.conn \in Conns /\ K[s.conn].phase \in Up

InboundAt(ps, K) == {i \in 1 .. Len(ps) : ~K[ps[i]].out}

\* PeerSet: ids and places are one to one.
PlacesOK(ps, look, K) ==
  /\ ps \in Seq(Conns)
  /\ look = [i \in DOMAIN look |-> look[i]] /\ IsFiniteSet(DOMAIN look)
  /\ Cardinality(DOMAIN look) = Len(ps)
  /\ \A i \in DOMAIN look : look[i] \in 1 .. Len(ps) /\ K[ps[look[i]]].id = i
  /\ \A k \in 1 .. Len(ps) :
       /\ Established(ps[k], K)
       /\ K[ps[k]].id \in DOMAIN look /\ look[K[ps[k]].id] = k

\* The address of a connection; somebody is going to release it.
AddrIn(c, K) == IF K[c].out THEN <<"listens", K[c].id>> ELSE <<"port", c>>
Alive(c, K, S, end) ==
  K[c].open = TRUE \/ end \/ \E s \in S : s.conn = c /\ s.at \in {"remove", "cleanup"}
Held(a, K, S, end) == \E c \in Conns : K[c].phase # "free" /\ AddrIn(c, K) = a /\ Alive(c, K, S, end)

(* The inductive invariant. *)
ConnsOK == conn = [c \in Conns |-> conn[c]] /\ \A c \in Conns : ConnOK(conn[c])
DialersOK == dialer = [d \in Dialers |-> dialer[d]] /\ \A d \in Dialers : DialerOK(dialer[d], conn)
InboundOK(ps, acc, K) ==
  /\ acc = [at |-> acc.at, conn |-> acc.conn]
  /\ Cardinality(InboundAt(ps, K)) <= MaxNumInboundPeers
  /\ acc.at = "add" => /\ Established(acc.conn, K)
                       /\ Cardinality(InboundAt(ps, K)) < MaxNumInboundPeers
SwitchInv ==
  /\ ConnsOK /\ DialersOK /\ InboundOK(list, accepting, conn)
  /\ \A s \in stops : StopOK(s, conn)
  /\ PlacesOK(list, lookup, conn)
  /\ \A a \in conns : Held(a, conn, stops, closed)

\* A step makes connections and takes them further, and never gives them other ends.
Onward(q, r) ==
  r.phase # "free" =>
    SameEnds(q, r) /\ q.phase # "free" /\ (r.phase \in Up => q.phase \in Up)
Further(L, K) == \A c \in Conns : Onward(L[c], K[c])

LEMMA FurtherNone == ASSUME ConnsOK PROVE Further(conn, conn)
  BY DEF ConnsOK, Further, Onward, SameEnds, ConnOK

LEMMA FurtherOne ==
  ASSUME ConnsOK, NEW c \in Conns, NEW q, conn' = [conn EXCEPT ![c] = q], ConnOK(q), Onward(q, conn[c])
  PROVE  /\ ConnsOK' /\ Further(conn', conn) /\ conn'[c] = q
         /\ \A d \in Conns \ {c} : conn'[d] = conn[d]
<1>1. conn'[c] = q /\ (\A d \in Conns \ {c} : conn'[d] = conn[d]) /\ conn' = [d \in Conns |-> conn'[d]]
  BY DEF ConnsOK
<1>2. \A d \in Conns : Onward(conn[d], conn[d]) /\ ConnOK(conn[d])
  BY DEF ConnsOK, Onward, SameEnds, ConnOK
<1>. QED
  BY <1>1, <1>2 DEF ConnsOK, Further

LEMMA EstablishedStays ==
  ASSUME NEW K, NEW L, Further(L, K), NEW c, Established(c, K) PROVE Established(c, L) /\ L[c].out = K[c].out
  BY DEF Further, Onward, SameEnds, Established, Up

LEMMA StopStays == ASSUME NEW K, NEW L, Further(L, K), NEW s, StopOK(s, K) PROVE StopOK(s, L)
  BY DEF Further, Onward, SameEnds, StopOK, Up

Quiet(e) == IsDialer(e) /\ e.at \notin {"upgrade", "add"}

LEMMA QuietOK == ASSUME NEW e, Quiet(e), NEW K PROVE DialerOK(e, K)
  BY DEF Quiet, DialerOK

LEMMA DialerStays == ASSUME NEW K, NEW L, Further(L, K), NEW e, DialerOK(e, K) PROVE DialerOK(e, L)
<1>1. e.at = "upgrade" => e.conn \in Conns /\ L[e.conn].out = TRUE /\ L[e.conn].phase # "free"
  BY DEF DialerOK, Further, Onward, SameEnds
<1>2. ASSUME e.at = "add" PROVE Established(e.conn, L) /\ L[e.conn].out = TRUE
  <2>1. Established(e.conn, K) /\ K[e.conn].out = TRUE
    BY <1>2 DEF DialerOK
  <2>2. Established(e.conn, L) /\ L[e.conn].out = K[e.conn].out
    BY <2>1, EstablishedStays
  <2>. QED
    BY <2>1, <2>2
<1>. QED
  BY <1>1, <1>2 DEF DialerOK

DialersKept ==
  /\ dialer' = [d \in Dialers |-> dialer'[d]]
  /\ \A d \in Dialers : dialer'[d] = dialer[d] \/ Quiet(dialer'[d]) \/ DialerOK(dialer'[d], conn')

LEMMA DialersStay == ASSUME DialersOK, Further(conn', conn), DialersKept PROVE DialersOK'
<1>1. ASSUME NEW d \in Dialers PROVE DialerOK(dialer'[d], conn')
  BY DialerStays, QuietOK DEF DialersKept, DialersOK
<1>. QED
  BY <1>1 DEF DialersKept, DialersOK

LEMMA PlacesStay ==
  ASSUME NEW K, NEW L, Further(L, K), NEW ps, NEW look, PlacesOK(ps, look, K)
  PROVE  PlacesOK(ps, look, L) /\ InboundAt(ps, L) = InboundAt(ps, K)
<1>1. \A k \in 1 .. Len(ps) : /\ Established(ps[k], L) /\ L[ps[k]].out = K[ps[k]].out
                                /\ L[ps[k]].id = K[ps[k]].id
  BY EstablishedStays DEF PlacesOK, Established, Further, Onward, SameEnds, Up
<1>2. \A i \in DOMAIN look : L[ps[look[i]]].id = i
  BY <1>1 DEF PlacesOK
<1>3. InboundAt(ps, L) = InboundAt(ps, K)
  BY <1>1 DEF InboundAt
<1>. QED
  BY <1>1, <1>2, <1>3 DEF PlacesOK

LEMMA InboundStays ==
  ASSUME NEW K, NEW L, Further(L, K), NEW ps, NEW look, PlacesOK(ps, look, K),
         NEW acc, InboundOK(ps, acc, K)
  PROVE  InboundOK(ps, acc, L)
  BY PlacesStay, EstablishedStays DEF InboundOK

LEMMA HeldStays ==
  ASSUME NEW K, NEW L, Further(L, K), NEW S, NEW T, NEW f, NEW g, NEW a, Held(a, K, S, f),
         \A c \in Conns : K[c].phase # "free" /\ AddrIn(c, K) = a /\ Alive(c, K, S, f) => Alive(c, L, T, g)
  PROVE  Held(a, L, T, g)
<1>1. PICK c \in Conns : K[c].phase # "free" /\ AddrIn(c, K) = a /\ Alive(c, K, S, f)
  BY DEF Held
<1>2. L[c].phase # "free" /\ L[c].out = K[c].out /\ L[c].id = K[c].id
  BY <1>1 DEF Further, Onward, SameEnds
<1>3. AddrIn(c, L) = a
  BY <1>1, <1>2 DEF AddrIn
<1>. QED
  BY <1>1, <1>2, <1>3 DEF Held

LEMMA AddrSame == ASSUME NEW c PROVE Addr(c) = AddrIn(c, conn)
  BY DEF Addr, AddrIn

(* A step that is about one connection c: nothing is closed and the address of c may be   *)
(* taken, or c is closed and its address released.                                         *)
LEMMA HeldOne ==
  ASSUME \A a \in conns : Held(a, conn, stops, closed), NEW c \in Conns, Further(conn', conn),
         \A d \in Conns \ {c} : conn'[d] = conn[d],
         stops' = stops, closed' = closed,
         \/ conn'[c].open = conn[c].open /\ conns' = conns
         \/ conn'[c].open = TRUE /\ conn[c].phase # "free" /\ conns' = conns \union {AddrIn(c, conn)}
         \/ conn[c].phase = "free" /\ conns' = conns
         \/ closed /\ conns' = conns
         \/ conns' = conns \ {AddrIn(c, conn)}
  PROVE  \A a \in conns' : Held(a, conn', stops', closed')
<1> SUFFICES ASSUME NEW a \in conns' PROVE Held(a, conn', stops', closed')
  OBVIOUS
<1>1. CASE a \in conns
  <2>1. ASSUME NEW d \in Conns, conn[d].phase # "free", AddrIn(d, conn) = a, Alive(d, conn, stops, closed)
        PROVE  Alive(d, conn', stops', closed')
    BY <1>1, <2>1 DEF Alive
  <2>. QED
    BY <1>1, <2>1, HeldStays
<1>2. CASE a \notin conns
  <2>1. a = AddrIn(c, conn) /\ conn'[c].open = TRUE /\ conn[c].phase # "free"
    BY <1>2
  <2>2. conn'[c].phase # "free" /\ conn'[c].out = conn[c].out /\ conn'[c].id = conn[c].id
    BY <2>1 DEF Further, Onward, SameEnds
  <2>3. AddrIn(c, conn') = a /\ Alive(c, conn', stops', closed')
    BY <2>1, <2>2 DEF AddrIn, Alive
  <2>. QED
    BY <2>2, <2>3 DEF Held
<1>. QED
  BY <1>1, <1>2

(* Spawn starts a goroutine that was idle, and Return ends one. *)
LEMMA SpawnQuiet ==
  ASSUME NEW D, D = [d \in Dialers |-> D[d]], \A d \in Dialers : IsDialer(D[d]), NEW i, NEW w
  PROVE  /\ Spawn(D, i, w) = [d \in Dialers |-> Spawn(D, i, w)[d]]
         /\ \A d \in Dialers : Spawn(D, i, w)[d] = D[d] \/ Quiet(Spawn(D, i, w)[d])
<1> DEFINE idle == {d \in DOMAIN D : d.kind = "reconnect" /\ d.id = i /\ D[d].at = "idle"}
           x == CHOOSE d \in idle : \A e \in idle : d.n <= e.n
           E == [D EXCEPT ![x] = [D[x] EXCEPT !.at = "begin"]]
<1>1. Spawn(D, i, w) = IF ~w \/ idle = {} THEN D ELSE E
  BY DEF Spawn
<1>2. ASSUME NEW e, IsDialer(e) PROVE Quiet([e EXCEPT !.at = "begin"])
  BY SMTT(30), <1>2 DEF IsDialer, Quiet
<1> HIDE DEF x
<1>3. E = [d \in Dialers |-> E[d]] /\ \A d \in Dialers : E[d] = D[d] \/ Quiet(E[d])
  BY <1>2
<1>. QED
  BY <1>1, <1>3

LEMMA EndsQuiet == ASSUME NEW d PROVE Quiet(End(d)) /\ Quiet(Idle)
<1>1. Quiet(Idle) /\ Quiet([Idle EXCEPT !.at = "over"])
  BY SMTT(30) DEF Quiet, IsDialer, Idle
<1>. QED
  BY <1>1 DEF End

LEMMA DialerSet ==
  ASSUME DialersOK, NEW d \in Dialers, NEW e, Quiet(e) \/ DialerOK(e, conn'), dialer' = [dialer EXCEPT ![d] = e]
  PROVE  DialersKept
  BY DEF DialersOK, DialersKept

LEMMA DialerAt ==
  ASSUME DialersOK, NEW d \in Dialers, NEW a, a \notin {"upgrade", "add"}, dialer' = [dialer EXCEPT ![d].at = a]
  PROVE  DialersKept
<1>1. Quiet([dialer[d] EXCEPT !.at = a])
  <2>1. IsDialer(dialer[d])
    BY DEF DialersOK, DialerOK
  <2>. QED
    BY SMTT(30), <2>1 DEF IsDialer, Quiet
<1>2. dialer' = [dialer EXCEPT ![d] = [dialer[d] EXCEPT !.at = a]]
  OBVIOUS
<1>. QED
  BY <1>1, <1>2, DialerSet

LEMMA ReturnQuiet == ASSUME DialersOK, NEW d \in Dialers, NEW x, Return(d, x) PROVE DialersKept
<1> DEFINE t == dialer[d].tries + 1
           again == d.kind = "reconnect" /\ x # "ok" /\ t < ReconnectAttempts
           retry == x = "error" /\ d.id \in Persistent
           e == IF again THEN [at |-> "check", conn |-> NoId, tries |-> t] ELSE End(d)
           D == [dialer EXCEPT ![d] = e]
<1>1. dialer' = Spawn(D, d.id, retry)
  BY DEF Return
<1>2. Quiet(e)
  <2>1. Quiet([at |-> "check", conn |-> NoId, tries |-> t])
    BY SMTT(30) DEF Quiet, IsDialer
  <2>. QED
    BY <2>1, EndsQuiet
<1> HIDE DEF e
<1>3. D = [a \in Dialers |-> D[a]] /\ \A a \in Dialers : D[a] = dialer[a] \/ Quiet(D[a])
  BY <1>2 DEF DialersOK
<1>4. \A a \in Dialers : IsDialer(D[a])
  BY <1>3 DEF DialersOK, DialerOK, Quiet
<1> HIDE DEF D
<1>5. /\ Spawn(D, d.id, retry) = [a \in Dialers |-> Spawn(D, d.id, retry)[a]]
      /\ \A a \in Dialers : Spawn(D, d.id, retry)[a] = D[a] \/ Quiet(Spawn(D, d.id, retry)[a])
  BY <1>3, <1>4, SpawnQuiet
<1>. QED
  BY <1>1, <1>3, <1>5 DEF DialersKept

\* There are finitely many inbound peers.
LEMMA InboundFinite ==
  ASSUME NEW ps, NEW look, NEW K, PlacesOK(ps, look, K)
  PROVE  IsFiniteSet(InboundAt(ps, K)) /\ Cardinality(InboundAt(ps, K)) \in Nat
<1>1. Len(ps) \in Nat
  BY LenProperties DEF PlacesOK
<1>2. 1 \in Int /\ Len(ps) \in Int
  BY SMTT(30), <1>1
<1>3. IsFiniteSet(1 .. Len(ps)) /\ InboundAt(ps, K) \subseteq 1 .. Len(ps)
  BY <1>2, FS_Interval DEF InboundAt
<1>. QED
  BY <1>3, FS_Subset, FS_CardinalityType

(* PeerSet.Add *)
LEMMA AddPlaces ==
  ASSUME PlacesOK(list, lookup, conn), NEW c, Established(c, conn), conn[c].id \notin DOMAIN lookup,
         Add(c)
  PROVE  /\ PlacesOK(list', lookup', conn)
         /\ InboundAt(list', conn) \subseteq InboundAt(list, conn) \union {Len(list) + 1}
         /\ conn[c].out = TRUE => InboundAt(list', conn) = InboundAt(list, conn)
<1> DEFINE n == Len(list)
           id == conn[c].id
<1>1. list \in Seq(Conns) /\ c \in Conns /\ n \in Nat
  BY LenProperties DEF PlacesOK, Established
<1>2. /\ list' \in Seq(Conns) /\ Len(list') = n + 1 /\ list'[n + 1] = c
      /\ \A k \in 1 .. n : list'[k] = list[k]
  <2>1. list' = Append(list, c)
    BY DEF Add
  <2>. QED
    BY SMTT(30), <1>1, <2>1
<1>3. /\ DOMAIN lookup' = DOMAIN lookup \union {id} /\ lookup'[id] = n + 1
      /\ \A i \in DOMAIN lookup : lookup'[i] = lookup[i]
      /\ lookup' = [i \in DOMAIN lookup' |-> lookup'[i]]
  BY DEF Add
<1>4. 1 .. n + 1 = (1 .. n) \union {n + 1} /\ n + 1 \notin 1 .. n
  BY SMTT(30), <1>1
<1>5. IsFiniteSet(DOMAIN lookup') /\ Cardinality(DOMAIN lookup') = n + 1
  <2>1. IsFiniteSet(DOMAIN lookup) /\ Cardinality(DOMAIN lookup) = n
    BY DEF PlacesOK
  <2>2. /\ IsFiniteSet(DOMAIN lookup \union {id})
        /\ Cardinality(DOMAIN lookup \union {id}) = Cardinality(DOMAIN lookup) + 1
    BY <2>1, FS_AddElement
  <2>. QED
    BY <1>3, <2>1, <2>2
<1>6. ASSUME NEW i \in DOMAIN lookup' PROVE lookup'[i] \in 1 .. n + 1 /\ conn[list'[lookup'[i]]].id = i
  <2>1. CASE i = id
    BY <1>2, <1>3, <1>4, <2>1
  <2>2. CASE i \in DOMAIN lookup
    <3>1. lookup'[i] = lookup[i] /\ lookup[i] \in 1 .. n /\ conn[list[lookup[i]]].id = i
      BY <1>3, <2>2 DEF PlacesOK
    <3>2. lookup[i] \in 1 .. n + 1 /\ list'[lookup[i]] = list[lookup[i]]
      BY <1>2, <1>4, <3>1
    <3>. QED
      BY <3>1, <3>2
  <2>. QED
    BY <1>3, <2>1, <2>2
<1>7. ASSUME NEW k \in 1 .. n + 1
      PROVE  /\ Established(list'[k], conn)
             /\ conn[list'[k]].id \in DOMAIN lookup' /\ lookup'[conn[list'[k]].id] = k
  <2>1. CASE k = n + 1
    BY <1>2, <1>3, <2>1
  <2>2. CASE k \in 1 .. n
    <3>1. list'[k] = list[k]
      BY <1>2, <2>2
    <3>2. /\ Established(list[k], conn)
          /\ conn[list[k]].id \in DOMAIN lookup /\ lookup[conn[list[k]].id] = k
      BY <2>2 DEF PlacesOK
    <3>3. conn[list[k]].id \in DOMAIN lookup' /\ lookup'[conn[list[k]].id] = k
      BY <1>3, <3>2
    <3>. QED
      BY <3>1, <3>2, <3>3
  <2>. QED
    BY <1>4, <2>1, <2>2
<1>8. PlacesOK(list', lookup', conn)
  BY <1>2, <1>3, <1>5, <1>6, <1>7 DEF PlacesOK
<1>9. InboundAt(list', conn) \subseteq InboundAt(list, conn) \union {n + 1}
  BY <1>2, <1>4 DEF InboundAt
<1>10. conn[c].out = TRUE => InboundAt(list', conn) = InboundAt(list, conn)
  BY <1>2, <1>4 DEF InboundAt
<1>. QED
  BY <1>8, <1>9, <1>10

(* PeerSet.Remove: the last of the list takes the place of the one that goes. *)
LEMMA RemovePlaces ==
  ASSUME PlacesOK(list, lookup, conn), NEW c, Remove(c)
  PROVE  /\ PlacesOK(list', lookup', conn)
         /\ Cardinality(InboundAt(list', conn)) <= Cardinality(InboundAt(list, conn))
<1> DEFINE n == Len(list)
           id == conn[c].id
           i == lookup[id]
           J == InboundAt(list, conn)
           M == InboundAt(list', conn)
<1>1. list \in Seq(Conns) /\ n \in Nat
  BY LenProperties DEF PlacesOK
<1>2. IsFiniteSet(J) /\ Cardinality(J) \in Nat
  BY InboundFinite
<1>3. CASE id \notin DOMAIN lookup
  <2>1. list' = list /\ lookup' = lookup
    BY <1>3 DEF Remove, peerSet
  <2>. QED
    BY SMTT(30), <1>2, <2>1
<1>4. CASE id \in DOMAIN lookup
  <2> DEFINE last == list[n]
             swap == [list EXCEPT ![i] = last]
             lid == conn[last].id
             moved == [lookup EXCEPT ![lid] = i]
  <2>1. i \in 1 .. n /\ conn[list[i]].id = id
    BY <1>4 DEF PlacesOK
  <2>2. n \in 1 .. n /\ n # 0 /\ n - 1 \in Nat /\ 1 .. n = (1 .. n - 1) \union {n} /\ n \notin 1 .. n - 1
    BY SMTT(30), <1>1, <2>1
  <2>3. last \in Conns /\ lid \in DOMAIN lookup /\ lookup[lid] = n
    BY <2>2 DEF PlacesOK, Established
  <2>4. /\ list' \in Seq(Conns) /\ Len(list') = n - 1
        /\ \A k \in 1 .. n - 1 : list'[k] = IF k = i THEN last ELSE list[k]
    <3>1. list' = SubSeq(swap, 1, n - 1)
      BY <1>4 DEF Remove
    <3> HIDE DEF last, i
    <3>2. swap \in Seq(Conns) /\ Len(swap) = n /\ \A k \in 1 .. n : swap[k] = IF k = i THEN last ELSE list[k]
      BY SMTT(30), <1>1, <2>1, <2>3
    <3> HIDE DEF swap
    <3>. QED
      BY SMTT(30), <1>1, <2>2, <3>1, <3>2
  <2>5. /\ DOMAIN lookup' = DOMAIN lookup \ {id} /\ lookup' = [x \in DOMAIN lookup' |-> lookup'[x]]
        /\ \A x \in DOMAIN lookup \ {id} : lookup'[x] = IF x = lid THEN i ELSE lookup[x]
    <3>1. lookup' = [x \in DOMAIN lookup \ {id} |-> moved[x]]
      BY <1>4 DEF Remove, Restrict
    <3>2. \A x \in DOMAIN lookup : moved[x] = IF x = lid THEN i ELSE lookup[x]
      BY DEF PlacesOK
    <3> HIDE DEF moved
    <3>. QED
      BY <3>1, <3>2
  <2>6. IsFiniteSet(DOMAIN lookup') /\ Cardinality(DOMAIN lookup') = n - 1
    <3>1. IsFiniteSet(DOMAIN lookup) /\ Cardinality(DOMAIN lookup) = n
      BY DEF PlacesOK
    <3>2. IsFiniteSet(DOMAIN lookup \ {id}) /\ Cardinality(DOMAIN lookup \ {id}) = Cardinality(DOMAIN lookup) - 1
      BY <1>4, <3>1, FS_RemoveElement
    <3>. QED
      BY <2>5, <3>1, <3>2
  <2> HIDE DEF n, id, i, last, swap, lid, moved
  <2>7. lid = id <=> i = n
    BY <2>1, <2>2, <2>3 DEF PlacesOK, lid, last, i, n, id
  <2>8. ASSUME NEW x \in DOMAIN lookup \ {id} PROVE lookup'[x] \in 1 .. n - 1 /\ conn[list'[lookup'[x]]].id = x
    <3>1. CASE x = lid
      <4>1. i \in 1 .. n - 1
        BY <2>1, <2>2, <2>7, <3>1
      <4>. QED
        BY <2>4, <2>5, <3>1, <4>1 DEF lid
    <3>2. CASE x # lid
      <4>1. lookup'[x] = lookup[x] /\ lookup[x] \in 1 .. n /\ conn[list[lookup[x]]].id = x
        BY <2>5, <3>2 DEF PlacesOK, n
      <4>2. lookup[x] # n /\ lookup[x] # i
        BY <2>1, <3>2, <4>1 DEF lid, last
      <4>3. lookup[x] \in 1 .. n - 1
        BY <2>2, <4>1, <4>2
      <4>. QED
        BY <2>4, <4>1, <4>2, <4>3
    <3>. QED
      BY <3>1, <3>2
  <2>9. ASSUME NEW k \in 1 .. n - 1
        PROVE  /\ Established(list'[k], conn)
               /\ conn[list'[k]].id \in DOMAIN lookup' /\ lookup'[conn[list'[k]].id] = k
    <3>0. k \in 1 .. n /\ k # n
      BY <2>2
    <3>1. CASE k = i
      <4>1. list'[k] = last /\ lid # id
        BY <2>4, <2>7, <3>0, <3>1
      <4>. QED
        BY <2>2, <2>3, <2>5, <3>1, <4>1 DEF PlacesOK, lid, last, n
    <3>2. CASE k # i
      <4>1. list'[k] = list[k] /\ Established(list[k], conn)
            /\ conn[list[k]].id \in DOMAIN lookup /\ lookup[conn[list[k]].id] = k
        BY <2>4, <3>0, <3>2 DEF PlacesOK, n
      <4>2. conn[list[k]].id # id /\ conn[list[k]].id # lid
        BY <2>3, <3>0, <3>2, <4>1 DEF i
      <4>. QED
        BY <2>5, <4>1, <4>2
    <3>. QED
      BY <3>1, <3>2
  <2>10. PlacesOK(list', lookup', conn)
    BY <2>4, <2>5, <2>6, <2>8, <2>9 DEF PlacesOK
  <2>11. Cardinality(M) <= Cardinality(J)
    <3>1. M = {k \in 1 .. n - 1 : ~conn[list'[k]].out} /\ J = {k \in 1 .. n : ~conn[list[k]].out}
      BY <2>4 DEF InboundAt, n
    <3>2. CASE conn[last].out
      <4>1. M \subseteq J
        BY <2>2, <2>4, <3>1, <3>2
      <4>. QED
        BY <1>2, <4>1, FS_Subset
    <3>3. CASE ~conn[last].out
      <4>1. M \subseteq (J \ {n}) \union {i} /\ n \in J
        BY <2>2, <2>4, <3>1, <3>3 DEF last
      <4>2. IsFiniteSet(J \ {n}) /\ Cardinality(J \ {n}) = Cardinality(J) - 1
        BY <1>2, <4>1, FS_RemoveElement
      <4>3. /\ IsFiniteSet((J \ {n}) \union {i})
            /\ (Cardinality((J \ {n}) \union {i}) = Cardinality(J \ {n})
                \/ Cardinality((J \ {n}) \union {i}) = Cardinality(J \ {n}) + 1)
        BY <4>2, FS_AddElement
      <4>4. Cardinality(M) <= Cardinality((J \ {n}) \union {i}) /\ Cardinality(M) \in Nat
        BY <4>1, <4>3, FS_Subset, FS_CardinalityType
      <4>. QED
        BY SMTT(30), <1>2, <4>2, <4>3, <4>4
    <3>. QED
      BY <3>2, <3>3
  <2>. QED
    BY <2>10, <2>11
<1>. QED
  BY <1>3, <1>4

(* What has to be shown of a step. *)
LEMMA Together ==
  ASSUME SwitchInv, ConnsOK', Further(conn', conn), DialersKept, PlacesOK(list', lookup', conn),
         InboundOK(list', accepting', conn) \/ InboundOK(list', accepting', conn'),
         \A s \in stops' : s \in stops \/ StopOK(s, conn'),
         \A a \in conns' : Held(a, conn', stops', closed')
  PROVE  SwitchInv'
<1>1. DialersOK'
  BY DialersStay DEF SwitchInv
<1>2. PlacesOK(list', lookup', conn')
  BY PlacesStay
<1>3. InboundOK(list', accepting', conn')
  BY InboundStays
<1>4. \A s \in stops' : StopOK(s, conn')
  BY StopStays DEF SwitchInv
<1>. QED
  BY <1>1, <1>2, <1>3, <1>4 DEF SwitchInv

\* A step about connection c, after which c is q.
About(c, q) ==
  /\ conn' = [conn EXCEPT ![c] = q] /\ ConnOK(q) /\ Onward(q, conn[c])
  /\ UNCHANGED <<stops, closed, list, lookup>>
  /\ \/ q.open = conn[c].open /\ conns' = conns
     \/ q.open = TRUE /\ conn[c].phase # "free" /\ conns' = conns \union {AddrIn(c, conn)}
     \/ conn[c].phase = "free" /\ conns' = conns
     \/ closed /\ conns' = conns
     \/ conns' = conns \ {AddrIn(c, conn)}

LEMMA OneConn ==
  ASSUME SwitchInv, NEW c \in Conns, NEW q, About(c, q), DialersKept,
         accepting' = accepting \/ InboundOK(list, accepting', conn')
  PROVE  SwitchInv'
<1>1. ConnsOK' /\ Further(conn', conn) /\ conn'[c] = q /\ \A d \in Conns \ {c} : conn'[d] = conn[d]
  BY FurtherOne DEF About, SwitchInv
<1>2. \A a \in conns' : Held(a, conn', stops', closed')
  BY <1>1, HeldOne DEF About, SwitchInv
<1>. QED
  BY <1>1, <1>2, Together DEF About, SwitchInv

LEMMA DialersRest == ASSUME SwitchInv, dialer' = dialer PROVE DialersKept
  BY DEF SwitchInv, DialersOK, DialersKept

(* One lemma per action. *)
LEMMA SArrive == ASSUME SwitchInv, NEW c \in Conns, NEW r, Arrive(c, r) PROVE SwitchInv'
<1>1. /\ UNCHANGED <<stops, closed, list, lookup, conns, dialer, accepting>> /\ conn[c] = Fresh
      /\ \/ conn' = [conn EXCEPT ![c] = Made("filtered", r.key, FALSE, FALSE)]
         \/ conn' = [conn EXCEPT ![c] = Closed(Made("rejected", r.key, FALSE, FALSE))]
  BY DEF Arrive, service, peerSet
<1>2. conn[c].phase = "free"
  BY SMTT(30), <1>1 DEF Fresh
<1> DEFINE m == Made("filtered", r.key, FALSE, FALSE)
           w == Made("rejected", r.key, FALSE, FALSE)
<1>3. IsConn(m) /\ m.phase = "filtered" /\ m.open = TRUE /\ m.started = FALSE
  <2>1. IsConn(m) /\ m.phase = "filtered" /\ m.started = FALSE
    BY SMTT(30) DEF IsConn, Made
  <2>2. m.open = TRUE
    BY DEF Made
  <2>. QED
    BY <2>1, <2>2
<1>4. IsConn(w) /\ w.phase = "rejected" /\ w.started = FALSE
  BY SMTT(30) DEF IsConn, Made
<1> HIDE DEF m, w
<1>5. SameEnds(Closed(w), w) /\ Closed(w).phase = "rejected" /\ Closed(w).started = FALSE
  BY <1>4, ClosedIs
<1>6. ConnOK(m) /\ ConnOK(Closed(w))
  BY <1>3, <1>5 DEF ConnOK, SameEnds
<1>7. About(c, m) \/ About(c, Closed(w))
  BY <1>1, <1>2, <1>6 DEF About, Onward, m, w
<1>. QED
  BY <1>1, <1>7, OneConn, DialersRest

LEMMA SSetConn == ASSUME SwitchInv, NEW c \in Conns, SetConn(c) PROVE SwitchInv'
<1> DEFINE q == In(conn[c], "upgrading")
<1>1. /\ UNCHANGED <<stops, closed, list, lookup, dialer, accepting>> /\ conn[c].phase = "filtered"
      /\ conn' = [conn EXCEPT ![c] = q] /\ conns' = conns \union {AddrIn(c, conn)}
  BY AddrSame DEF SetConn, service, peerSet
<1>2. ConnOK(conn[c]) /\ conn[c].open = TRUE
  BY <1>1 DEF SwitchInv, ConnsOK, ConnOK
<1>3. SameEnds(q, conn[c]) /\ q.phase = "upgrading" /\ q.open = TRUE /\ q.started = conn[c].started
  BY <1>2, InIs DEF ConnOK
<1> HIDE DEF q
<1>4. ConnOK(q) /\ Onward(q, conn[c])
  BY <1>1, <1>2, <1>3 DEF ConnOK, Onward, SameEnds, Up
<1>5. About(c, q)
  BY <1>1, <1>3, <1>4 DEF About
<1>. QED
  BY <1>1, <1>5, OneConn, DialersRest

(* upgrade lets in who authenticated as the id it gives, and the id that was dialed; never ourselves. *)
LEMMA UpgradeTells ==
  ASSUME NEW c, NEW r, Upgrade(c, r) = "peer"
  PROVE  r.key = r.id /\ r.id # Self /\ (conn[c].out => r.key = conn[c].id)
  BY DEF Upgrade

\* What becomes of a connection, by what it was.
LEMMA Ended ==
  ASSUME NEW r, ConnOK(r), r.phase # "free", NEW p, p \in {"rejected", "done"}, p = "done" \/ r.phase \notin Up
  PROVE  /\ ConnOK(In(Closed(r), p)) /\ Onward(In(Closed(r), p), r)
         /\ ConnOK(In(Stopped(r), p)) /\ Onward(In(Stopped(r), p), r)
         /\ ConnOK(In(r, p)) /\ Onward(In(r, p), r) /\ In(r, p).open = r.open
<1>1. ASSUME NEW x, SameEnds(x, r), x.started = r.started
      PROVE  ConnOK(In(x, p)) /\ Onward(In(x, p), r) /\ In(x, p).open = x.open
  <2> DEFINE q == In(x, p)
  <2>1. SameEnds(q, x) /\ q.phase = p /\ q.open = x.open /\ q.started = x.started
    BY <1>1, InIs DEF SameEnds
  <2> HIDE DEF q
  <2>. QED
    BY <1>1, <2>1 DEF ConnOK, Onward, SameEnds, Up, q
<1>2. IsConn(r) /\ SameEnds(r, r)
  BY DEF ConnOK, SameEnds
<1>. QED
  BY <1>1, <1>2, ClosedIs, StoppedIs

LEMMA SUpgradeAccepted ==
  ASSUME SwitchInv, NEW c \in Conns, NEW r, UpgradeAccepted(c, r) PROVE SwitchInv'
<1> DEFINE k == conn[c]
<1>1. /\ UNCHANGED <<stops, closed, list, lookup, dialer, accepting>> /\ k.phase = "upgrading"
      /\ r.key = k.id
  BY DEF UpgradeAccepted, service, peerSet
<1>2. ConnOK(k) /\ IsConn(k)
  BY DEF SwitchInv, ConnsOK, ConnOK
<1>3. CASE Upgrade(c, r) = "peer"
  <2> DEFINE q == In(k, "offered")
  <2>1. conn' = [conn EXCEPT ![c] = q] /\ conns' = conns
    BY <1>3 DEF UpgradeAccepted, Upgraded
  <2>2. k.id # Self
    BY <1>1, <1>3, UpgradeTells
  <2>3. SameEnds(q, k) /\ q.phase = "offered" /\ q.open = k.open /\ q.started = k.started
    BY <1>2, InIs
  <2> HIDE DEF q
  <2>4. ConnOK(q) /\ Onward(q, k)
    BY <1>1, <1>2, <2>2, <2>3 DEF ConnOK, Onward, SameEnds, Up
  <2>5. About(c, q)
    BY <1>1, <2>1, <2>3, <2>4 DEF About
  <2>. QED
    BY <1>1, <2>5, OneConn, DialersRest
<1>4. CASE Upgrade(c, r) # "peer"
  <2> DEFINE x == In(Closed(k), "rejected")
             y == [x EXCEPT !.self = TRUE]
  <2>1. conns' = conns \ {AddrIn(c, conn)} /\ (conn' = [conn EXCEPT ![c] = x] \/ conn' = [conn EXCEPT ![c] = y])
    BY <1>4, AddrSame DEF UpgradeAccepted, Upgraded
  <2>2. ConnOK(x) /\ Onward(x, k)
    BY <1>1, <1>2, Ended DEF Up
  <2>3. x.phase = "rejected"
    <3>1. IsConn(Closed(k))
      BY <1>2, ClosedIs DEF SameEnds
    <3> HIDE DEF k
    <3>. QED
      BY <3>1, InIs
  <2> HIDE DEF x
  <2>4. SameEnds(y, x) /\ y.phase = x.phase /\ y.started = x.started
    BY <2>2, FieldSet DEF ConnOK
  <2> HIDE DEF y
  <2>5. ConnOK(y) /\ Onward(y, k)
    BY <1>1, <2>2, <2>3, <2>4 DEF ConnOK, Onward, SameEnds
  <2>6. About(c, x) \/ About(c, y)
    BY <1>1, <2>1, <2>2, <2>5 DEF About
  <2>. QED
    BY <1>1, <2>6, OneConn, DialersRest
<1>. QED
  BY <1>3, <1>4

LEMMA SGiveUp == ASSUME SwitchInv, NEW c \in Conns, GiveUp(c) \/ AcceptError(c) PROVE SwitchInv'
<1> DEFINE k == conn[c]
<1>1. /\ UNCHANGED <<stops, closed, list, lookup, dialer, accepting, conns>>
      /\ k.phase \in {"offered", "rejected"}
      /\ \/ closed /\ conn' = [conn EXCEPT ![c] = In(Closed(k), "done")]
         \/ conn' = [conn EXCEPT ![c] = In(k, "done")]
  BY DEF GiveUp, AcceptError, service, peerSet
<1>2. ConnOK(k)
  BY DEF SwitchInv, ConnsOK
<1>3. About(c, In(Closed(k), "done")) \/ About(c, In(k, "done"))
  BY <1>1, <1>2, Ended DEF About
<1>. QED
  BY <1>1, <1>3, OneConn, DialersRest

\* The peer's Start, or not if the switch has stopped.
LEMMA StartIs ==
  ASSUME SwitchInv, NEW c \in Conns, StartPeer(c), conns' = conns, conn[c].phase \in {"offered", "upgrading"},
         UNCHANGED <<stops, closed, list, lookup>>
  PROVE  \E q : About(c, q) /\ q.phase \in Up /\ SameEnds(q, conn[c])
<1> DEFINE k == conn[c]
           x == In(k, "peer")
           y == [x EXCEPT !.started = TRUE]
<1>1. ConnOK(k)
  BY DEF SwitchInv, ConnsOK
<1>2. SameEnds(x, k) /\ x.phase = "peer" /\ x.open = k.open
  BY <1>1, InIs DEF ConnOK
<1>3. conn' = [conn EXCEPT ![c] = y] \/ conn' = [conn EXCEPT ![c] = In(k, "done")]
  BY DEF StartPeer
<1> HIDE DEF x
<1>4. SameEnds(y, x) /\ y.phase = x.phase /\ y.open = x.open
  <2>1. IsConn(x)
    BY <1>2 DEF SameEnds
  <2>. QED
    BY <2>1, FieldSet
<1> HIDE DEF y
<1>5. CASE conn' = [conn EXCEPT ![c] = y]
  <2>1. SameEnds(y, k) /\ y.phase = "peer" /\ y.open = k.open
    BY <1>2, <1>4 DEF SameEnds
  <2>2. ConnOK(y) /\ Onward(y, k)
    BY <1>1, <2>1 DEF ConnOK, Onward, SameEnds, Up
  <2>3. About(c, y)
    BY <1>5, <2>1, <2>2 DEF About
  <2>. QED
    BY <2>1, <2>3 DEF Up
<1>6. CASE conn' = [conn EXCEPT ![c] = In(k, "done")]
  <2> DEFINE z == In(k, "done")
  <2>1. ConnOK(z) /\ Onward(z, k) /\ z.open = k.open
    BY <1>1, Ended
  <2>2. z.phase = "done" /\ SameEnds(z, k)
    BY <1>1, InIs DEF ConnOK
  <2> HIDE DEF z
  <2>3. About(c, z)
    BY <1>6, <2>1 DEF About, z
  <2>. QED
    BY <2>2, <2>3 DEF Up
<1>. QED
  BY <1>3, <1>5, <1>6

\* Cleanup and Stop: the connection is done and its address free.
LEMMA DropIs ==
  ASSUME SwitchInv, NEW c \in Conns, Drop(c), conn[c].phase # "free",
         UNCHANGED <<stops, closed, list, lookup>>
  PROVE  About(c, In(Stopped(conn[c]), "done"))
<1>1. /\ conn' = [conn EXCEPT ![c] = In(Stopped(conn[c]), "done")]
      /\ conns' = conns \ {AddrIn(c, conn)}
  BY AddrSame DEF Drop, Cleanup
<1>2. ConnOK(conn[c])
  BY DEF SwitchInv, ConnsOK
<1>. QED
  BY <1>1, <1>2, Ended DEF About

LEMMA SAcceptPeer ==
  ASSUME SwitchInv, MaxNumInboundPeers \in Nat, NEW c \in Conns, NEW o, AcceptPeer(c, o) PROVE SwitchInv'
<1>1. UNCHANGED <<stops, closed, list, lookup, dialer>> /\ conn[c].phase = "offered" /\ DialersKept
  BY DialersRest DEF AcceptPeer, service, peerSet
<1>2. CASE Room /\ FilterPeer(c, o)
  <2>1. StartPeer(c) /\ conns' = conns /\ (accepting' = accepting \/ accepting' = [at |-> "add", conn |-> c])
    BY <1>2 DEF AcceptPeer
  <2>2. PICK q : About(c, q) /\ q.phase \in Up /\ SameEnds(q, conn[c])
    BY <1>1, <2>1, StartIs
  <2>3. ASSUME accepting' = [at |-> "add", conn |-> c] PROVE InboundOK(list, accepting', conn')
    <3>1. accepting'.at = "add" /\ accepting'.conn = c
      BY SMTT(30), <2>3
    <3>2. conn[c].id # Self
      BY <1>1 DEF SwitchInv, ConnsOK, ConnOK
    <3>3. Further(conn', conn) /\ conn'[c] = q
      BY <2>2, FurtherOne DEF SwitchInv, About
    <3>4. Established(c, conn')
      BY <2>2, <3>2, <3>3 DEF Established, SameEnds
    <3>5. InboundAt(list, conn') = InboundAt(list, conn)
      BY <3>3, PlacesStay DEF SwitchInv
    <3>6. Cardinality(InboundAt(list, conn)) < MaxNumInboundPeers
      <4>1. Inbound < MaxNumInboundPeers /\ Inbound = Cardinality({i \in DOMAIN list : ~conn[list[i]].out})
        BY <1>2 DEF Room, Inbound
      <4>2. DOMAIN list = 1 .. Len(list)
        BY LenProperties DEF SwitchInv, PlacesOK
      <4>. QED
        BY <4>1, <4>2 DEF InboundAt
    <3>7. Cardinality(InboundAt(list, conn)) <= MaxNumInboundPeers
      BY DEF SwitchInv, InboundOK
    <3>. QED
      BY <2>3, <3>1, <3>4, <3>5, <3>6, <3>7 DEF InboundOK
  <2>. QED
    BY <1>1, <2>1, <2>2, <2>3, OneConn
<1>3. CASE ~(Room /\ FilterPeer(c, o))
  <2>1. Drop(c) /\ accepting' = accepting
    BY <1>3 DEF AcceptPeer
  <2>. QED
    BY <1>1, <2>1, DropIs, OneConn
<1>. QED
  BY <1>2, <1>3

\* acceptRoutine between two peers, or at its end.
LEMMA Between ==
  ASSUME SwitchInv, NEW a \in {"accept", "ended", "reactors"}, NEW x, Further(conn', conn)
  PROVE  InboundOK(list, [at |-> a, conn |-> x], conn')
<1> DEFINE r == [at |-> a, conn |-> x]
<1>1. r = [at |-> r.at, conn |-> r.conn] /\ r.at # "add"
  BY SMTT(30)
<1> HIDE DEF r
<1>2. InboundOK(list, r, conn)
  BY <1>1 DEF SwitchInv, InboundOK
<1>3. InboundOK(list, r, conn')
  BY <1>2, InboundStays DEF SwitchInv
<1>. QED
  BY <1>3 DEF r

\* A step that leaves the connections, their addresses and the calls of StopPeerForError alone.
LEMMA Elsewhere ==
  ASSUME SwitchInv, UNCHANGED <<conn, conns, stops, closed>>, DialersKept,
         PlacesOK(list', lookup', conn), InboundOK(list', accepting', conn)
  PROVE  SwitchInv'
<1>1. ConnsOK' /\ Further(conn', conn)
  BY FurtherNone DEF SwitchInv, ConnsOK
<1>2. \A a \in conns' : Held(a, conn', stops', closed')
  BY DEF SwitchInv
<1>. QED
  BY <1>1, <1>2, Together

LEMMA SAcceptAdd == ASSUME SwitchInv, MaxNumInboundPeers \in Nat, AcceptAdd PROVE SwitchInv'
<1> DEFINE c == accepting.conn
           n == Len(list)
           J == InboundAt(list, conn)
           M == InboundAt(list', conn)
<1>1. /\ UNCHANGED <<stops, closed, dialer>> /\ accepting.at = "add" /\ DialersKept
      /\ accepting = [at |-> accepting.at, conn |-> accepting.conn]
  BY DialersRest DEF AcceptAdd, service, SwitchInv, InboundOK
<1>2. Established(c, conn) /\ Cardinality(J) < MaxNumInboundPeers
  BY <1>1 DEF SwitchInv, InboundOK
<1>3. CASE conn[c].id \in DOMAIN lookup
  <2>1. Drop(c) /\ UNCHANGED <<list, lookup>> /\ accepting' = [at |-> "accept", conn |-> NoId]
    BY <1>3 DEF AcceptAdd, peerSet
  <2> DEFINE q == In(Stopped(conn[c]), "done")
  <2>2. c \in Conns /\ conn[c].phase # "free"
    BY <1>2 DEF Established, Up
  <2>3. About(c, q)
    BY <1>1, <2>1, <2>2, DropIs
  <2> HIDE DEF q, c
  <2>4. Further(conn', conn)
    BY <2>2, <2>3, FurtherOne DEF SwitchInv, About
  <2>. QED
    BY <1>1, <2>1, <2>2, <2>3, <2>4, Between, OneConn
<1>4. CASE conn[c].id \notin DOMAIN lookup
  <2>1. Add(c) /\ UNCHANGED <<conns, conn>> /\ accepting' = [accepting EXCEPT !.at = "reactors"]
    BY <1>4 DEF AcceptAdd
  <2>2. PlacesOK(list', lookup', conn) /\ M \subseteq J \union {n + 1}
    BY <1>2, <1>4, <2>1, AddPlaces DEF SwitchInv
  <2>3. Cardinality(M) <= MaxNumInboundPeers
    <3>1. IsFiniteSet(J) /\ Cardinality(J) \in Nat
      BY InboundFinite DEF SwitchInv
    <3>2. /\ IsFiniteSet(J \union {n + 1})
          /\ (Cardinality(J \union {n + 1}) = Cardinality(J) \/ Cardinality(J \union {n + 1}) = Cardinality(J) + 1)
      BY <3>1, FS_AddElement
    <3>3. Cardinality(M) <= Cardinality(J \union {n + 1}) /\ Cardinality(M) \in Nat
      BY <2>2, <3>2, FS_Subset, FS_CardinalityType
    <3>. QED
      BY SMTT(30), <1>2, <3>1, <3>2, <3>3
  <2>4. accepting' = [at |-> accepting'.at, conn |-> accepting'.conn] /\ accepting'.at # "add"
    BY SMTT(30), <1>1, <2>1
  <2>5. InboundOK(list', accepting', conn)
    BY <2>3, <2>4 DEF InboundOK
  <2>. QED
    BY <1>1, <2>1, <2>2, <2>5, Elsewhere
<1>. QED
  BY <1>3, <1>4

LEMMA SAcceptOther == ASSUME SwitchInv, AcceptReactors \/ AcceptEnds PROVE SwitchInv'
<1>1. /\ UNCHANGED <<conn, conns, stops, closed, list, lookup, dialer>>
      /\ \/ accepting' = [at |-> "accept", conn |-> NoId]
         \/ accepting' = [at |-> "ended", conn |-> NoId]
  BY DEF AcceptReactors, AcceptEnds, service, peerSet
<1>2. Further(conn', conn)
  BY <1>1, FurtherNone DEF SwitchInv
<1>3. InboundOK(list', accepting', conn)
  BY <1>1, <1>2, Between
<1>. QED
  BY <1>1, <1>3, DialersRest, Elsewhere DEF SwitchInv

LEMMA SDialQuiet ==
  ASSUME SwitchInv, NEW d \in Dialers,
         DialPeersAsync(d) \/ ReconnectToPeer(d) \/ DialCheck(d) \/ DialReactors(d)
  PROVE  SwitchInv'
<1>1. UNCHANGED <<conn, conns, stops, closed, list, lookup, accepting>>
  BY DEF DialPeersAsync, ReconnectToPeer, DialCheck, DialReactors, service, peerSet
<1>2. \/ dialer' = [dialer EXCEPT ![d].at = "check"] \/ dialer' = [dialer EXCEPT ![d].at = "dial"]
      \/ dialer' = [dialer EXCEPT ![d] = Idle] \/ dialer' = [dialer EXCEPT ![d] = End(d)]
      \/ Return(d, "ok")
  BY DEF DialPeersAsync, ReconnectToPeer, DialCheck, DialReactors
<1>3. DialersOK /\ Quiet(Idle) /\ Quiet(End(d))
  BY EndsQuiet DEF SwitchInv
<1>4. DialersKept
  <2>0. "check" \notin {"upgrade", "add"} /\ "dial" \notin {"upgrade", "add"}
    OBVIOUS
  <2>1. ASSUME NEW a, a \notin {"upgrade", "add"}, dialer' = [dialer EXCEPT ![d].at = a] PROVE DialersKept
    BY <1>3, <2>1, DialerAt
  <2>2. CASE dialer' = [dialer EXCEPT ![d] = Idle] \/ dialer' = [dialer EXCEPT ![d] = End(d)]
    BY <1>3, <2>2, DialerSet
  <2>3. CASE Return(d, "ok")
    BY <1>3, <2>3, ReturnQuiet
  <2>. QED
    BY <1>2, <2>0, <2>1, <2>2, <2>3
<1>. QED
  BY <1>1, <1>4, Elsewhere DEF SwitchInv

LEMMA SDial == ASSUME SwitchInv, NEW d \in Dialers, Dial(d) PROVE SwitchInv'
<1>1. UNCHANGED <<conns, stops, closed, list, lookup, accepting>> /\ DialersOK
  BY DEF Dial, service, peerSet, SwitchInv
<1>2. CASE Return(d, "error") /\ UNCHANGED conn
  BY <1>1, <1>2, ReturnQuiet, Elsewhere DEF SwitchInv
<1>3. ASSUME NEW c \in Conns, conn[c] = Fresh,
             conn' = [conn EXCEPT ![c] = Made("filtered", d.id, TRUE, d.id \in Persistent)],
             dialer' = [dialer EXCEPT ![d] = [at |-> "upgrade", conn |-> c, tries |-> @.tries]]
      PROVE  SwitchInv'
  <2> DEFINE m == Made("filtered", d.id, TRUE, d.id \in Persistent)
             e == [at |-> "upgrade", conn |-> c, tries |-> dialer[d].tries]
  <2>1. conn[c].phase = "free"
    BY SMTT(30), <1>3 DEF Fresh
  <2>2. IsConn(m) /\ m.phase = "filtered" /\ m.started = FALSE
    BY SMTT(30) DEF IsConn, Made
  <2>3. m.open = TRUE /\ m.out = TRUE
    BY DEF Made
  <2>4. IsDialer(e) /\ e.at = "upgrade" /\ e.conn = c
    BY SMTT(30) DEF IsDialer
  <2>5. dialer' = [dialer EXCEPT ![d] = e] /\ conn' = [conn EXCEPT ![c] = m]
    BY <1>3
  <2> HIDE DEF m, e
  <2>6. ConnOK(m)
    BY <2>2, <2>3 DEF ConnOK
  <2>7. About(c, m)
    BY <1>1, <2>1, <2>5, <2>6 DEF About, Onward
  <2>8. conn'[c] = m
    BY <2>7, FurtherOne DEF SwitchInv, About
  <2>9. DialerOK(e, conn')
    BY <2>2, <2>3, <2>4, <2>8 DEF DialerOK
  <2>. QED
    BY <1>1, <2>5, <2>7, <2>9, DialerSet, OneConn
<1>. QED
  BY <1>2, <1>3 DEF Dial

LEMMA SDialUpgrade ==
  ASSUME SwitchInv, NEW d \in Dialers, NEW r, NEW o, DialUpgrade(d, r, o) PROVE SwitchInv'
<1> DEFINE c == dialer[d].conn
           k == conn[c]
           added == Upgrade(c, r) = "peer" /\ FilterPeer(c, o)
<1>1. UNCHANGED <<stops, closed, list, lookup, accepting>> /\ dialer[d].at = "upgrade" /\ k.phase = "upgrading"
  BY DEF DialUpgrade, service, peerSet
<1>2. c \in Conns /\ k.out = TRUE /\ IsDialer(dialer[d]) /\ DialersOK
  BY <1>1 DEF SwitchInv, DialersOK, DialerOK
<1>3. ConnOK(k)
  BY <1>2 DEF SwitchInv, ConnsOK
<1>4. \/ added /\ dialer' = [dialer EXCEPT ![d].at = "add"]
      \/ \E x : Return(d, x)
  BY DEF DialUpgrade
<1>5. CASE added
  <2>1. StartPeer(c) /\ conns' = conns
    BY <1>5 DEF DialUpgrade
  <2>2. PICK q : About(c, q) /\ q.phase \in Up /\ SameEnds(q, k)
    BY <1>1, <1>2, <2>1, StartIs
  <2>3. k.id # Self
    BY <1>2, <1>5, UpgradeTells
  <2>4. DialersKept
    <3>1. CASE dialer' = [dialer EXCEPT ![d].at = "add"]
      <4> DEFINE e == [dialer[d] EXCEPT !.at = "add"]
      <4>1. IsDialer(e) /\ e.at = "add" /\ e.conn = c
        BY SMTT(30), <1>2 DEF IsDialer
      <4>2. dialer' = [dialer EXCEPT ![d] = e]
        BY <3>1
      <4> HIDE DEF e, c
      <4>3. conn'[c] = q
        BY <1>2, <2>2, FurtherOne DEF SwitchInv, About
      <4>4. DialerOK(e, conn')
        BY <1>2, <2>2, <2>3, <4>1, <4>3 DEF DialerOK, Established, SameEnds
      <4>. QED
        BY <1>2, <4>2, <4>4, DialerSet
    <3>. QED
      BY <1>2, <1>4, <3>1, ReturnQuiet
  <2>. QED
    BY <1>1, <1>2, <2>2, <2>4, OneConn
<1>6. CASE ~added
  <2>1. DialersKept
    BY <1>2, <1>4, <1>6, ReturnQuiet
  <2>2. \/ Drop(c)
        \/ Upgrade(c, r) # "peer" /\ Upgraded(c, r) /\ conn' = [conn EXCEPT ![c] = In(Closed(k), "done")]
    BY <1>6 DEF DialUpgrade
  <2>3. CASE Drop(c)
    BY <1>1, <1>2, <2>1, <2>3, DropIs, OneConn
  <2>4. CASE /\ Upgrade(c, r) # "peer" /\ Upgraded(c, r)
             /\ conn' = [conn EXCEPT ![c] = In(Closed(k), "done")]
    <3>1. conns' = conns \ {AddrIn(c, conn)}
      BY <2>4, AddrSame DEF Upgraded
    <3>2. ConnOK(In(Closed(k), "done")) /\ Onward(In(Closed(k), "done"), k)
      BY <1>1, <1>3, Ended
    <3>3. About(c, In(Closed(k), "done"))
      BY <1>1, <2>4, <3>1, <3>2 DEF About
    <3>. QED
      BY <1>1, <1>2, <2>1, <3>3, OneConn
  <2>. QED
    BY <2>2, <2>3, <2>4
<1>. QED
  BY <1>5, <1>6

LEMMA SDialAdd == ASSUME SwitchInv, NEW d \in Dialers, DialAdd(d) PROVE SwitchInv'
<1> DEFINE c == dialer[d].conn
<1>1. UNCHANGED <<stops, closed, accepting>> /\ dialer[d].at = "add"
  BY DEF DialAdd, service
<1>2. Established(c, conn) /\ conn[c].out = TRUE /\ DialersOK
  BY <1>1 DEF SwitchInv, DialersOK, DialerOK
<1>3. CASE conn[c].id \in DOMAIN lookup
  <2>1. Drop(c) /\ Return(d, "refused") /\ UNCHANGED <<list, lookup>>
    BY <1>3 DEF DialAdd, peerSet
  <2>2. c \in Conns /\ conn[c].phase # "free"
    BY <1>2 DEF Established, Up
  <2>. QED
    BY <1>1, <1>2, <2>1, <2>2, ReturnQuiet, DropIs, OneConn
<1>4. CASE conn[c].id \notin DOMAIN lookup
  <2>1. Add(c) /\ UNCHANGED <<conns, conn>> /\ dialer' = [dialer EXCEPT ![d].at = "reactors"]
    BY <1>4 DEF DialAdd
  <2>2. PlacesOK(list', lookup', conn) /\ InboundAt(list', conn) = InboundAt(list, conn)
    BY <1>2, <1>4, <2>1, AddPlaces DEF SwitchInv
  <2>3. InboundOK(list', accepting', conn)
    BY <1>1, <2>2 DEF SwitchInv, InboundOK
  <2>. QED
    BY <1>1, <1>2, <2>1, <2>2, <2>3, DialerAt, Elsewhere
<1>. QED
  BY <1>3, <1>4

\* A call of StopPeerForError goes a step further.
LEMMA StepIs ==
  ASSUME NEW s, IsStop(s), NEW a
  PROVE  LET t == [s EXCEPT !.at = a] IN IsStop(t) /\ t.conn = s.conn /\ t.at = a
  BY SMTT(30) DEF IsStop

LEMMA SBegin == ASSUME SwitchInv, NEW c \in Conns, NEW w, Begin(c, w) PROVE SwitchInv'
<1> DEFINE k == conn[c]
           q == Closed(k)
           s == [who |-> w, conn |-> c, at |-> "remove"]
<1>1. /\ UNCHANGED <<closed, list, lookup, dialer, accepting, conns>>
      /\ k.started # FALSE /\ stops' = stops \union {s}
      /\ conn' = conn \/ conn' = [conn EXCEPT ![c] = q]
  BY DEF Begin, IsRunning, service, peerSet
<1>2. ConnOK(k) /\ k.phase \in Up
  BY <1>1 DEF SwitchInv, ConnsOK, ConnOK
<1>3. SameEnds(q, k) /\ q.phase = k.phase /\ q.started = k.started
  BY <1>2, ClosedIs DEF ConnOK
<1>4. IsStop(s) /\ s.conn = c /\ s.at = "remove"
  BY SMTT(30) DEF IsStop
<1> HIDE DEF q, s
<1>5. ConnOK(q) /\ Onward(q, k)
  BY <1>2, <1>3 DEF ConnOK, Onward, SameEnds, Up
<1>6. ConnsOK' /\ Further(conn', conn) /\ \A d \in Conns \ {c} : conn'[d] = conn[d]
  <2>1. CASE conn' = conn
    BY <2>1, FurtherNone DEF SwitchInv, ConnsOK
  <2>2. CASE conn' = [conn EXCEPT ![c] = q]
    BY <1>5, <2>2, FurtherOne DEF SwitchInv
  <2>. QED
    BY <1>1, <2>1, <2>2
<1>7. StopOK(s, conn)
  BY <1>2, <1>4 DEF StopOK
<1>8. \A t \in stops' : t \in stops \/ StopOK(t, conn')
  BY <1>1, <1>6, <1>7, StopStays
<1>9. ASSUME NEW a \in conns' PROVE Held(a, conn', stops', closed')
  <2>1. ASSUME NEW d \in Conns, Alive(d, conn, stops, closed) PROVE Alive(d, conn', stops', closed')
    <3>1. CASE d = c
      BY <1>1, <1>4, <3>1 DEF Alive
    <3>2. CASE d # c
      BY <1>1, <1>6, <2>1, <3>2 DEF Alive
    <3>. QED
      BY <3>1, <3>2
  <2>2. Held(a, conn, stops, closed)
    BY <1>1, <1>9 DEF SwitchInv
  <2>. QED
    BY <1>6, <2>1, <2>2, HeldStays
<1>10. DialersKept /\ InboundOK(list', accepting', conn) /\ PlacesOK(list', lookup', conn)
  BY <1>1, DialersRest DEF SwitchInv
<1>. QED
  BY <1>6, <1>8, <1>9, <1>10, Together

LEMMA SStopRemove ==
  ASSUME SwitchInv, MaxNumInboundPeers \in Nat, NEW s \in stops, StopRemove(s) PROVE SwitchInv'
<1> DEFINE t == [s EXCEPT !.at = "cleanup"]
<1>1. /\ UNCHANGED <<closed, dialer, accepting, conns, conn>>
      /\ stops' = (stops \ {s}) \union {t} /\ Remove(s.conn)
  BY DEF StopRemove, Step, service
<1>2. StopOK(s, conn) /\ IsStop(s)
  BY DEF SwitchInv, StopOK
<1>3. IsStop(t) /\ t.conn = s.conn /\ t.at = "cleanup"
  BY <1>2, StepIs
<1> HIDE DEF t
<1>4. /\ PlacesOK(list', lookup', conn)
      /\ Cardinality(InboundAt(list', conn)) <= Cardinality(InboundAt(list, conn))
  BY <1>1, RemovePlaces DEF SwitchInv
<1>5. InboundOK(list', accepting', conn)
  <2> DEFINE m == Cardinality(InboundAt(list, conn))
             l == Cardinality(InboundAt(list', conn))
  <2>1. InboundOK(list, accepting, conn) /\ m \in Nat /\ l \in Nat /\ l <= m
    BY <1>4, InboundFinite DEF SwitchInv
  <2>2. m <= MaxNumInboundPeers /\ (accepting.at = "add" => m < MaxNumInboundPeers)
    BY <2>1 DEF InboundOK
  <2> HIDE DEF m, l
  <2>3. l <= MaxNumInboundPeers /\ (accepting.at = "add" => l < MaxNumInboundPeers)
    BY SMTT(30), <2>1, <2>2
  <2>. QED
    BY <1>1, <2>1, <2>3 DEF InboundOK, l
<1>6. \A x \in stops' : x \in stops \/ StopOK(x, conn')
  BY <1>1, <1>2, <1>3 DEF StopOK
<1>7. ConnsOK' /\ Further(conn', conn)
  BY <1>1, FurtherNone DEF SwitchInv, ConnsOK
<1>8. ASSUME NEW a \in conns' PROVE Held(a, conn', stops', closed')
  <2>1. ASSUME NEW d \in Conns, Alive(d, conn, stops, closed) PROVE Alive(d, conn', stops', closed')
    BY <1>1, <1>3, <2>1 DEF Alive
  <2>2. Held(a, conn, stops, closed)
    BY <1>1, <1>8 DEF SwitchInv
  <2>. QED
    BY <1>7, <2>1, <2>2, HeldStays
<1>. QED
  BY <1>1, <1>4, <1>5, <1>6, <1>7, <1>8, DialersRest, Together

LEMMA SStopCleanup == ASSUME SwitchInv, NEW s \in stops, StopCleanup(s) PROVE SwitchInv'
<1> DEFINE t == [s EXCEPT !.at = "reactors"]
           c == s.conn
           q == Stopped(conn[c])
<1>1. /\ UNCHANGED <<closed, dialer, accepting, list, lookup>>
      /\ stops' = (stops \ {s}) \union {t} /\ conn' = [conn EXCEPT ![c] = q]
      /\ conns' = conns \ {AddrIn(c, conn)}
  BY AddrSame DEF StopCleanup, Cleanup, Step, service, peerSet
<1>2. StopOK(s, conn) /\ IsStop(s) /\ c \in Conns /\ conn[c].phase \in Up
  BY DEF SwitchInv, StopOK
<1>3. IsStop(t) /\ t.conn = c
  BY <1>2, StepIs
<1>4. ConnOK(conn[c])
  BY <1>2 DEF SwitchInv, ConnsOK
<1>5. SameEnds(q, conn[c]) /\ q.phase = conn[c].phase /\ q.started = conn[c].started
  BY <1>4, StoppedIs DEF ConnOK
<1> HIDE DEF t, q, c
<1>6. ConnOK(q) /\ Onward(q, conn[c])
  BY <1>2, <1>4, <1>5 DEF ConnOK, Onward, SameEnds, Up
<1>7. ConnsOK' /\ Further(conn', conn) /\ \A d \in Conns \ {c} : conn'[d] = conn[d]
  BY <1>1, <1>2, <1>6, FurtherOne DEF SwitchInv
<1>8. StopOK(t, conn)
  BY <1>2, <1>3 DEF StopOK
<1>9. \A x \in stops' : x \in stops \/ StopOK(x, conn')
  BY <1>1, <1>7, <1>8, StopStays
<1>10. ASSUME NEW a \in conns' PROVE Held(a, conn', stops', closed')
  <2>1. ASSUME NEW d \in Conns, AddrIn(d, conn) = a, Alive(d, conn, stops, closed)
        PROVE  Alive(d, conn', stops', closed')
    <3>1. d # c
      BY <1>1, <1>10, <2>1
    <3>. QED
      BY <1>1, <1>7, <2>1, <3>1 DEF Alive, c
  <2>2. Held(a, conn, stops, closed)
    BY <1>1, <1>10 DEF SwitchInv
  <2>. QED
    BY <1>7, <2>1, <2>2, HeldStays
<1>11. DialersKept /\ InboundOK(list', accepting', conn) /\ PlacesOK(list', lookup', conn)
  BY <1>1, DialersRest DEF SwitchInv
<1>. QED
  BY <1>7, <1>9, <1>10, <1>11, Together

LEMMA SStopReactors == ASSUME SwitchInv, NEW s \in stops, StopReactors(s) PROVE SwitchInv'
<1>1. /\ UNCHANGED <<closed, accepting, list, lookup, conns, conn>>
      /\ s.at = "reactors" /\ stops' = stops \ {s}
      /\ dialer' = Spawn(dialer, conn[s.conn].id, conn[s.conn].persistent)
  BY DEF StopReactors, service, peerSet
<1>2. DialersKept
  <2>1. dialer = [d \in Dialers |-> dialer[d]] /\ \A d \in Dialers : IsDialer(dialer[d])
    BY DEF SwitchInv, DialersOK, DialerOK
  <2> DEFINE i == conn[s.conn].id
             w == conn[s.conn].persistent
             E == Spawn(dialer, i, w)
  <2>2. E = [d \in Dialers |-> E[d]] /\ \A d \in Dialers : E[d] = dialer[d] \/ Quiet(E[d])
    BY <2>1, SpawnQuiet
  <2>3. dialer' = E
    BY <1>1
  <2> HIDE DEF E
  <2>. QED
    BY <2>2, <2>3 DEF DialersKept
<1>3. ConnsOK' /\ Further(conn', conn)
  BY <1>1, FurtherNone DEF SwitchInv, ConnsOK
<1>4. ASSUME NEW a \in conns' PROVE Held(a, conn', stops', closed')
  <2>1. ASSUME NEW d \in Conns, Alive(d, conn, stops, closed) PROVE Alive(d, conn', stops', closed')
    BY <1>1, <2>1 DEF Alive
  <2>2. Held(a, conn, stops, closed)
    BY <1>1, <1>4 DEF SwitchInv
  <2>. QED
    BY <1>3, <2>1, <2>2, HeldStays
<1>5. InboundOK(list', accepting', conn) /\ PlacesOK(list', lookup', conn)
  BY <1>1 DEF SwitchInv
<1>. QED
  BY <1>1, <1>2, <1>3, <1>4, <1>5, Together

LEMMA NoPlaces ==
  ASSUME NEW K PROVE PlacesOK(<<>>, <<>>, K) /\ InboundAt(<<>>, K) = {} /\ Cardinality(InboundAt(<<>>, K)) = 0
<1>1. <<>> \in Seq(Conns) /\ Len(<<>>) = 0 /\ DOMAIN <<>> = {} /\ 1 .. 0 = {}
  BY SMTT(30)
<1>2. IsFiniteSet({}) /\ Cardinality({}) = 0
  BY FS_EmptySet
<1>3. <<>> = [i \in DOMAIN <<>> |-> <<>>[i]]
  BY SMTT(30), <1>1
<1>4. PlacesOK(<<>>, <<>>, K)
  BY <1>1, <1>2, <1>3 DEF PlacesOK
<1>5. InboundAt(<<>>, K) = {}
  BY <1>1 DEF InboundAt
<1>. QED
  BY <1>2, <1>4, <1>5

LEMMA SOnStop == ASSUME SwitchInv, MaxNumInboundPeers \in Nat, OnStop PROVE SwitchInv'
<1> DEFINE gone == Range(list)
<1>1. /\ UNCHANGED <<dialer, accepting, stops>> /\ closed' = TRUE /\ list' = <<>> /\ lookup' = <<>>
      /\ conn' = [c \in Conns |-> IF c \in gone THEN Stopped(conn[c]) ELSE conn[c]]
      /\ conns' \subseteq conns
  BY DEF OnStop
<1> HIDE DEF gone
<1>2. ASSUME NEW c \in gone PROVE conn[c].phase \in Up
  <2>1. PICK k \in DOMAIN list : c = list[k]
    BY <1>2 DEF gone, Range
  <2>2. DOMAIN list = 1 .. Len(list)
    BY LenProperties DEF SwitchInv, PlacesOK
  <2>. QED
    BY <2>1, <2>2 DEF SwitchInv, PlacesOK, Established
<1>3. ASSUME NEW c \in Conns PROVE ConnOK(conn'[c]) /\ Onward(conn'[c], conn[c])
  <2>1. ConnOK(conn[c])
    BY DEF SwitchInv, ConnsOK
  <2>2. CASE c \in gone
    <3> DEFINE q == Stopped(conn[c])
    <3>1. conn'[c] = q
      BY <1>1, <2>2
    <3>2. SameEnds(q, conn[c]) /\ q.phase = conn[c].phase /\ q.started = conn[c].started
      BY <2>1, StoppedIs DEF ConnOK
    <3>3. conn[c].phase \in Up
      BY <1>2, <2>2
    <3> HIDE DEF q
    <3>. QED
      BY <2>1, <3>1, <3>2, <3>3 DEF ConnOK, Onward, SameEnds, Up
  <2>3. CASE c \notin gone
    <3>1. conn'[c] = conn[c]
      BY <1>1, <2>3
    <3>. QED
      BY <2>1, <3>1 DEF ConnOK, Onward, SameEnds
  <2>. QED
    BY <2>2, <2>3
<1>4. ConnsOK' /\ Further(conn', conn)
  <2>1. conn' = [c \in Conns |-> conn'[c]]
    BY <1>1
  <2>. QED
    BY <1>3, <2>1 DEF ConnsOK, Further
<1>5. \A a \in conns' : Held(a, conn', stops', closed')
  <2>1. ASSUME NEW c \in Conns PROVE Alive(c, conn', stops', closed')
    BY <1>1 DEF Alive
  <2> SUFFICES ASSUME NEW a \in conns' PROVE Held(a, conn', stops', closed')
    OBVIOUS
  <2>2. Held(a, conn, stops, closed)
    BY <1>1 DEF SwitchInv
  <2>. QED
    BY <1>4, <2>1, <2>2, HeldStays
<1>6. PlacesOK(list', lookup', conn)
  BY <1>1, NoPlaces
<1>7. InboundOK(list', accepting', conn)
  <2> DEFINE m == Cardinality(InboundAt(list, conn))
  <2>1. InboundOK(list, accepting, conn) /\ m \in Nat
    BY InboundFinite DEF SwitchInv
  <2>2. m <= MaxNumInboundPeers /\ (accepting.at = "add" => m < MaxNumInboundPeers)
    BY <2>1 DEF InboundOK
  <2>3. Cardinality(InboundAt(list', conn)) = 0
    BY <1>1, NoPlaces
  <2> HIDE DEF m
  <2>4. 0 <= MaxNumInboundPeers /\ (accepting.at = "add" => 0 < MaxNumInboundPeers)
    BY SMTT(30), <2>1, <2>2
  <2>. QED
    BY <1>1, <2>1, <2>3, <2>4 DEF InboundOK
<1>. QED
  BY <1>1, <1>4, <1>5, <1>6, <1>7, DialersRest, Together

LEMMA SwitchStarts == ASSUME MaxNumInboundPeers \in Nat, Init PROVE SwitchInv
<1>1. /\ conn = [c \in Conns |-> Fresh] /\ dialer = [d \in Dialers |-> Idle]
      /\ accepting = [at |-> "accept", conn |-> NoId] /\ list = <<>> /\ lookup = <<>>
      /\ stops = {} /\ conns = {}
  BY DEF Init
<1>2. ConnOK(Fresh)
  <2>1. IsConn(Fresh) /\ Fresh.phase = "free" /\ Fresh.started = FALSE
    BY SMTT(30) DEF IsConn, Fresh
  <2>. QED
    BY <2>1 DEF ConnOK
<1>3. ConnsOK
  BY <1>1, <1>2 DEF ConnsOK
<1>4. DialersOK
  BY <1>1, EndsQuiet, QuietOK DEF DialersOK
<1>5. PlacesOK(list, lookup, conn) /\ Cardinality(InboundAt(list, conn)) = 0
  BY <1>1, NoPlaces
<1>6. accepting = [at |-> accepting.at, conn |-> accepting.conn] /\ accepting.at # "add" /\ 0 <= MaxNumInboundPeers
  BY SMTT(30), <1>1
<1>7. InboundOK(list, accepting, conn)
  BY <1>5, <1>6 DEF InboundOK
<1>. QED
  BY <1>1, <1>3, <1>4, <1>5, <1>7 DEF SwitchInv

LEMMA SwitchMoves == ASSUME MaxNumInboundPeers \in Nat, SwitchInv, [Next]_vars PROVE SwitchInv'
<1>1. CASE UNCHANGED vars
  <2>1. UNCHANGED <<conn, conns, stops, closed, list, lookup, accepting, dialer>>
    BY <1>1 DEF vars
  <2>. QED
    BY <2>1, DialersRest, Elsewhere DEF SwitchInv
<1>2. ASSUME NEW c \in Conns,
             \/ \E r \in Remotes : Arrive(c, r) \/ UpgradeAccepted(c, r)
             \/ SetConn(c) \/ GiveUp(c) \/ AcceptError(c)
             \/ \E o \in BOOLEAN : AcceptPeer(c, o)
             \/ \E w \in {"mconn", "reactor"} : Begin(c, w)
      PROVE  SwitchInv'
  BY <1>2, SArrive, SUpgradeAccepted, SSetConn, SGiveUp, SAcceptPeer, SBegin
<1>3. CASE AcceptAdd \/ AcceptReactors \/ AcceptEnds
  BY <1>3, SAcceptAdd, SAcceptOther
<1>4. ASSUME NEW d \in Dialers,
             \/ DialPeersAsync(d) \/ ReconnectToPeer(d) \/ DialCheck(d) \/ Dial(d)
             \/ \E r \in Remotes, o \in BOOLEAN : DialUpgrade(d, r, o)
             \/ DialAdd(d) \/ DialReactors(d)
      PROVE  SwitchInv'
  BY <1>4, SDialQuiet, SDial, SDialUpgrade, SDialAdd
<1>5. ASSUME NEW s \in stops, StopRemove(s) \/ StopCleanup(s) \/ StopReactors(s)
      PROVE  SwitchInv'
  BY <1>5, SStopRemove, SStopCleanup, SStopReactors
<1>6. CASE OnStop
  BY <1>6, SOnStop
<1>. QED
  BY <1>1, <1>2, <1>3, <1>4, <1>5, <1>6 DEF Next

LEMMA AdmittedFrom == ASSUME SwitchInv PROVE PeersAdmitted
<1>1. DOMAIN list = 1 .. Len(list)
  BY LenProperties DEF SwitchInv, PlacesOK
<1>2. Len(list) = Cardinality(DOMAIN lookup)
  BY DEF SwitchInv, PlacesOK
<1>3. Inbound = Cardinality(InboundAt(list, conn))
  BY <1>1 DEF Inbound, InboundAt
<1>4. Cardinality(InboundAt(list, conn)) <= MaxNumInboundPeers
  BY DEF SwitchInv, InboundOK
<1>5. ASSUME NEW i \in DOMAIN lookup
      PROVE  lookup[i] \in DOMAIN list /\ conn[list[lookup[i]]].id = i /\ i # Self
  BY <1>1 DEF SwitchInv, PlacesOK, Established
<1>. QED
  BY <1>2, <1>3, <1>4, <1>5 DEF PeersAdmitted

LEMMA ReleasedFrom == ASSUME SwitchInv PROVE AddressesReleased
<1>1. ASSUME NEW a \in conns
      PROVE  \E c \in Conns : /\ conn[c] # Fresh /\ Addr(c) = a
                              /\ \/ conn[c].open \/ closed
                                 \/ \E s \in stops : s.conn = c /\ s.at \in {"remove", "cleanup"}
  <2>1. PICK c \in Conns : conn[c].phase # "free" /\ AddrIn(c, conn) = a /\ Alive(c, conn, stops, closed)
    BY DEF SwitchInv, Held
  <2>2. Fresh.phase = "free"
    BY SMTT(30) DEF Fresh
  <2>. QED
    BY <2>1, <2>2, AddrSame DEF Alive
<1>. QED
  BY <1>1 DEF AddressesReleased

(* The number of inbound peers is configured as a number (config.P2PConfig). *)
SwitchAssumption == MaxNumInboundPeers \in Nat

(* Whatever the acceptor, the dialers, the reconnect loops, the failing connections and  *)
(* the stop of the switch do between each other's steps, the peer set's map and list     *)
(* agree place by place, hold only peers that authenticated as their ids, never our own  *)
(* node, and never more inbound ones than configured (PeerSet, addPeer, upgrade).        *)
THEOREM SetHeldTogether == SwitchAssumption => (Spec => []PeersAdmitted)
<1> SUFFICES ASSUME SwitchAssumption PROVE Spec => []PeersAdmitted
  OBVIOUS
<1>1. Init => SwitchInv
  BY SwitchStarts DEF SwitchAssumption
<1>2. SwitchInv /\ [Next]_vars => SwitchInv'
  BY SwitchMoves DEF SwitchAssumption
<1>3. SwitchInv => PeersAdmitted
  BY AdmittedFrom
<1>. QED
  BY <1>1, <1>2, <1>3, PTL DEF Spec

(* filterConn turns nobody away because of a connection that is gone: an address in the  *)
(* connection set is that of an open connection, or of one whose stop is still going to  *)
(* release it (conns.Set, Cleanup, upgrade's error path), until the transport is closed. *)
THEOREM AddressesFreed == SwitchAssumption => (Spec => []AddressesReleased)
<1> SUFFICES ASSUME SwitchAssumption PROVE Spec => []AddressesReleased
  OBVIOUS
<1>1. Init => SwitchInv
  BY SwitchStarts DEF SwitchAssumption
<1>2. SwitchInv /\ [Next]_vars => SwitchInv'
  BY SwitchMoves DEF SwitchAssumption
<1>3. SwitchInv => AddressesReleased
  BY ReleasedFrom
<1>. QED
  BY <1>1, <1>2, <1>3, PTL DEF Spec

=============================================================================
