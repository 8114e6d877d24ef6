------------------------------ MODULE EventBus ------------------------------
(***************************************************************************)
(* The event bus: the publish-subscribe server of libs/pubsub, whose loop  *)
(* takes one command at a time over an unbuffered channel; the consensus   *)
(* thread that fires the events of each block; the transaction indexer's   *)
(* service, which reads them; and the websocket connections of             *)
(* rpc/lib/server, each with a reader that serves subscribe and            *)
(* unsubscribe requests and a writer whose failure stops the connection.   *)
(***************************************************************************)
EXTENDS PubsubQuery, FiniteSets, SequencesExt

CONSTANTS Blocks,        \* sequence of [tags, txs, updates]: tags of Begin/EndBlock, of each tx
          Conns,         \* websocket connections: their remote addresses
          Asked,         \* the queries they subscribe to
          MaxRequests,   \* bound: requests read from a connection
          OutCapacity,   \* capacity of Subscription.out (1)
          MaxSubscriptionClients, MaxSubscriptionsPerClient,
          MayStop,       \* the node may be stopped
          None

VARIABLES maps,          \* Server.subscriptions: client -> [cur, of]; of: its inner maps, cur: the one in use
          subs, refs,    \* the loop's state: {[q, c, s]}, and query -> refCount
          objs,          \* the Subscriptions made: [c, q, cap, out, err, from, got]
          sending,       \* the message the loop is handing out, [event, todo], or None
          events, fired, \* the events of the blocks, and how many of them the loop has taken
          reader,        \* connection -> its readRoutine, [at, q, map, left]
          closer,        \* connection -> where the stop of the connection is
          idx,           \* the indexer: [height, want, batch]
          indexed,       \* the batches added to the index
          bus            \* "running", "stopping" (shutdown is sent), "stopped" (quit is closed)

vars == <<maps, subs, refs, objs, sending, events, fired, reader, closer, idx, indexed,
          bus>>
server == <<subs, refs, objs, sending, fired>>
indexer == <<idx, indexed>>

Indexer == "TxIndexer"
Clients == Conns \cup {Indexer}

-----------------------------------------------------------------------------
(* Events and their tags. *)

\* validateAndStringifyTags: tags with an empty key are skipped, a later tag wins.
ValidateAndStringifyTags(tags) ==
  LET keys == {tags[i][1] : i \in DOMAIN tags} \ {""}
      last(k) == CHOOSE i \in DOMAIN tags :
                   tags[i][1] = k /\ \A j \in DOMAIN tags : tags[j][1] = k => j <= i
  IN [k \in keys |-> tags[last(k)][2]]

With(tags, key, value) ==
  [k \in DOMAIN tags \cup {key} |-> IF k = key THEN value ELSE tags[k]]

\* "%X" of a transaction's hash.
Hash(h, i) == ToString(<<h, i>>)

\* The tags of the application win over the predefined ones.
PublishEventTx_KeepsTags(h, i) ==
  LET app == ValidateAndStringifyTags(Blocks[h].txs[i])
      own == [k \in {"tm.event", "tx.hash", "tx.height"} |->
                CASE k = "tm.event" -> "Tx" [] k = "tx.hash" -> Hash(h, i) [] OTHER -> Decimal(h)]
  IN [height |-> h, index |-> i,
      tags |-> [k \in DOMAIN app \cup DOMAIN own |-> IF k \in DOMAIN app THEN app[k] ELSE own[k]]]

PublishEventTx(h, i) ==
  [height |-> h, index |-> i,
   tags |-> With(With(With(ValidateAndStringifyTags(Blocks[h].txs[i]),
                           "tm.event", "Tx"), "tx.hash", Hash(h, i)), "tx.height", Decimal(h))]

\* PublishEventNewBlock and PublishEventNewBlockHeader
PublishEventBlock(h, type) ==
  [height |-> h, index |-> 0, tags |-> With(ValidateAndStringifyTags(Blocks[h].tags), "tm.event", type)]

Publish(h, type) == [height |-> h, index |-> 0, tags |-> With(<<>>, "tm.event", type)]

FireEvents(h) ==
  <<PublishEventBlock(h, "NewBlock"), PublishEventBlock(h, "NewBlockHeader")>>
  \o [i \in DOMAIN Blocks[h].txs |-> PublishEventTx(h, i)]
  \o (IF Blocks[h].updates THEN <<Publish(h, "ValidatorSetUpdates")>> ELSE <<>>)

Events == FlattenSeq([h \in DOMAIN Blocks |-> FireEvents(h)])

QueryForEvent(type) == <<Condition("tm.event", "=", type)>>
Queries == Asked \cup {QueryForEvent("NewBlockHeader"), QueryForEvent("Tx")}

-----------------------------------------------------------------------------
(* The loop's state and what its commands do to it. *)

Subscription(c, q, cap) ==
  [c |-> c, q |-> q, cap |-> cap, out |-> <<>>, err |-> None, from |-> fired, got |-> <<>>]

\* A query that is known already is not counted again.
Add_Once(c, q, s) ==
  /\ subs' = {e \in subs : ~(e.q = q /\ e.c = c)} \cup {[q |-> q, c |-> c, s |-> s]}
  /\ refs' = [refs EXCEPT ![q] = 1]

Add(c, q, s) ==
  /\ subs' = {e \in subs : ~(e.q = q /\ e.c = c)} \cup {[q |-> q, c |-> c, s |-> s]}
  /\ refs' = [refs EXCEPT ![q] = @ + 1]

\* remove, of each of a set of entries: cancel the subscription and count its query down.
Removed(gone, reason) ==
  /\ subs' = subs \ gone
  /\ refs' = [q \in Queries |-> refs[q] - Cardinality({e \in gone : e.q = q})]
  /\ objs' = [s \in DOMAIN objs |-> IF \E e \in gone : e.s = s THEN [objs[s] EXCEPT !.err = reason]
                                    ELSE objs[s]]

\* The loop waits for a command.
Idle == sending = None /\ bus = "running"

-----------------------------------------------------------------------------
(* A connection's reader: one request after the other. *)

Ready(c) == reader[c].at = "read" /\ reader[c].left > 0 /\ closer[c] # "closed"
Goes(c, at) == reader' = [reader EXCEPT ![c].at = at]
Returns(c) == reader' = [reader EXCEPT ![c].at = "read", ![c].q = <<>>, ![c].map = 0]
Known(c) == IF maps[c].cur = 0 THEN {} ELSE maps[c].of[maps[c].cur]
NumClients == Cardinality({c \in Clients : maps[c].cur # 0})

\* rpc Subscribe, and subscribe up to its command.
Subscribe(c, q) ==
  /\ Ready(c)
  /\ reader' = [reader EXCEPT ![c] =
       IF \/ NumClients >= MaxSubscriptionClients
          \/ Cardinality(Known(c)) >= MaxSubscriptionsPerClient
          \/ q \in Known(c)
       THEN [@ EXCEPT !.left = @ - 1]
       ELSE [@ EXCEPT !.left = @ - 1, !.q = q, !.at = "subscribe"]]
  /\ UNCHANGED <<maps, server, closer, indexer, bus>>

SubscribeSent(c) ==
  LET q == reader[c].q IN
  /\ reader[c].at = "subscribe" /\ Idle
  /\ objs' = Append(objs, Subscription(c, q, OutCapacity))
  /\ Add(c, q, Len(objs'))
  /\ Goes(c, "subscribed")
  /\ UNCHANGED <<maps, sending, fired, closer, indexer, bus>>

\* The context is done, by SubscribeTimeout or because the connection is closed; or the server
\* has quit, and the caller gets neither a subscription nor an error.
SubscribeFails(c) ==
  /\ reader[c].at = "subscribe"
  /\ \/ Returns(c)
     \/ bus = "stopped" /\ Goes(c, "nil")
  /\ UNCHANGED <<maps, server, closer, indexer, bus>>

SubscribeNoted(c) ==
  LET m == maps[c] IN
  /\ reader[c].at = "subscribed" /\ Returns(c)
  /\ maps' = [maps EXCEPT ![c] =
       IF m.cur = 0 THEN [cur |-> Len(m.of) + 1, of |-> Append(m.of, {reader[c].q})]
       ELSE [m EXCEPT !.of[m.cur] = @ \cup {reader[c].q}]]
  /\ UNCHANGED <<server, closer, indexer, bus>>

\* Unsubscribe looks the inner map up and keeps it over the command.
Unsubscribe(c, q) ==
  /\ Ready(c)
  /\ reader' = [reader EXCEPT ![c] =
       IF q \notin Known(c) THEN [@ EXCEPT !.left = @ - 1]
       ELSE [@ EXCEPT !.left = @ - 1, !.q = q, !.map = maps[c].cur, !.at = "unsubscribe"]]
  /\ UNCHANGED <<maps, server, closer, indexer, bus>>

UnsubscribeSent(c) ==
  /\ reader[c].at = "unsubscribe"
  /\ \/ /\ Idle /\ Goes(c, "unsubscribed")
        /\ Removed({e \in subs : e.c = c /\ e.q = reader[c].q}, "unsubscribed")
     \/ bus = "stopped" /\ Returns(c) /\ UNCHANGED <<subs, refs, objs>>
  /\ UNCHANGED <<maps, sending, fired, closer, indexer, bus>>

UnsubscribeNoted(c) ==
  LET left == maps[c].of[reader[c].map] \ {reader[c].q} IN
  /\ reader[c].at = "unsubscribed" /\ Returns(c)
  /\ maps' = [maps EXCEPT ![c].of[reader[c].map] = left,
                          ![c].cur = IF left = {} THEN 0 ELSE @]
  /\ UNCHANGED <<server, closer, indexer, bus>>

\* The goroutine that rpc Subscribe leaves behind takes a message.
Consume(s) ==
  /\ objs[s].c # Indexer /\ objs[s].out # <<>>
  /\ objs' = [objs EXCEPT ![s].out = Tail(@), ![s].got = Append(@, Head(objs[s].out))]
  /\ UNCHANGED <<maps, subs, refs, sending, fired, reader, closer, indexer, bus>>

-----------------------------------------------------------------------------
(* The end of a connection: Stop, by the reader or by the writer, and UnsubscribeAll. *)

\* The reader fails to read, or the writer to write, whatever the reader is doing.
StopConn(c) ==
  /\ closer[c] = "open"
  /\ \E by \in {"reader", "writer"} :
       /\ by = "reader" => reader[c].at = "read"
       /\ closer' = [closer EXCEPT ![c] = IF maps[c].cur = 0 THEN "closed" ELSE "all"]
       /\ reader' = IF by = "reader" THEN [reader EXCEPT ![c].left = 0] ELSE reader
  /\ UNCHANGED <<maps, server, indexer, bus>>

UnsubscribeAllSent(c) ==
  /\ closer[c] = "all"
  /\ \/ /\ Idle /\ closer' = [closer EXCEPT ![c] = "note"]
        /\ Removed({e \in subs : e.c = c}, "unsubscribed")
     \/ bus = "stopped" /\ closer' = [closer EXCEPT ![c] = "closed"] /\ UNCHANGED <<subs, refs, objs>>
  /\ UNCHANGED <<maps, sending, fired, reader, indexer, bus>>

UnsubscribeAllNoted(c) ==
  /\ closer[c] = "note" /\ closer' = [closer EXCEPT ![c] = "closed"]
  /\ maps' = [maps EXCEPT ![c].cur = 0]
  /\ UNCHANGED <<server, reader, indexer, bus>>

-----------------------------------------------------------------------------
(* Publishing: fireEvents hands one event after the other to the loop, and send hands it on. *)

PublishWithTags ==
  /\ Idle /\ fired < Len(events) /\ fired' = fired + 1
  /\ sending' = [event |-> fired + 1, todo |-> {e \in subs : Matches(e.q, events[fired + 1].tags)}]
  /\ UNCHANGED <<maps, subs, refs, objs, reader, closer, indexer, bus>>

\* The indexer waits for a header, or for the next transaction of the block.
Listens(q) == q = QueryForEvent(IF idx = None THEN "NewBlockHeader" ELSE "Tx")
              /\ (idx # None => idx.want > 0)

IndexerReceives(e) ==
  LET ev == events[e] IN
  idx' = IF idx = None
         THEN [height |-> ev.height, want |-> Len(Blocks[ev.height].txs), batch |-> {}]
         ELSE [idx EXCEPT !.want = @ - 1, !.batch = @ \cup {<<ev.height, ev.index>>}]

\* A full subscription loses the message and stays.
Send_Drops(e) ==
  /\ sending # None /\ e \in sending.todo
  /\ sending' = [sending EXCEPT !.todo = @ \ {e}]
  /\ \/ /\ objs[e.s].cap = 0 /\ Listens(e.q) /\ IndexerReceives(sending.event)
        /\ UNCHANGED <<subs, refs, objs>>
     \/ /\ objs[e.s].cap > 0 /\ UNCHANGED <<idx, subs, refs>>
        /\ objs' = [objs EXCEPT ![e.s].out =
             IF Len(@) < objs[e.s].cap THEN Append(@, sending.event) ELSE @]
  /\ UNCHANGED <<maps, fired, reader, closer, indexed, bus>>

\* send, to one of the subscribers: an unbuffered one is waited for, a full one is removed.
Send(e) ==
  /\ sending # None /\ e \in sending.todo
  /\ sending' = [sending EXCEPT !.todo = @ \ {e}]
  /\ \/ /\ objs[e.s].cap = 0 /\ Listens(e.q) /\ IndexerReceives(sending.event)
        /\ UNCHANGED <<subs, refs, objs>>
     \/ /\ objs[e.s].cap > 0 /\ Len(objs[e.s].out) < objs[e.s].cap
        /\ objs' = [objs EXCEPT ![e.s].out = Append(@, sending.event)]
        /\ UNCHANGED <<idx, subs, refs>>
     \/ /\ objs[e.s].cap > 0 /\ Len(objs[e.s].out) = objs[e.s].cap
        /\ Removed({e}, "out of capacity") /\ UNCHANGED idx
  /\ UNCHANGED <<maps, fired, reader, closer, indexed, bus>>

SendDone ==
  /\ sending # None /\ sending.todo = {} /\ sending' = None
  /\ UNCHANGED <<maps, subs, refs, objs, fired, reader, closer, indexer, bus>>

AddBatch ==
  /\ idx # None /\ idx.want = 0
  /\ indexed' = Append(indexed, idx.batch) /\ idx' = None
  /\ UNCHANGED <<maps, server, reader, closer, bus>>

\* OnStop: the loop takes the shutdown command and ends; then Stop closes the quit channel.
Shutdown ==
  /\ MayStop /\ Idle /\ bus' = "stopping"
  /\ Removed(subs, "none")
  /\ UNCHANGED <<maps, sending, fired, reader, closer, indexer>>
Quit ==
  /\ bus = "stopping" /\ bus' = "stopped"
  /\ UNCHANGED <<maps, server, reader, closer, indexer>>

-----------------------------------------------------------------------------
\* OnStart of the indexer's service has subscribed, before anything else starts.
Init ==
  LET own == <<QueryForEvent("NewBlockHeader"), QueryForEvent("Tx")>> IN
  /\ maps = [c \in Clients |-> IF c = Indexer THEN [cur |-> 1, of |-> <<ToSet(own)>>]
                               ELSE [cur |-> 0, of |-> <<>>]]
  /\ subs = {[q |-> own[s], c |-> Indexer, s |-> s] : s \in 1..2}
  /\ refs = [q \in Queries |-> IF q \in ToSet(own) THEN 1 ELSE 0]
  /\ objs = [s \in 1..2 |-> [c |-> Indexer, q |-> own[s], cap |-> 0, out |-> <<>>, err |-> None,
                             from |-> 0, got |-> <<>>]]
  /\ sending = None /\ events = Events /\ fired = 0
  /\ reader = [c \in Conns |-> [at |-> "read", q |-> <<>>, map |-> 0, left |-> MaxRequests]]
  /\ closer = [c \in Conns |-> "open"]
  /\ idx = None /\ indexed = <<>> /\ bus = "running"

Next ==
  /\ UNCHANGED events
  /\ \/ \E c \in Conns, q \in Asked : Subscribe(c, q) \/ Unsubscribe(c, q)
     \/ \E c \in Conns :
          \/ SubscribeSent(c) \/ SubscribeFails(c) \/ SubscribeNoted(c) \/ UnsubscribeSent(c)
          \/ UnsubscribeNoted(c) \/ StopConn(c) \/ UnsubscribeAllSent(c) \/ UnsubscribeAllNoted(c)
     \/ \E s \in DOMAIN objs : Consume(s)
     \/ \E e \in subs : Send(e)
     \/ PublishWithTags \/ SendDone \/ AddBatch \/ Shutdown \/ Quit

Spec == Init /\ [][Next]_vars

-----------------------------------------------------------------------------
(* What a subscription hands out is every matching event since it was made, in order and     *)
(* without a gap, until it is cancelled; being cancelled happens to it once, and the loop    *)
(* finds the query of every subscription it holds.                                           *)
NoGaps ==
  /\ \A s \in 3..Len(objs) :
       LET o    == objs[s]
           due  == SelectSeq([i \in 1..(fired - o.from) |-> o.from + i],
                             LAMBDA i : Matches(o.q, events[i].tags))
           held == o.got \o o.out
       IN /\ IsPrefix(held, due)
          /\ (\E e \in subs : e.s = s /\ (sending # None => e \notin sending.todo)) => held = due
  /\ \A e \in subs : refs[e.q] > 0 /\ objs[e.s].err = None

(* Every block whose header goes out is indexed with all of its own transactions and no      *)
(* others, whatever subscribers come, go or are too slow, and whatever tags the application  *)
(* puts on its results.  The loop, which waits for the indexer, never does so while the      *)
(* indexer waits for something else; and when it has nothing left to send, all is indexed.   *)
BlocksIndexed ==
  /\ \A h \in DOMAIN indexed : indexed[h] = {<<h, i>> : i \in DOMAIN Blocks[h].txs}
  /\ sending # None => \A e \in sending.todo :
       e.c = Indexer => Listens(e.q) \/ (idx # None /\ idx.want = 0)
  /\ Idle /\ fired = Len(events) /\ idx = None => Len(indexed) = Len(Blocks)
=============================================================================
