------------------------------- MODULE MConn --------------------------------
(***************************************************************************)
(* A multiplex connection (p2p/conn/connection.go): senders queue messages *)
(* on channels, sendRoutine cuts them into packets by priority and writes  *)
(* them to a buffer that a throttled timer flushes, recvRoutine answers    *)
(* pings, and both stop the connection on an error.  The far end runs the  *)
(* same code; of it the model keeps recvPacketMsg and its pings and pongs. *)
(*                                                                         *)
(* A message is a sequence of chunks; a packet holds at most MaxPayload of *)
(* them.                                                                   *)
(***************************************************************************)
EXTENDS Integers, Sequences, FiniteSets, SequencesExt

CONSTANTS Channels,       \* the channel ids, 1 to n, in the order of the descriptors
          Priority,       \* channel -> ChannelDescriptor.Priority
          QueueCapacity,  \* SendQueueCapacity
          RecvCapacity,   \* RecvMessageCapacity, in chunks
          MaxPayload,     \* MaxPacketMsgPayloadSize, in chunks
          BatchSize,      \* numBatchPacketMsgs
          Senders,        \* goroutines that call Send or TrySend
          OnChannel,      \* message -> its channel
          Length,         \* message -> its number of chunks
          Loads           \* bound: the workloads, [messages, pings]: each message is sent at
                          \* most once, and both sides start at most that many pings

VARIABLES queue, sending, queueSize,  \* the channels: sendQueue, sending, sendQueueSize
          recentlySent,
          wake,                       \* the send channel, of capacity 1
          sender,                     \* sender -> its call in progress
          buffer, flushTimer,         \* bufConnWriter, and whether ThrottleTimer is set
          routine,                    \* sendRoutine
          pongTimer, pongTimeoutCh, pong,
          messages, pings,            \* what is left of the workload
          outgoing, incoming,         \* the two directions of the wire
          far,                        \* the far end: recving, received
          accepted,                   \* channel -> messages sendBytes took
          life                        \* the service: stopped, quit, closed, errored, flush

vars == <<queue, sending, queueSize, recentlySent, wake, sender, buffer, flushTimer, routine,
          pongTimer, pongTimeoutCh, pong, messages, pings, outgoing, incoming, far, accepted, life>>
chans == <<queue, sending, queueSize, recentlySent>>
pingpong == <<pongTimer, pongTimeoutCh, pong, pings>>
load == <<messages, accepted>>
wires == <<outgoing, incoming, far>>

Nothing == "none"
Chunks(m) == [k \in 1 .. Length[m] |-> <<m, k>>]
Ping == [type |-> "ping"]
Pong == [type |-> "pong"]
Broken == [type |-> "broken"]   \* an unknown channel or packet type
Running == ~life.stopped

-----------------------------------------------------------------------------
(* Send and TrySend: the check, the queue, then the size and the wake-up.    *)

Send(s, m) ==
  /\ sender[s].at = "idle" /\ m \in messages /\ messages' = messages \ {m}
  /\ Running
  /\ sender' = [sender EXCEPT ![s] = [at |-> "queue", msg |-> m]]
  /\ UNCHANGED <<chans, wake, buffer, flushTimer, routine, pingpong, wires, accepted, life>>

\* sendBytes: the queue takes the message, or the call gives up (at once in TrySend).
Enqueue(s) ==
  /\ sender[s].at = "queue"
  /\ LET m == sender[s].msg
         c == OnChannel[m]
     IN \/ /\ Len(queue[c]) < QueueCapacity
           /\ queue' = [queue EXCEPT ![c] = Append(@, Chunks(m))]
           /\ accepted' = [accepted EXCEPT ![c] = Append(@, m)]
           /\ sender' = [sender EXCEPT ![s].at = "count"]
        \/ /\ Len(queue[c]) = QueueCapacity
           /\ sender' = [sender EXCEPT ![s] = [at |-> "idle", msg |-> Nothing]]
           /\ UNCHANGED <<queue, accepted>>
  /\ UNCHANGED <<sending, queueSize, recentlySent, wake, buffer, flushTimer, routine, pingpong,
                 wires, messages, life>>

Count(s) ==
  /\ sender[s].at = "count"
  /\ queueSize' = [queueSize EXCEPT ![OnChannel[sender[s].msg]] = @ + 1]
  /\ wake' = TRUE
  /\ sender' = [sender EXCEPT ![s] = [at |-> "idle", msg |-> Nothing]]
  /\ UNCHANGED <<queue, sending, recentlySent, buffer, flushTimer, routine, pingpong, wires,
                 load, life>>

-----------------------------------------------------------------------------
(* Packets: sendPacketMsg, nextPacketMsg, recvPacketMsg. *)

\* isSendPending of every channel: an idle channel takes the next message of its queue.
Idle(c) == sending[c] = <<>> /\ queue[c] # <<>>
Loaded == [c \in Channels |-> IF Idle(c) THEN Head(queue[c]) ELSE sending[c]]
Rest == [c \in Channels |-> IF Idle(c) THEN Tail(queue[c]) ELSE queue[c]]

\* The last packet is the one shorter than the maximum.
NextPacketMsg_EndsShort(c, bytes) ==
  [type |-> "msg", ch |-> c, eof |-> Len(bytes) < MaxPayload,
   bytes |-> SubSeq(bytes, 1, IF Len(bytes) < MaxPayload THEN Len(bytes) ELSE MaxPayload)]

NextPacketMsg(c, bytes) ==
  [type |-> "msg", ch |-> c, eof |-> Len(bytes) <= MaxPayload,
   bytes |-> SubSeq(bytes, 1, IF Len(bytes) < MaxPayload THEN Len(bytes) ELSE MaxPayload)]

\* The first channel with the least recentlySent / Priority.
Least(C) ==
  CHOOSE c \in C : \A d \in C \ {c} :
    LET x == recentlySent[c] * Priority[d]
        y == recentlySent[d] * Priority[c]
    IN x < y \/ (x = y /\ c < d)

\* One packet is written to the buffer; queues, counters and the flush timer follow.
\* There is nothing left when done (and the caller says what becomes of the buffer).
SendPacketMsg(done) ==
  LET pending == {c \in Channels : Loaded[c] # <<>>} IN
  /\ done = (pending = {})
  /\ queue' = Rest
  /\ IF done THEN sending' = Loaded /\ UNCHANGED <<queueSize, recentlySent, flushTimer>>
     ELSE LET c == Least(pending)
              p == NextPacketMsg(c, Loaded[c])
          IN /\ sending' = [Loaded EXCEPT ![c] = IF p.eof THEN <<>>
                                                 ELSE SubSeq(@, Len(p.bytes) + 1, Len(@))]
             /\ queueSize' = [queueSize EXCEPT ![c] = IF p.eof THEN @ - 1 ELSE @]
             /\ recentlySent' = [recentlySent EXCEPT ![c] = @ + Len(p.bytes)]
             /\ flushTimer' = TRUE
             /\ buffer' = Append(buffer, p)

\* recvPacketMsg at the far end: Nothing once a message has grown over the capacity.
RecvPacketMsg(p) ==
  LET bytes == far.recving[p.ch] \o p.bytes IN
  IF far.broken \/ Len(bytes) > RecvCapacity THEN [far EXCEPT !.broken = TRUE]
  ELSE IF p.eof THEN [far EXCEPT !.recving[p.ch] = <<>>,
                                 !.received[p.ch] = Append(@, bytes)]
  ELSE [far EXCEPT !.recving[p.ch] = bytes]

-----------------------------------------------------------------------------
(* sendRoutine: one action per case of its select. *)

\* After a case: the routine ends if the service has stopped.
Loop == routine' = [at |-> IF Running THEN "select" ELSE "done", left |-> 0]
Selecting == routine.at = "select"

\* A write reaches the wire unless the connection is closed; an error is only logged.
Flushed(b) == outgoing' = IF life.closed THEN outgoing ELSE outgoing \o b

FlushTick ==
  /\ Selecting /\ flushTimer
  /\ flushTimer' = FALSE /\ buffer' = <<>> /\ Flushed(buffer) /\ Loop
  /\ UNCHANGED <<chans, wake, sender, pingpong, incoming, far, load, life>>

\* updateStats: recentlySent decays.
StatsTick ==
  /\ Selecting /\ Loop
  /\ \E c \in Channels : recentlySent[c] > 0
  /\ recentlySent' = [c \in Channels |-> (recentlySent[c] * 8) \div 10]
  /\ UNCHANGED <<queue, sending, queueSize, wake, sender, buffer, flushTimer, pingpong, wires,
                 load, life>>

PingTick ==
  /\ Selecting /\ pings > 0 /\ pongTimer = "off" /\ Loop
  /\ buffer' = <<>> /\ Flushed(Append(buffer, Ping))
  /\ pongTimer' = "set" /\ pings' = pings - 1
  /\ UNCHANGED <<chans, wake, sender, flushTimer, pongTimeoutCh, pong, incoming, far, load, life>>

SendPong ==
  /\ Selecting /\ pong /\ pong' = FALSE /\ Loop
  /\ buffer' = <<>> /\ Flushed(Append(buffer, Pong))
  /\ UNCHANGED <<chans, wake, sender, flushTimer, pongTimer, pongTimeoutCh, pings, incoming, far,
                 load, life>>

\* Stop, then the error callback, once; the connection is FlushStop's to close if it has begun.
StopForError == life' = [life EXCEPT !.stopped = TRUE, !.quit = TRUE, !.errored = TRUE,
                                     !.closed = @ \/ ~life.quit]

\* AfterFunc of the pong timer: never blocks.
PongTimeout ==
  /\ pongTimer = "set" /\ pongTimer' = "fired"
  /\ pongTimeoutCh' = IF pongTimeoutCh = Nothing THEN "timeout" ELSE pongTimeoutCh
  /\ UNCHANGED <<chans, wake, sender, buffer, flushTimer, routine, pong, pings, wires, load, life>>

ReadPongTimeout ==
  /\ Selecting /\ pongTimeoutCh # Nothing /\ pongTimeoutCh' = Nothing
  /\ IF pongTimeoutCh = "timeout" /\ Running
     THEN StopForError /\ routine' = [at |-> "done", left |-> 0] /\ pongTimer' = "off"
     ELSE /\ Loop /\ UNCHANGED life
          /\ pongTimer' = IF pongTimeoutCh = "pong" THEN "off" ELSE pongTimer
  /\ UNCHANGED <<chans, wake, sender, buffer, flushTimer, pong, pings, wires, load>>

\* sendSomePacketMsgs: a batch, after which the routine wakes itself if there is more.
WakeUp ==
  /\ Selecting /\ wake /\ wake' = FALSE
  /\ routine' = [at |-> "batch", left |-> BatchSize]
  /\ UNCHANGED <<chans, sender, buffer, flushTimer, pingpong, wires, load, life>>

\* A full batch goes back to the select without waking the routine.
Batch_NoWake ==
  /\ routine.at = "batch"
  /\ \E done \in BOOLEAN :
       /\ SendPacketMsg(done) /\ (done => UNCHANGED buffer)
       /\ IF done \/ routine.left = 1 THEN Loop
          ELSE routine' = [routine EXCEPT !.left = @ - 1]
  /\ UNCHANGED <<wake, sender, pingpong, wires, load, life>>

Batch ==
  /\ routine.at = "batch"
  /\ \E done \in BOOLEAN :
       /\ SendPacketMsg(done) /\ (done => UNCHANGED buffer)
       /\ wake' = (wake \/ (~done /\ routine.left = 1))
       /\ IF done \/ routine.left = 1 THEN Loop
          ELSE routine' = [routine EXCEPT !.left = @ - 1]
  /\ UNCHANGED <<sender, pingpong, wires, load, life>>

QuitSend ==
  /\ Selecting /\ life.quit
  /\ routine' = [at |-> "done", left |-> 0] /\ pongTimer' = "off"
  /\ UNCHANGED <<chans, wake, sender, buffer, flushTimer, pongTimeoutCh, pong, pings, wires,
                 load, life>>

-----------------------------------------------------------------------------
(* recvRoutine, the far end, and the ways to stop. *)

\* What is not understood ends the routine, and stays where it was.
Receive ==
  /\ incoming # <<>> /\ ~life.closed /\ (Head(incoming) = Broken => ~life.errored)
  /\ incoming' = IF Head(incoming) = Broken THEN incoming ELSE Tail(incoming)
  /\ LET p == Head(incoming) IN
     /\ pong' = (pong \/ p = Ping)
     /\ pongTimeoutCh' = IF p = Pong /\ pongTimeoutCh = Nothing THEN "pong" ELSE pongTimeoutCh
     /\ IF p = Broken THEN StopForError ELSE UNCHANGED life
  /\ UNCHANGED <<chans, wake, sender, buffer, flushTimer, routine, pongTimer, pings, outgoing, far,
                 load>>

\* The connection was closed under recvRoutine.
ReceiveFails ==
  /\ life.closed /\ Running
  /\ StopForError
  /\ UNCHANGED <<chans, wake, sender, buffer, flushTimer, routine, pingpong, wires, load>>

FarReceives ==
  /\ outgoing # <<>> /\ outgoing' = Tail(outgoing)
  /\ LET p == Head(outgoing) IN
     /\ far' = IF p.type = "msg" THEN RecvPacketMsg(p) ELSE far
     /\ incoming' = IF p = Ping THEN Append(incoming, Pong) ELSE incoming
  /\ UNCHANGED <<chans, wake, sender, buffer, flushTimer, routine, pingpong, load, life>>

FarSends ==
  /\ pings > 0 /\ pings' = pings - 1
  /\ \E p \in {Ping, Broken} : incoming' = Append(incoming, p)
  /\ UNCHANGED <<chans, wake, sender, buffer, flushTimer, routine, pongTimer, pongTimeoutCh, pong,
                 outgoing, far, load, life>>

\* Stop: OnStop closes quitSendRoutine and the connection.
Stop ==
  /\ Running /\ ~life.quit
  /\ life' = [life EXCEPT !.stopped = TRUE, !.quit = TRUE, !.closed = TRUE]
  /\ UNCHANGED <<chans, wake, sender, buffer, flushTimer, routine, pingpong, wires, load>>

\* FlushStop: stopServices closes quitSendRoutine and leaves the service's flags alone.
FlushStop ==
  /\ Running /\ ~life.quit
  /\ life' = [life EXCEPT !.quit = TRUE, !.flush = TRUE]
  /\ UNCHANGED <<chans, wake, sender, buffer, flushTimer, routine, pingpong, wires, load>>

\* Once sendRoutine is done: what is queued is sent, the buffer flushed, the connection closed.
FlushRest ==
  /\ life.flush /\ routine.at = "done"
  /\ \E done \in BOOLEAN :
       /\ SendPacketMsg(done)
       /\ IF done THEN /\ Flushed(buffer) /\ buffer' = <<>>
                       /\ life' = [life EXCEPT !.flush = FALSE, !.closed = TRUE]
          ELSE UNCHANGED <<outgoing, life>>
  /\ UNCHANGED <<wake, sender, routine, pingpong, incoming, far, load>>

Init ==
  /\ queue = [c \in Channels |-> <<>>] /\ sending = [c \in Channels |-> <<>>]
  /\ queueSize = [c \in Channels |-> 0] /\ recentlySent = [c \in Channels |-> 0]
  /\ wake = FALSE /\ buffer = <<>> /\ flushTimer = FALSE
  /\ sender = [s \in Senders |-> [at |-> "idle", msg |-> Nothing]]
  /\ routine = [at |-> "select", left |-> 0]
  /\ pongTimer = "off" /\ pongTimeoutCh = Nothing /\ pong = FALSE
  /\ \E l \in Loads : messages = l.messages /\ pings = l.pings
  /\ outgoing = <<>> /\ incoming = <<>>
  /\ far = [recving |-> [c \in Channels |-> <<>>], received |-> [c \in Channels |-> <<>>],
            broken |-> FALSE]
  /\ accepted = [c \in Channels |-> <<>>]
  /\ life = [stopped |-> FALSE, quit |-> FALSE, closed |-> FALSE, errored |-> FALSE,
             flush |-> FALSE]

Next ==
  \/ \E s \in Senders : (\E m \in messages : Send(s, m)) \/ Enqueue(s) \/ Count(s)
  \/ FlushTick \/ StatsTick \/ PingTick \/ SendPong \/ PongTimeout \/ ReadPongTimeout
  \/ WakeUp \/ Batch \/ QuitSend
  \/ Receive \/ ReceiveFails \/ FarReceives \/ FarSends \/ Stop \/ FlushStop \/ FlushRest

Spec == Init /\ [][Next]_vars

-----------------------------------------------------------------------------
\* The chunks of channel c in a sequence of packets.
Carried(c, packets) ==
  FlattenSeq([i \in DOMAIN packets |->
    IF packets[i].type = "msg" /\ packets[i].ch = c THEN packets[i].bytes ELSE <<>>])

(* What a channel accepted is, chunk by chunk and in order, what the far end has received, *)
(* what it is putting together, what is on the wire, in the buffer, in sending and in the  *)
(* queue; sendQueueSize counts the last two, but for senders that have not counted yet.    *)
(* It holds however packets of the channels are mixed, until the connection is closed.     *)
StreamsIntact ==
  ~life.closed /\ ~far.broken =>
    \A c \in Channels :
      /\ FlattenSeq([i \in DOMAIN accepted[c] |-> Chunks(accepted[c][i])]) =
           FlattenSeq(far.received[c]) \o far.recving[c] \o Carried(c, outgoing)
             \o Carried(c, buffer) \o sending[c] \o FlattenSeq(queue[c])
      /\ \A i \in DOMAIN far.received[c] : far.received[c][i] = Chunks(accepted[c][i])
      /\ queueSize[c] = Len(queue[c]) + (IF sending[c] # <<>> THEN 1 ELSE 0)
           - Cardinality({s \in Senders : sender[s].at = "count" /\ OnChannel[sender[s].msg] = c})

(* Nothing waits for an event that will not come: while sendRoutine lives, a channel with  *)
(* something to send has the wake-up set, or a batch or a sender that is going to set it,  *)
(* and a buffer that holds packets has its flush timer set.                                *)
NothingStuck ==
  routine.at # "done" =>
    /\ (\E c \in Channels : sending[c] # <<>> \/ queue[c] # <<>>) =>
         wake \/ routine.at = "batch" \/ \E s \in Senders : sender[s].at = "count"
    /\ buffer # <<>> => flushTimer
=============================================================================
