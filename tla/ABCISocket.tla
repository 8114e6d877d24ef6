----------------------------- MODULE ABCISocket -----------------------------
(***************************************************************************)
(* The socket transport of the application interface: the client of        *)
(* abci/client/socket_client.go with its request queue, its two routines   *)
(* and its throttled flush timer, one connection of the server of          *)
(* abci/server/socket_server.go, and the callers of the XxxSync and        *)
(* XxxAsync methods.  Wire gives the encoding of what is sent; here a      *)
(* request is who made it and its arm, and every buffer is a sequence.     *)
(* The client's mutex is held over the whole of willSendReq,               *)
(* didRecvResponse and OnStop, which are single steps.                     *)
(***************************************************************************)
EXTENDS Integers, Sequences, FiniteSets, SequencesExt

CONSTANTS Callers,      \* the threads that use the client, one call each
          Sync,         \* those that call an XxxSync method
          Workloads,    \* what they call: functions from Callers to a method, or None
          Faulty,       \* bound: the workloads under which the client is stopped or cut off
          ReqQueueSize, \* capacity of reqQueue (256)
          BufferSize,   \* requests or responses a bufio.Writer holds before it writes
          None

VARIABLES method,       \* caller -> the method it calls
          pc,           \* caller -> where it is in its call
          reqQueue, reqSent, isSet,          \* isSet: of flushTimer
          sender, receiver,                  \* the two routines, [at, hand]
          life,         \* [stopped, err, quit, stopper] of the client
          done, response, cb, called,        \* the ReqRes of each caller
          wbuf, wire,                        \* requests buffered, and on the connection
          handled, rbuf, back,               \* the server: done by the app, buffered, sent
          open,         \* the connection has not been closed or broken
          queued, notified                   \* histories: entered reqQueue; told to resCb

client == <<reqQueue, reqSent, isSet, sender, receiver, life, wbuf>>
reqres == <<done, response, cb, called>>
server == <<handled, rbuf, back>>
vars == <<method, pc, client, reqres, wire, server, open, queued, notified>>

Timer == "timer"
Request(c, arm) == [by |-> c, arm |-> arm]
None2 == [by |-> None, arm |-> None]

-----------------------------------------------------------------------------
(* What goes into which arm of Request and of Response, and back. *)

ToRequest == [Echo |-> "Echo", Info |-> "Info", SetOption |-> "SetOption",
  DeliverTx |-> "DeliverTx", CheckTx |-> "CheckTx", Commit |-> "Commit", Query |-> "Query",
  InitChain |-> "InitChain", BeginBlock |-> "BeginBlock", EndBlock |-> "EndBlock"]

\* handleRequest: the arm of the answer.  Any other request is an Exception.
ToResponse == [Echo |-> "Echo", Flush |-> "Flush", Info |-> "Info", SetOption |-> "SetOption",
  DeliverTx |-> "DeliverTx", CheckTx |-> "CheckTx", Commit |-> "Commit", Query |-> "Query",
  InitChain |-> "InitChain", BeginBlock |-> "BeginBlock", EndBlock |-> "EndBlock"]

\* resMatchesReq: the arm expected.
Matching == [Echo |-> "Echo", Flush |-> "Flush", Info |-> "Info", SetOption |-> "SetOption",
  DeliverTx |-> "DeliverTx", CheckTx |-> "CheckTx", Commit |-> "Commit", Query |-> "Query",
  InitChain |-> "InitChain", BeginBlock |-> "BeginBlock", EndBlock |-> "EndBlock"]

\* The XxxSync methods: the getter used on the response.
Getter == [Echo |-> "Echo", Info |-> "Info", SetOption |-> "SetOption",
  DeliverTx |-> "DeliverTx", CheckTx |-> "CheckTx", Commit |-> "Commit", Query |-> "Query",
  InitChain |-> "InitChain", BeginBlock |-> "BeginBlock", EndBlock |-> "EndBlock"]

-----------------------------------------------------------------------------
(* The callers: queueRequest, then FlushSync or SetCallback. *)

QueueRequest(r) ==
  /\ Len(reqQueue) < ReqQueueSize
  /\ reqQueue' = Append(reqQueue, r) /\ queued' = Append(queued, r)

Call(c) ==
  /\ pc[c] = "call" /\ QueueRequest(Request(c, ToRequest[method[c]]))
  /\ pc' = [pc EXCEPT ![c] = "set"]
  /\ UNCHANGED <<method, reqSent, isSet, sender, receiver, life, wbuf, reqres, wire, server, open,
                 notified>>

SetTimer(c) ==
  /\ pc[c] = "set" /\ isSet' = TRUE
  /\ pc' = [pc EXCEPT ![c] = IF c \in Sync THEN "flush" ELSE "callback"]
  /\ UNCHANGED <<method, reqQueue, reqSent, sender, receiver, life, wbuf, reqres, wire, server, open,
                 queued, notified>>

\* The flush that FlushSync queues is left out.
FlushSync_NoFlush(c) ==
  /\ pc[c] = "flush" /\ pc' = [pc EXCEPT ![c] = "unset"]
  /\ UNCHANGED <<method, client, reqres, wire, server, open, queued, notified>>

FlushSync(c) ==
  /\ pc[c] = "flush" /\ QueueRequest(Request(c, "Flush"))
  /\ pc' = [pc EXCEPT ![c] = "unset"]
  /\ UNCHANGED <<method, reqSent, isSet, sender, receiver, life, wbuf, reqres, wire, server, open,
                 notified>>

UnsetTimer(c) ==
  /\ pc[c] = "unset" /\ isSet' = FALSE
  /\ pc' = [pc EXCEPT ![c] = "check"]
  /\ UNCHANGED <<method, reqQueue, reqSent, sender, receiver, life, wbuf, reqres, wire, server, open,
                 queued, notified>>

CheckError(c) ==
  /\ pc[c] = "check"
  /\ pc' = [pc EXCEPT ![c] = IF life.err THEN "returned" ELSE "wait"]
  /\ UNCHANGED <<method, client, reqres, wire, server, open, queued, notified>>

Wait(c) ==
  /\ pc[c] = "wait" /\ done[c].flush > 0
  /\ pc' = [pc EXCEPT ![c] = "returned"]
  /\ UNCHANGED <<method, client, reqres, wire, server, open, queued, notified>>

\* The socket client never calls SetDone, so the callback is only stored.
SetCallback(c) ==
  /\ pc[c] = "callback" /\ cb' = [cb EXCEPT ![c] = TRUE]
  /\ pc' = [pc EXCEPT ![c] = "returned"]
  /\ UNCHANGED <<method, client, done, response, called, wire, server, open, queued, notified>>

-----------------------------------------------------------------------------
(* Stopping: StopForError and Stop up to OnStop, then OnStop itself. *)

Stops(by, err) ==
  life' = IF life.stopped THEN life
          ELSE [life EXCEPT !.stopped = TRUE, !.err = err, !.stopper = by]

Stop ==
  /\ method \in Faulty /\ ~life.stopped /\ Stops("user", FALSE)
  /\ UNCHANGED <<method, pc, reqQueue, reqSent, isSet, sender, receiver, wbuf, reqres, wire, server,
                 open, queued, notified>>

\* Done on every ReqRes of a sequence of requests.
Released(reqs) ==
  [c \in Callers |->
        [req   |-> done[c].req + Cardinality({i \in DOMAIN reqs : reqs[i].by = c /\ reqs[i].arm # "Flush"}),
         flush |-> done[c].flush + Cardinality({i \in DOMAIN reqs : reqs[i] = Request(c, "Flush")})]]

OnStop ==
  /\ life.stopped /\ ~life.quit
  /\ life' = [life EXCEPT !.quit = TRUE]
  /\ open' = FALSE
  /\ done' = Released(reqSent \o reqQueue) /\ reqQueue' = <<>>
  /\ UNCHANGED <<method, pc, reqSent, isSet, sender, receiver, wbuf, response, cb, called, wire,
                 server, queued, notified>>

-----------------------------------------------------------------------------
(* sendRequestsRoutine *)

TimerFires ==
  /\ sender.at = "select" /\ isSet
  /\ isSet' = FALSE
  /\ \/ QueueRequest(Request(Timer, "Flush"))
     \/ Len(reqQueue) = ReqQueueSize /\ UNCHANGED <<reqQueue, queued>>
  /\ UNCHANGED <<method, pc, reqSent, sender, receiver, life, wbuf, reqres, wire, server, open,
                 notified>>

SenderQuits ==
  /\ sender.at = "select" /\ life.quit
  /\ sender' = [at |-> "ended", hand |-> None2]
  /\ UNCHANGED <<method, pc, reqQueue, reqSent, isSet, receiver, life, wbuf, reqres, wire, server,
                 open, queued, notified>>

Take ==
  /\ sender.at = "select" /\ reqQueue # <<>>
  /\ sender' = [at |-> "took", hand |-> Head(reqQueue)] /\ reqQueue' = Tail(reqQueue)
  /\ UNCHANGED <<method, pc, reqSent, isSet, receiver, life, wbuf, reqres, wire, server, open, queued,
                 notified>>

\* willSendReq, then WriteMessage and, for a Flush, Flush: what the buffer cannot hold goes to
\* the connection.
Send ==
  LET full == wbuf \o <<sender.hand>>
      goes == sender.hand.arm = "Flush" \/ Len(full) > BufferSize
  IN /\ sender.at = "took"
     /\ reqSent' = Append(reqSent, sender.hand)
     /\ IF goes /\ ~open
        THEN Stops("sender", TRUE) /\ sender' = [at |-> "ended", hand |-> None2]
             /\ UNCHANGED <<wire, wbuf>>
        ELSE /\ wbuf' = IF goes THEN <<>> ELSE full
             /\ wire' = IF goes THEN wire \o full ELSE wire
             /\ sender' = [at |-> "select", hand |-> None2] /\ UNCHANGED life
     /\ UNCHANGED <<method, pc, reqQueue, isSet, receiver, reqres, server, open, queued, notified>>

-----------------------------------------------------------------------------
(* recvResponseRoutine *)

ReceiverEnds == receiver' = [at |-> "ended", hand |-> None2] /\ Stops("receiver", TRUE)

Receive ==
  /\ receiver.at = "read"
  /\ \/ /\ back # <<>>
        /\ receiver' = [at |-> "got", hand |-> Head(back)] /\ back' = Tail(back)
        /\ UNCHANGED life
     \/ ~open /\ ReceiverEnds /\ UNCHANGED back
  /\ UNCHANGED <<method, pc, reqQueue, reqSent, isSet, sender, wbuf, reqres, wire, handled, rbuf,
                 open, queued, notified>>

\* The newest request is taken to be the one answered.
Answered_Last == Len(reqSent)

\* The request a response is the answer to.
Answered == 1

\* didRecvResponse
DidRecvResponse ==
  LET res == receiver.hand
      r   == reqSent[Answered]
      own == r.by # Timer /\ r.arm # "Flush"
  IN /\ receiver.at = "got"
     /\ IF reqSent = <<>> \/ res.arm = "Exception" \/ Matching[r.arm] # res.arm
        THEN ReceiverEnds /\ UNCHANGED <<reqSent, reqres, notified>>
        ELSE /\ response' = [c \in Callers |-> IF own /\ c = r.by THEN res ELSE response[c]]
             /\ done' = Released(<<r>>)
             /\ reqSent' = RemoveAt(reqSent, Answered)
             /\ called' = [c \in Callers |-> IF own /\ c = r.by /\ cb[c] THEN called[c] + 1
                                             ELSE called[c]]
             /\ notified' = Append(notified, r)
             /\ receiver' = [at |-> "read", hand |-> None2]
             /\ UNCHANGED <<life, cb>>
     /\ UNCHANGED <<method, pc, reqQueue, isSet, sender, wbuf, wire, server, open, queued>>

-----------------------------------------------------------------------------
(* The server's side of the connection. *)

\* handleRequests reads a request, answers it under appMtx, and handleResponses writes the
\* answer to its buffer, which a Flush sends.
HandleRequest ==
  LET r    == Head(wire)
      full == Append(rbuf, [by |-> r.by, arm |-> IF r.arm \in DOMAIN ToResponse
                                                 THEN ToResponse[r.arm] ELSE "Exception"])
      goes == r.arm = "Flush" \/ Len(full) > BufferSize
  IN /\ wire # <<>> /\ open
     /\ wire' = Tail(wire) /\ handled' = Append(handled, r)
     /\ rbuf' = IF goes THEN <<>> ELSE full
     /\ back' = IF goes THEN back \o full ELSE back
     /\ UNCHANGED <<method, pc, client, reqres, open, queued, notified>>

\* The connection breaks, or the application's process ends: what is not yet read is lost.
Break ==
  /\ method \in Faulty /\ open /\ open' = FALSE /\ wire' = <<>>
  /\ UNCHANGED <<method, pc, client, reqres, server, queued, notified>>

-----------------------------------------------------------------------------
Init ==
  /\ method \in Workloads
  /\ pc = [c \in Callers |-> IF method[c] = None THEN "idle" ELSE "call"]
  /\ reqQueue = <<>> /\ reqSent = <<>> /\ isSet = FALSE
  /\ sender = [at |-> "select", hand |-> None2] /\ receiver = [at |-> "read", hand |-> None2]
  /\ life = [stopped |-> FALSE, err |-> FALSE, quit |-> FALSE, stopper |-> None]
  /\ done = [c \in Callers |-> [req |-> 0, flush |-> 0]]
  /\ response = [c \in Callers |-> None] /\ cb = [c \in Callers |-> FALSE]
  /\ called = [c \in Callers |-> 0]
  /\ wbuf = <<>> /\ wire = <<>> /\ handled = <<>> /\ rbuf = <<>> /\ back = <<>>
  /\ open = TRUE /\ queued = <<>> /\ notified = <<>>

CallerSteps(c) ==
  Call(c) \/ SetTimer(c) \/ FlushSync(c) \/ UnsetTimer(c) \/ CheckError(c) \/ Wait(c) \/ SetCallback(c)
SenderSteps == SenderQuits \/ Take \/ Send

Next ==
  \/ \E c \in Callers : CallerSteps(c)
  \/ Stop \/ OnStop \/ TimerFires \/ SenderSteps \/ Receive \/ DidRecvResponse
  \/ HandleRequest \/ Break

Spec == Init /\ [][Next]_vars

-----------------------------------------------------------------------------
(* Requests and answers do not cross: the application sees the requests in the order they    *)
(* entered reqQueue, resCb hears of them in that order, and the response stored for a caller *)
(* is the answer to its own call, in the arm its getter reads.                               *)
AnswersInOrder ==
  /\ IsPrefix(handled, queued)
  /\ IsPrefix(notified, handled)
  /\ \A c \in Callers : response[c] # None =>
       response[c] = [by |-> c, arm |-> Getter[method[c]]]

(* A synchronous call returns while the client runs, although requests sit in buffers until  *)
(* something flushes them: FlushSync's own Flush follows its request through every queue, so *)
(* that when caller, routines and server can do nothing more (only a timer or a Stop is left, *)
(* and every behaviour comes to that) no caller is waiting.                                  *)
SyncReturns ==
  ~ENABLED (\/ \E c \in Callers : CallerSteps(c)
            \/ OnStop \/ SenderSteps \/ Receive \/ DidRecvResponse \/ HandleRequest) =>
    \A c \in Sync : pc[c] \in {"idle", "returned"} \/ life.stopped
=============================================================================
