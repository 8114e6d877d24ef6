----------------------------- MODULE MCServices -----------------------------
(* What a node's core shares with the application and with its users: the      *)
(* connections to the application and the messages they carry, the validators  *)
(* and parameters the application sets, the evidence pool, the event bus with  *)
(* its websocket subscribers, and the transaction index. The components have   *)
(* no state in common: a behaviour is one of the component that `part' names,  *)
(* and the variables of the others rest.                                       *)
EXTENDS Evidence, Wire

CONSTANT None

VARIABLES callMethod, at, reqQueue, reqSent, isSet, sender, receiver, life, reqDone, response,
          callback, ran, wbuf, wire, handled, rbuf, back, open, queued, notified,
          transport, method, pc, holder, inApp, result, done, cb, called, told, running, err,
          notify, up,
          maps, subs, refs, objs, sending, events, fired, reader, closer, idx, indexed, bus,
          txHeight, results, keys,
          height, validators, nextValidators, lastChanged, info, round, waited, used, params,
          paramsChanged, paramsInfo,
          part

socketVars == <<callMethod, at, reqQueue, reqSent, isSet, sender, receiver, life, reqDone, response,
                callback, ran, wbuf, wire, handled, rbuf, back, open, queued, notified>>
connVars == <<transport, method, pc, holder, inApp, result, done, cb, called, told, running, err,
              notify, up>>
busVars == <<maps, subs, refs, objs, sending, events, fired, reader, closer, idx, indexed, bus>>
indexVars == <<txHeight, results, keys>>
validatorVars == <<height, validators, nextValidators, lastChanged, info, round, waited, used,
                   params, paramsChanged, paramsInfo>>

-----------------------------------------------------------------------------
(* Wire: of every type the zero value, one with every field set, and one for    *)
(* each field alone; a message inside has its own scalar fields set; two        *)
(* messages of three of the types, one of the others.                           *)
Scalar(d) ==
  CASE d[1] = "int" -> -5
    [] d[1] = "bool" -> TRUE
    [] d[1] = "bytes" -> <<200, 7>>
    [] d[1] = "repbytes" -> <<<<1>>, <<>>>>
Fields(t, Value(_)) ==
  [f \in DOMAIN Declared[t] \union {""} |->
     IF f = "" \/ (f # "" /\ Declares(t, f)[1] = "arm") THEN <<>> ELSE Value(Declares(t, f))]
Plain(t) ==
  Fields(t, LAMBDA d : CASE d[1] \in {"int", "bool", "bytes", "repbytes"} -> Scalar(d)
                         [] d[1] = "val" -> Zero(d[2])
                         [] OTHER -> <<>>)
Sample(d) ==
  CASE d[1] \in {"int", "bool", "bytes", "repbytes"} -> Scalar(d)
    [] d[1] = "val" -> Plain(d[2])
    [] d[1] = "rep" -> <<Plain(d[2]), Zero(d[2])>>
    [] OTHER -> <<Plain(d[2])>>
SampleMessages ==
  [t \in DOMAIN Declared |->
     {Zero(t), Fields(t, Sample)}
     \union {[Zero(t) EXCEPT ![f] = Sample(Declares(t, f))] : f \in DOMAIN Declared[t]}
     \union {[Zero(t) EXCEPT ![f] = 300] : f \in {g \in DOMAIN Declared[t] : Declared[t][g][1] = "int"}}]
OneOrTwo == [t \in DOMAIN Declared |-> IF t \in {"RequestFlush", "KVPair", "RequestQuery"} THEN 2 ELSE 1]

Methods == {"Echo", "Info", "SetOption", "DeliverTx", "CheckTx", "Query", "Commit",
            "InitChain", "BeginBlock", "EndBlock"}

(* ABCISocket: every method alone, a CheckTx in both ways at once, and a CheckTx *)
(* whose connection breaks.                                                      *)
Alone(m) == [c \in {"s", "a"} |-> IF c = "s" THEN m ELSE None]
SocketLoads == {Alone(m) : m \in Methods} \union {[c \in {"s", "a"} |-> "CheckTx"]}
BreaksUnder == {Alone("CheckTx")}
AS == INSTANCE ABCISocket WITH
  Callers <- {"s", "a"}, Sync <- {"s"}, Workloads <- SocketLoads, Faulty <- BreaksUnder,
  ReqQueueSize <- 2, BufferSize <- 1,
  method <- callMethod, pc <- at, done <- reqDone, cb <- callback, called <- ran

(* AppConns: every method on the query connection against two CheckTx of the     *)
(* mempool's, and a Flush against queries.                                       *)
Threads3 == {"q", "m", "n"}
ConnOfThread == [t \in Threads3 |-> IF t = "q" THEN "query" ELSE "mempool"]
CallLoads ==
  {[t \in Threads3 |-> IF t = "q" THEN m ELSE "CheckTx"] : m \in Methods \union {"Flush"}}
  \union {[t \in Threads3 |-> IF t = "m" THEN "Flush" ELSE "Query"]}
AC == INSTANCE AppConns WITH
  Threads <- Threads3, ConnOf <- ConnOfThread, Async <- {"m"}, Transports <- {"local", "grpc"},
  MayPanic <- TRUE, Workloads <- CallLoads

(* Evidence: of two heights, and one of somebody who was no validator. *)
MCEvHeight == [e \in Evs |-> IF e = "f" THEN 2 ELSE 1]
MCPower == [e \in Evs |-> IF e = "x" THEN 0 ELSE 1]

(* EventBus: the application tags a block and a transaction with a key that the  *)
(* event bus uses itself.                                                        *)
PQ == INSTANCE PubsubQuery WITH Substrings <- {}, MaxNumber <- 2
TwoBlocks ==
  <<[tags |-> <<<<"tm.event", "Tx">>, <<"", "v">>>>,
     txs |-> <<<<<<"k", "1">>, <<"k", "2">>>>, <<<<"tm.event", "NewBlockHeader">>>>>>,
     updates |-> TRUE],
    [tags |-> <<>>, txs |-> <<>>, updates |-> FALSE]>>
TwoQueries == {<<PQ!Condition("tm.event", "=", "Tx")>>, <<PQ!Condition("k", "=", "2")>>}
EB == INSTANCE EventBus WITH
  Substrings <- {}, MaxNumber <- 2, Blocks <- TwoBlocks, Conns <- {"a"}, Asked <- TwoQueries,
  MaxRequests <- 3, OutCapacity <- 1, MaxSubscriptionClients <- 3, MaxSubscriptionsPerClient <- 2,
  MayStop <- TRUE

(* TxIndex: queries with at most one lower and one upper bound on a tag. *)
Texts == {PQ!Condition("k", "=", "a"), PQ!Condition("k", "CONTAINS", "a"), PQ!Condition("k", "CONTAINS", "ab")}
Bounds(tag) == {PQ!Condition(tag, op, n) : op \in {"<", "<=", ">", ">=", "="}, n \in {"1", "2"}}
Conditions == Texts \union Bounds("n") \union Bounds("tx.height")
Side(op) == CASE op \in {"<", "<="} -> "upper" [] op \in {">", ">="} -> "lower" [] OTHER -> op
Searches ==
  {<<c>> : c \in Conditions}
  \union {q \in Conditions \X Conditions : q[1].tag # q[2].tag \/ Side(q[1].op) # Side(q[2].op)}
ThreeTagLists ==
  {<<<<"k", <<"a">>>>, <<"n", <<"1">>>>>>, <<<<"k", <<"ab">>>>, <<"n", <<"2">>>>>>,
   <<<<"n", <<"3">>>>, <<"x", <<"1">>>>>>}
TI == INSTANCE TxIndex WITH
  Substrings <- {<<"a", "ab">>}, MaxNumber <- 4, TagLists <- ThreeTagLists,
  TagsToIndex <- {"k", "n", "tx.height"}, TxHashKey <- "tx.hash", TxHeightKey <- "tx.height",
  MaxHeight <- 2, MaxTxs <- 2,
  SearchQueries <- Searches,
  PerPages <- {0, 1, 2, 9}, DefaultPerPage <- 2, MaxPerPage <- 3,
  height <- txHeight

(* Validators: powers change, validators come and go, and so do parameters; the  *)
(* largest integer is 47, so that powers near its eighth happen.                 *)
Change(a, p) == [addr |-> a, power |-> p]
OneAndThree == [a \in {1, 2} |-> IF a = 1 THEN 1 ELSE 3]
ChangeSets ==
  {{}, {Change(1, 0)}, {Change(1, 3)}, {Change(3, 1)}, {Change(3, 0)},
   {Change(2, 1), Change(3, 2)}, {Change(2, 0), Change(3, 4)}, {Change(1, 1), Change(1, 2)}}
SmallParams == [maxBytes |-> 1, maxAge |-> 1]
ParamChanges == {<<>>, [maxAge |-> 2], [maxBytes |-> 3, maxAge |-> 1]}
VA == INSTANCE Validators WITH
  MaxInt <- 47, Genesis <- OneAndThree, Changes <- ChangeSets, GenesisParams <- SmallParams,
  ParamUpdates <- ParamChanges,
  MaxBlockSizeBytes <- 2, Interval <- 3, MaxHeight <- 4, next <- nextValidators

-----------------------------------------------------------------------------
off == "off"
On(p) == part = p
Off(p) == part # p
PartsInit ==
  /\ part \in {"wire", "socket", "connections", "evidence", "events", "index", "validators"}
  /\ Init
  /\ \/ On("wire") /\ WireInit
     \/ /\ Off("wire")
        /\ type = off /\ written = off /\ stream = off /\ arrived = off /\ delivered = off /\ status = off
  /\ \/ On("socket") /\ AS!Init
     \/ /\ Off("socket")
        /\ callMethod = off /\ at = off /\ reqQueue = off /\ reqSent = off /\ isSet = off
        /\ sender = off /\ receiver = off /\ life = off /\ reqDone = off /\ response = off
        /\ callback = off /\ ran = off /\ wbuf = off /\ wire = off /\ handled = off /\ rbuf = off
        /\ back = off /\ open = off /\ queued = off /\ notified = off
  /\ \/ On("connections") /\ AC!Init
     \/ /\ Off("connections")
        /\ transport = off /\ method = off /\ pc = off /\ holder = off /\ inApp = off
        /\ result = off /\ done = off /\ cb = off /\ called = off /\ told = off /\ running = off
        /\ err = off /\ notify = off /\ up = off
  /\ \/ On("events") /\ EB!Init
     \/ /\ Off("events")
        /\ maps = off /\ subs = off /\ refs = off /\ objs = off /\ sending = off /\ events = off
        /\ fired = off
        /\ reader = off /\ closer = off /\ idx = off /\ indexed = off /\ bus = off
  /\ \/ On("index") /\ TI!Init
     \/ Off("index") /\ txHeight = off /\ results = off /\ keys = off
  /\ \/ On("validators") /\ VA!Init
     \/ /\ Off("validators")
        /\ height = off /\ validators = off /\ nextValidators = off /\ lastChanged = off
        /\ info = off /\ round = off /\ waited = off /\ used = off /\ params = off
        /\ paramsChanged = off /\ paramsInfo = off

PartsNext ==
  /\ UNCHANGED part
  /\ Off("wire") => UNCHANGED wireVars
  /\ Off("socket") => UNCHANGED socketVars
  /\ Off("connections") => UNCHANGED connVars
  /\ Off("evidence") => UNCHANGED vars
  /\ Off("events") => UNCHANGED busVars
  /\ Off("index") => UNCHANGED indexVars
  /\ Off("validators") => UNCHANGED validatorVars
  /\ \/ On("wire") /\ WireNext
     \/ On("socket") /\ AS!Next
     \/ On("connections") /\ AC!Next
     \/ On("evidence") /\ Next
     \/ On("events") /\ EB!Next
     \/ On("index") /\ TI!Next
     \/ On("validators") /\ VA!Next

PartsSpec ==
  PartsInit /\ [][PartsNext]_<<vars, wireVars, socketVars, connVars, busVars, indexVars,
                      validatorVars, part>>

-----------------------------------------------------------------------------
(* Every message read from a connection is one that was written, in order (StreamFaithful), *)
(* and fields that the reader does not know survive it (UnknownFieldsKept).                 *)
MessagesFaithful == On("wire") => StreamFaithful /\ UnknownFieldsKept

(* The socket client matches answers with requests in order (AnswersInOrder), also while it *)
(* is stopped or cut off, and a synchronous call is not left waiting by a client that runs  *)
(* (SyncReturns).                                                                           *)
SocketAnswers == On("socket") => AS!AnswersInOrder /\ AS!SyncReturns

(* Over a local or a gRPC connection each call is answered once (AnsweredOnce) and none is  *)
(* left waiting (CallsReturn); a local application runs one method at a time (AppAlone).    *)
CallsAnswered == On("connections") => AC!AnsweredOnce /\ AC!AppAlone /\ AC!CallsReturn

(* A subscriber gets every event that matches its query, in order, or an error (NoGaps),    *)
(* and the indexer gets every transaction of a block that it is told of (BlocksIndexed).    *)
EventsDelivered == On("events") => EB!NoGaps /\ EB!BlocksIndexed

(* A search of the index finds the transactions that match the query, each once, in order.  *)
SearchExact == On("index") => TI!SearchExact

(* Proposers take turns in proportion to their power: no arithmetic is clipped              *)
(* (PrioritiesExact) and no validator waits too long (NobodyStarves), whatever changes.     *)
TurnsFair == On("validators") => VA!PrioritiesExact /\ VA!NobodyStarves

(* What is loaded for a height are its validators, powers and parameters (LoadedMembers).   *)
LoadedMembers == On("validators") => VA!LoadedMembers
=============================================================================
