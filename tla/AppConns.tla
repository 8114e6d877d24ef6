------------------------------ MODULE AppConns ------------------------------
(***************************************************************************)
(* The application connections of proxy/ over the two transports without a *)
(* request queue: the in-process client of abci/client/local_client.go,    *)
(* whose instances share one mutex, and the gRPC client of                 *)
(* abci/client/grpc_client.go, with the stubs and handlers of              *)
(* abci/types/types.pb.go and the wrapper of abci/types/application.go.    *)
(* Threads call XxxSync or XxxAsync, the latter with a callback, on the    *)
(* query, mempool and consensus connections; each has a client of its own. *)
(***************************************************************************)
EXTENDS Integers, Sequences, FiniteSets

CONSTANTS Threads,      \* who calls, once each
          ConnOf,       \* thread -> the connection it uses
          Async,        \* the threads that call XxxAsync and then SetCallback
          Transports,   \* "local", "grpc": those looked at
          Workloads,    \* functions from Threads to the method it calls
          MayPanic,     \* the application may panic in a local call
          None

Conns == {ConnOf[t] : t \in Threads}

VARIABLES transport, method,
          pc,           \* thread -> where it is in its call
          holder,       \* connection -> the thread that holds the client's mutex
          inApp,        \* thread -> the application method running for it
          result,       \* thread -> [value, err] the call returned
          done, cb,     \* thread -> of the current ReqRes
          called, told, \* thread -> callbacks run, of its ReqRes and of the client
          running, err, \* connection -> of the gRPC client
          notify,       \* goroutines of finishAsyncCall: thread -> how many are pending
          up            \* the application's server can be reached

vars == <<transport, method, pc, holder, inApp, result, done, cb, called, told, running, err,
          notify, up>>
client == <<running, err, notify>>
asks == <<result, done, cb, called, told>>

-----------------------------------------------------------------------------
(* From a method to the application and back. *)

\* localClient: the application method that each of its methods runs; Echo and Flush run none.
LocalMethod == [Echo |-> None, Flush |-> None, Info |-> "Info", SetOption |-> "SetOption",
  DeliverTx |-> "DeliverTx", CheckTx |-> "CheckTx", Query |-> "Query", Commit |-> "Commit",
  InitChain |-> "InitChain", BeginBlock |-> "BeginBlock", EndBlock |-> "EndBlock"]

\* aBCIApplicationClient: the name each stub invokes.
FullMethod == [Echo |-> "/types.ABCIApplication/Echo", Flush |-> "/types.ABCIApplication/Flush",
  Info |-> "/types.ABCIApplication/Info", SetOption |-> "/types.ABCIApplication/SetOption",
  DeliverTx |-> "/types.ABCIApplication/DeliverTx", CheckTx |-> "/types.ABCIApplication/CheckTx",
  Query |-> "/types.ABCIApplication/Query", Commit |-> "/types.ABCIApplication/Commit",
  InitChain |-> "/types.ABCIApplication/InitChain",
  BeginBlock |-> "/types.ABCIApplication/BeginBlock",
  EndBlock |-> "/types.ABCIApplication/EndBlock"]

\* _ABCIApplication_serviceDesc: the names the server knows, and the method behind each handler.
ServiceDesc == {<<"/types.ABCIApplication/Echo", "Echo">>, <<"/types.ABCIApplication/Flush", "Flush">>,
  <<"/types.ABCIApplication/Info", "Info">>, <<"/types.ABCIApplication/SetOption", "SetOption">>,
  <<"/types.ABCIApplication/DeliverTx", "DeliverTx">>,
  <<"/types.ABCIApplication/CheckTx", "CheckTx">>, <<"/types.ABCIApplication/Query", "Query">>,
  <<"/types.ABCIApplication/Commit", "Commit">>, <<"/types.ABCIApplication/InitChain", "InitChain">>,
  <<"/types.ABCIApplication/BeginBlock", "BeginBlock">>,
  <<"/types.ABCIApplication/EndBlock", "EndBlock">>}

\* GRPCApplication
WrappedMethod == [Echo |-> None, Flush |-> None, Info |-> "Info", SetOption |-> "SetOption",
  DeliverTx |-> "DeliverTx", CheckTx |-> "CheckTx", Query |-> "Query", Commit |-> "Commit",
  InitChain |-> "InitChain", BeginBlock |-> "BeginBlock", EndBlock |-> "EndBlock"]

Handler(name) == (CHOOSE d \in ServiceDesc : d[1] = name)[2]

-----------------------------------------------------------------------------
(* The local client: one mutex for all connections, released by defer. *)

Mutex == CHOOSE c \in Conns : TRUE

\* Over gRPC FlushSync has nothing to do and returns.
Begin(t) ==
  /\ pc[t] = "call"
  /\ pc' = [pc EXCEPT ![t] = IF transport = "local" THEN "lock"
                             ELSE IF method[t] = "Flush" /\ t \notin Async THEN "returned"
                             ELSE "invoke"]
  /\ UNCHANGED <<transport, method, holder, inApp, asks, client, up>>

\* The call goes ahead without the mutex.
Lock_Skipped(t) ==
  /\ pc[t] = "lock" /\ pc' = [pc EXCEPT ![t] = "app"]
  /\ inApp' = [inApp EXCEPT ![t] = LocalMethod[method[t]]]
  /\ UNCHANGED <<transport, method, holder, asks, client, up>>

\* FlushAsync, FlushSync and EchoSync do without the mutex; EchoAsync takes it.
Lock(t) ==
  /\ pc[t] = "lock"
  /\ IF method[t] = "Flush" \/ (method[t] = "Echo" /\ t \notin Async)
     THEN UNCHANGED holder
     ELSE holder[Mutex] = None /\ holder' = [holder EXCEPT ![Mutex] = t]
  /\ pc' = [pc EXCEPT ![t] = "app"] /\ inApp' = [inApp EXCEPT ![t] = LocalMethod[method[t]]]
  /\ UNCHANGED <<transport, method, asks, client, up>>

Unlocked(t) == holder' = [c \in Conns |-> IF holder[c] = t THEN None ELSE holder[c]]

\* The application returns; callback() runs the client's callback and makes a done ReqRes.
LocalReturn(t) ==
  /\ transport = "local" /\ pc[t] = "app"
  /\ inApp' = [inApp EXCEPT ![t] = None] /\ Unlocked(t)
  /\ result' = [result EXCEPT ![t] = [value |-> IF inApp[t] = None THEN method[t] ELSE inApp[t],
                                      err |-> FALSE]]
  /\ IF t \in Async
     THEN /\ told' = [told EXCEPT ![t] = IF method[t] = "Flush" THEN @ ELSE @ + 1]
          /\ done' = [done EXCEPT ![t] = TRUE] /\ pc' = [pc EXCEPT ![t] = "callback"]
     ELSE pc' = [pc EXCEPT ![t] = "returned"] /\ UNCHANGED <<told, done>>
  /\ UNCHANGED <<transport, method, cb, called, client, up>>

\* The mutex is not released by defer.
LocalPanic_Locked(t) ==
  /\ MayPanic /\ transport = "local" /\ pc[t] = "app" /\ inApp[t] # None
  /\ inApp' = [inApp EXCEPT ![t] = None] /\ pc' = [pc EXCEPT ![t] = "returned"]
  /\ UNCHANGED <<transport, method, holder, asks, client, up>>

\* The application panics, and whoever called recovers: the deferred Unlock runs.
LocalPanic(t) ==
  /\ MayPanic /\ transport = "local" /\ pc[t] = "app" /\ inApp[t] # None
  /\ inApp' = [inApp EXCEPT ![t] = None] /\ Unlocked(t) /\ pc' = [pc EXCEPT ![t] = "returned"]
  /\ UNCHANGED <<transport, method, asks, client, up>>

-----------------------------------------------------------------------------
(* The gRPC client. *)

\* The request reaches the server, whose library runs the handler in a goroutine of its own.
Invoke(t) ==
  /\ pc[t] = "invoke" /\ up /\ running[ConnOf[t]]
  /\ pc' = [pc EXCEPT ![t] = "app"]
  /\ inApp' = [inApp EXCEPT ![t] = WrappedMethod[Handler(FullMethod[method[t]])]]
  /\ UNCHANGED <<transport, method, holder, asks, client, up>>

\* The answer comes back: the arm of Response that XxxAsync puts it in is its own.
Answer(t) ==
  /\ transport = "grpc" /\ pc[t] = "app" /\ up /\ running[ConnOf[t]]
  /\ result' = [result EXCEPT ![t] =
       [value |-> IF inApp[t] = None THEN Handler(FullMethod[method[t]]) ELSE inApp[t],
        err |-> FALSE]]
  /\ inApp' = [inApp EXCEPT ![t] = None] /\ pc' = [pc EXCEPT ![t] = "finish"]
  /\ UNCHANGED <<transport, method, holder, done, cb, called, told, client, up>>

\* The call fails: the server is gone, or the connection was closed.
Fail(t) ==
  /\ transport = "grpc" /\ pc[t] \in {"invoke", "app"} /\ ~(up /\ running[ConnOf[t]])
  /\ inApp' = [inApp EXCEPT ![t] = None] /\ pc' = [pc EXCEPT ![t] = "stop"]
  /\ result' = [result EXCEPT ![t] = [value |-> None, err |-> TRUE]]
  /\ UNCHANGED <<transport, method, holder, done, cb, called, told, client, up>>

\* StopForError: a client that is not running any more returns with the mutex held.
StopForError(t) ==
  LET c == ConnOf[t] IN
  /\ pc[t] = "stop" /\ holder[c] = None
  /\ IF running[c]
     THEN /\ err' = [err EXCEPT ![c] = TRUE] /\ running' = [running EXCEPT ![c] = FALSE]
          /\ UNCHANGED holder
     ELSE holder' = [holder EXCEPT ![c] = t] /\ UNCHANGED <<err, running>>
  /\ pc' = [pc EXCEPT ![t] = "finish"]
  /\ UNCHANGED <<transport, method, inApp, asks, notify, up>>

\* finishAsyncCall, up to its goroutine, and for a synchronous call what follows it.
FinishAsyncCall(t) ==
  /\ pc[t] = "finish"
  /\ done' = [done EXCEPT ![t] = TRUE] /\ notify' = [notify EXCEPT ![t] = @ + 1]
  /\ pc' = [pc EXCEPT ![t] = IF t \in Async THEN "callback" ELSE "error"]
  /\ UNCHANGED <<transport, method, holder, inApp, result, cb, called, told, running, err, up>>

\* The goroutine: the callback of the ReqRes if it is set by now, then the client's.
Notify(t) ==
  /\ notify[t] > 0 /\ notify' = [notify EXCEPT ![t] = @ - 1]
  /\ called' = [called EXCEPT ![t] = IF cb[t] THEN @ + 1 ELSE @]
  /\ told' = [told EXCEPT ![t] = @ + 1]
  /\ UNCHANGED <<transport, method, pc, holder, inApp, result, done, cb, running, err, up>>

\* Error(), at the end of XxxSync.
Error(t) ==
  /\ pc[t] = "error" /\ holder[ConnOf[t]] = None
  /\ result' = [result EXCEPT ![t].err = err[ConnOf[t]]] /\ pc' = [pc EXCEPT ![t] = "returned"]
  /\ UNCHANGED <<transport, method, holder, inApp, done, cb, called, told, client, up>>

\* The callback is stored although the ReqRes is done.
SetCallback_Stores(t) ==
  /\ pc[t] = "callback" /\ pc' = [pc EXCEPT ![t] = "returned"]
  /\ cb' = [cb EXCEPT ![t] = TRUE] /\ UNCHANGED called
  /\ UNCHANGED <<transport, method, holder, inApp, result, done, told, client, up>>

\* ReqRes.SetCallback
SetCallback(t) ==
  /\ pc[t] = "callback" /\ pc' = [pc EXCEPT ![t] = "returned"]
  /\ IF done[t] THEN called' = [called EXCEPT ![t] = @ + 1] /\ UNCHANGED cb
     ELSE cb' = [cb EXCEPT ![t] = TRUE] /\ UNCHANGED called
  /\ UNCHANGED <<transport, method, holder, inApp, result, done, told, client, up>>

Down ==
  /\ transport = "grpc" /\ up /\ up' = FALSE
  /\ UNCHANGED <<transport, method, pc, holder, inApp, asks, client>>

-----------------------------------------------------------------------------
Init ==
  /\ transport \in Transports /\ method \in Workloads
  /\ pc = [t \in Threads |-> "call"]
  /\ holder = [c \in Conns |-> None] /\ inApp = [t \in Threads |-> None]
  /\ result = [t \in Threads |-> None] /\ done = [t \in Threads |-> FALSE]
  /\ cb = [t \in Threads |-> FALSE]
  /\ called = [t \in Threads |-> 0] /\ told = [t \in Threads |-> 0]
  /\ running = [c \in Conns |-> TRUE] /\ err = [c \in Conns |-> FALSE]
  /\ notify = [t \in Threads |-> 0] /\ up = TRUE

Steps(t) ==
  \/ Lock(t) \/ LocalReturn(t) \/ LocalPanic(t) \/ Invoke(t) \/ Answer(t) \/ Fail(t)
  \/ StopForError(t) \/ FinishAsyncCall(t) \/ Error(t) \/ SetCallback(t)

Next ==
  \/ \E t \in Threads : Begin(t) \/ Steps(t) \/ Notify(t)
  \/ Down

Spec == Init /\ [][Next]_vars

-----------------------------------------------------------------------------
(* What a call returns is what the application's method of that name returned to it, by     *)
(* whichever stub, handler and wrapper it went; and a callback handed to an asynchronous    *)
(* call runs once, by SetCallback or by the goroutine of finishAsyncCall and never by both, *)
(* as does the client's own callback.                                                       *)
AnsweredOnce ==
  \A t \in Threads : result[t] # None =>
    /\ ~result[t].err => result[t].value = method[t]
    /\ t \in Async /\ pc[t] = "returned" /\ notify[t] = 0 => called[t] = 1
    /\ told[t] <= 1

(* The application "is not meant to be interfaced with concurrent callers": over the local   *)
(* client the connections take turns, whatever thread uses which of them.                    *)
AppAlone == transport = "local" => Cardinality({t \in Threads : inApp[t] # None}) <= 1

(* Every call comes back while the application's server is up, whichever other threads hold *)
(* the mutex, and even if the application panics in one of them: when no thread can go on,  *)
(* which is where every behaviour ends, no call is left waiting.                            *)
CallsReturn ==
  (\A t \in Threads : ~ENABLED (Begin(t) \/ Steps(t) \/ Notify(t))) =>
    \A t \in Threads : pc[t] = "returned" \/ ~up
=============================================================================
