----------------------------- MODULE ServeHTTP -----------------------------
(***************************************************************************)
(* ServeHTTP (internal/mcptools/serve.go): the goroutine that listens and  *)
(* joins, the goroutine that shuts the server down, the handlers at work   *)
(* on open connections, and withStop's hook from the serve context to each *)
(* evaluation in flight.                                                   *)
(*                                                                         *)
(* net/http.Server is external: its listener, its connection table and     *)
(* Shutdown and Close are modelled by what ServeHTTP relies on.  So is     *)
(* Evaluate, by what JevClient shows of it: it ends, and once its context  *)
(* is cancelled it ends promptly.                                          *)
(***************************************************************************)
EXTENDS Naturals

CONSTANT Conns  \* connections a client may open

VARIABLES
    main,        \* where the goroutine running ServeHTTP is
    shutdown,    \* where the shutdown goroutine is
    stopped,     \* the caller's context is cancelled (SIGINT, SIGTERM)
    ctxDone,     \* the derived context, BaseContext of every request, is done
    served,      \* what ListenAndServe returned
    result       \* what ServeHTTP returned

VARIABLES  \* net/http.Server
    inShutdown,  \* Shutdown has been called
    listener,    \* the TCP listener
    conn,        \* the server's state of each connection
    handler      \* what the handler of each connection is at

VARIABLES  \* withStop
    callDone,    \* the context of the connection's evaluation is cancelled
    hook         \* the AfterFunc that cancels it with the serve context

control == <<main, shutdown, stopped, ctxDone, served, result>>
server == <<inShutdown, listener, conn, handler>>
calls == <<callDone, hook>>
vars == <<control, server, calls>>

Init ==
    /\ main = "binding" /\ shutdown = "waiting"
    /\ stopped = FALSE /\ ctxDone = FALSE
    /\ served = "none" /\ result = "none"
    /\ inShutdown = FALSE /\ listener = "none"
    /\ conn = [c \in Conns |-> "absent"]
    /\ handler = [c \in Conns |-> "none"]
    /\ callDone = [c \in Conns |-> FALSE]
    /\ hook = [c \in Conns |-> "none"]

(* The derived context ends: context.AfterFunc starts each hook set on it, *)
(* in a goroutine of its own.                                              *)
CtxEnds ==
    /\ ctxDone' = TRUE
    /\ hook' = [c \in Conns |-> IF hook[c] = "set" THEN "started" ELSE hook[c]]

(* The caller's context is cancelled, at any moment. *)
Stop ==
    /\ ~stopped
    /\ stopped' = TRUE
    /\ CtxEnds
    /\ UNCHANGED <<main, shutdown, served, result, server, callDone>>

(***************************************************************************)
(* The serving goroutine: ListenAndServe, cancel, <-done.                  *)
(***************************************************************************)
ListenReturns(err) == served' = err /\ main' = "cancelling"

ListenRefused ==
    /\ main = "binding" /\ inShutdown
    /\ ListenReturns("ErrServerClosed")
    /\ UNCHANGED <<shutdown, stopped, ctxDone, result, server, calls>>

BindFails ==
    /\ main = "binding" /\ ~inShutdown
    /\ ListenReturns("failure")
    /\ UNCHANGED <<shutdown, stopped, ctxDone, result, server, calls>>

Bind ==
    /\ main = "binding" /\ ~inShutdown
    /\ listener' = "bound" /\ main' = "tracking"
    /\ UNCHANGED <<shutdown, stopped, ctxDone, served, result, inShutdown, conn, handler, calls>>

(* Serve registers the listener unless the server is shutting down, which  *)
(* it may have begun to since Listen.                                      *)
Track ==
    /\ main = "tracking"
    /\ IF inShutdown
         THEN listener' = "closed" /\ ListenReturns("ErrServerClosed")
         ELSE listener' = "open" /\ main' = "accepting" /\ UNCHANGED served
    /\ UNCHANGED <<shutdown, stopped, ctxDone, result, inShutdown, conn, handler, calls>>

Accept(c) ==
    /\ main = "accepting" /\ listener = "open"
    /\ conn[c] \in {"absent", "closed"} /\ handler[c] = "none"
    /\ conn' = [conn EXCEPT ![c] = "new"]
    /\ UNCHANGED <<control, inShutdown, listener, handler, calls>>

AcceptFails ==
    /\ main = "accepting" /\ ~inShutdown
    /\ listener' = "closed"
    /\ ListenReturns("failure")
    /\ UNCHANGED <<shutdown, stopped, ctxDone, result, inShutdown, conn, handler, calls>>

AcceptStops ==
    /\ main = "accepting" /\ inShutdown
    /\ ListenReturns("ErrServerClosed")
    /\ UNCHANGED <<shutdown, stopped, ctxDone, result, server, calls>>

(* Mutant: the derived context is left alone, as if only defer cancelled it. *)
CancelDerived_Deferred ==
    /\ main = "cancelling"
    /\ main' = "joining"
    /\ UNCHANGED <<shutdown, stopped, ctxDone, served, result, server, calls>>

CancelDerived ==
    /\ main = "cancelling"
    /\ main' = "joining"
    /\ CtxEnds
    /\ UNCHANGED <<shutdown, stopped, served, result, server, callDone>>

(* Mutant: what ListenAndServe returned is passed on as it is. *)
serveError_Raw(err) == err

serveError(err) == IF err = "ErrServerClosed" THEN "nil" ELSE "error"

(* Mutant: ServeHTTP returns as soon as ListenAndServe does. *)
Join_Never ==
    /\ main = "joining"
    /\ main' = "returned"
    /\ result' = serveError(served)
    /\ UNCHANGED <<shutdown, stopped, ctxDone, served, server, calls>>

Join ==
    /\ main = "joining" /\ shutdown = "done"
    /\ main' = "returned"
    /\ result' = serveError(served)
    /\ UNCHANGED <<shutdown, stopped, ctxDone, served, server, calls>>

(***************************************************************************)
(* The shutdown goroutine: <-ctx.Done(), Shutdown with its drain timeout,  *)
(* Close if handlers outlived it.                                          *)
(***************************************************************************)
BeginShutdown ==
    /\ shutdown = "waiting" /\ ctxDone
    /\ shutdown' = "stopping"
    /\ inShutdown' = TRUE
    /\ listener' = IF listener = "open" THEN "closed" ELSE listener
    /\ UNCHANGED <<main, stopped, ctxDone, served, result, conn, handler, calls>>

(* Shutdown waits for Serve to leave its accept loop. *)
ListenersGone ==
    /\ shutdown = "stopping" /\ main # "accepting"
    /\ shutdown' = "draining"
    /\ UNCHANGED <<main, stopped, ctxDone, served, result, server, calls>>

(* One poll of Shutdown: idle connections are closed, and those still new  *)
(* after five seconds; without any other connection it returns.            *)
Poll ==
    /\ shutdown = "draining"
    /\ \E silent \in SUBSET {c \in Conns : conn[c] = "new"} :
        conn' = [c \in Conns |->
                    IF conn[c] = "idle" \/ c \in silent THEN "closed" ELSE conn[c]]
    /\ shutdown' = IF \A c \in Conns : conn'[c] \in {"absent", "closed"} THEN "done" ELSE "draining"
    /\ UNCHANGED <<main, stopped, ctxDone, served, result, inShutdown, listener, handler, calls>>

(* A wait that may outlast the drain: a client that does not read or does  *)
(* not send, and an evaluation that nothing has told to stop.              *)
MayOutlastDrain(c) ==
    \/ conn[c] = "new"
    \/ conn[c] = "active" /\ handler[c] = "blocked"
    \/ conn[c] = "active" /\ handler[c] = "evaluating" /\ ~callDone[c] /\ hook[c] # "started"

(* Nothing else keeps the drain waiting until its end, but any handler may *)
(* be in the middle of something when the timeout comes.                   *)
DrainTimesOut ==
    /\ shutdown = "draining"
    /\ \E c \in Conns : MayOutlastDrain(c)
    /\ shutdown' = "closing"
    /\ UNCHANGED <<main, stopped, ctxDone, served, result, server, calls>>

(* Mutant: the drain timeout is logged and the connections left as they are. *)
Close_LogOnly ==
    /\ shutdown = "closing"
    /\ shutdown' = "done"
    /\ UNCHANGED <<main, stopped, ctxDone, served, result, server, calls>>

Close ==
    /\ shutdown = "closing"
    /\ conn' = [c \in Conns |-> IF conn[c] = "absent" THEN "absent" ELSE "closed"]
    /\ shutdown' = "done"
    /\ UNCHANGED <<main, stopped, ctxDone, served, result, inShutdown, listener, handler, calls>>

(***************************************************************************)
(* A connection's handler.                                                 *)
(***************************************************************************)
HandlerMoves(c, to) == handler' = [handler EXCEPT ![c] = to]

ReceivesRequest(c) ==
    /\ conn[c] \in {"new", "idle"} /\ handler[c] = "none"
    /\ conn' = [conn EXCEPT ![c] = "active"]

(* Mutant: evaluations run under the context the SDK detached. *)
hookFor_None == "none"

(* Mutant: a hook set on a context that is already done never starts. *)
hookFor_Late == "set"

(* AfterFunc on a context that is already done starts its function at once. *)
hookFor == IF ctxDone THEN "started" ELSE "set"

(* A tool call: withStop sets the hook and calls Evaluate. *)
BeginEvaluation(c) ==
    /\ ReceivesRequest(c)
    /\ HandlerMoves(c, "evaluating")
    /\ callDone' = [callDone EXCEPT ![c] = FALSE]
    /\ hook' = [hook EXCEPT ![c] = hookFor]
    /\ UNCHANGED <<control, inShutdown, listener>>

(* An event stream, open until the client leaves or the context ends. *)
BeginStream(c) ==
    /\ ReceivesRequest(c)
    /\ HandlerMoves(c, "streaming")
    /\ UNCHANGED <<control, inShutdown, listener, calls>>

(* A request the bearer check, the cross-origin check or the SDK answers. *)
BeginOther(c) ==
    /\ ReceivesRequest(c)
    /\ HandlerMoves(c, "responding")
    /\ UNCHANGED <<control, inShutdown, listener, calls>>

RunHook(c) ==
    /\ hook[c] = "started"
    /\ callDone' = [callDone EXCEPT ![c] = TRUE]
    /\ hook' = [hook EXCEPT ![c] = "none"]
    /\ UNCHANGED <<control, server>>

(* Evaluate returns: unregister drops the hook, and one that has started   *)
(* can only cancel the context of this finished call.                      *)
EvaluateReturns(c) ==
    /\ handler[c] = "evaluating"
    /\ HandlerMoves(c, "responding")
    /\ callDone' = [callDone EXCEPT ![c] = TRUE]
    /\ hook' = [hook EXCEPT ![c] = "none"]
    /\ UNCHANGED <<control, inShutdown, listener, conn>>

StreamEnds(c) ==
    /\ handler[c] = "streaming"
    /\ HandlerMoves(c, "responding")
    /\ UNCHANGED <<control, inShutdown, listener, conn, calls>>

(* The client stops reading: the write of the response blocks. *)
Blocks(c) ==
    /\ handler[c] = "responding" /\ conn[c] = "active"
    /\ HandlerMoves(c, "blocked")
    /\ UNCHANGED <<control, inShutdown, listener, conn, calls>>

(* The handler returns: the connection is kept for another request, or     *)
(* closed, always so when the server is shutting down.                     *)
HandlerReturns(c) ==
    /\ handler[c] \in {"responding", "blocked"}
    /\ HandlerMoves(c, "none")
    /\ \E kept \in BOOLEAN :
        conn' = [conn EXCEPT ![c] =
                    IF kept /\ ~inShutdown /\ conn[c] = "active" THEN "idle" ELSE "closed"]
    /\ UNCHANGED <<control, inShutdown, listener, calls>>

MainStep ==
    \/ ListenRefused \/ Bind \/ Track \/ AcceptStops \/ CancelDerived \/ Join
ShutdownStep == BeginShutdown \/ ListenersGone \/ Poll \/ DrainTimesOut \/ Close
ListenerFails == BindFails \/ AcceptFails
HandlerStep(c) ==
    \/ BeginEvaluation(c) \/ BeginStream(c) \/ BeginOther(c)
    \/ RunHook(c) \/ EvaluateReturns(c) \/ StreamEnds(c)
    \/ Blocks(c) \/ HandlerReturns(c)

Next ==
    \/ Stop \/ MainStep \/ ShutdownStep \/ ListenerFails
    \/ \E c \in Conns : Accept(c) \/ HandlerStep(c)

(***************************************************************************)
(* The two goroutines and the hooks run.  A stream ends with its context,  *)
(* a cancelled evaluation returns, a response that is not blocked is       *)
(* written.  Nothing is owed by clients, who may neither send nor read,    *)
(* and an evaluation no one cancelled may outlast the observation.         *)
(***************************************************************************)
Fairness ==
    /\ WF_vars(MainStep) /\ WF_vars(ShutdownStep)
    /\ \A c \in Conns :
        /\ WF_vars(RunHook(c))
        /\ WF_vars(callDone[c] /\ EvaluateReturns(c))
        /\ WF_vars(ctxDone /\ StreamEnds(c))
        /\ WF_vars(handler[c] = "responding" /\ HandlerReturns(c))

Spec == Init /\ [][Next]_vars /\ Fairness

(***************************************************************************)
(* PROPERTIES                                                              *)
(***************************************************************************)
(* Types. *)
TypeOK ==
    /\ main \in {"binding", "tracking", "accepting", "cancelling", "joining", "returned"}
    /\ shutdown \in {"waiting", "stopping", "draining", "closing", "done"}
    /\ stopped \in BOOLEAN /\ ctxDone \in BOOLEAN /\ inShutdown \in BOOLEAN
    /\ served \in {"none", "ErrServerClosed", "failure"}
    /\ result \in {"none", "nil", "error"}
    /\ listener \in {"none", "bound", "open", "closed"}
    /\ conn \in [Conns -> {"absent", "new", "active", "idle", "closed"}]
    /\ handler \in [Conns -> {"none", "evaluating", "streaming", "responding", "blocked"}]
    /\ callDone \in [Conns -> BOOLEAN]
    /\ hook \in [Conns -> {"none", "set", "started"}]

(* When ServeHTTP has returned, for whatever reason, the listener and      *)
(* every connection are closed: no client is left talking to a server      *)
(* whose process goes on, and the shutdown goroutine is not left behind.   *)
NothingLeftOpen ==
    main = "returned" =>
        /\ shutdown = "done"
        /\ listener \in {"none", "closed"}
        /\ \A c \in Conns : conn[c] \in {"absent", "closed"}

(* The drain times out over a client that does not read or does not send,  *)
(* never over an evaluation the server left running: every evaluation that *)
(* the timeout cuts off had been told to stop.                             *)
DrainSparesEvaluations ==
    [][shutdown = "draining" /\ shutdown' = "closing" =>
          /\ \E c \in Conns : conn[c] = "new" \/ handler[c] = "blocked"
          /\ \A c \in Conns : handler[c] = "evaluating" => callDone[c] \/ hook[c] = "started"]_vars

(* ServeHTTP does not return with a handler still running. *)
NoHandlerOutlives ==
    main = "returned" => \A c \in Conns : handler[c] = "none"

(* ServeHTTP returns an error exactly when the listener failed of itself:  *)
(* a shutdown the caller asked for is not reported as a failure, and a     *)
(* failure to bind or accept is not mistaken for a shutdown.               *)
ErrorMeansFailure ==
    /\ result \notin {"none", "nil"} => served = "failure"
    /\ result = "nil" => stopped /\ served = "ErrServerClosed"

(* ServeHTTP returns once the caller stops it, and once its listener fails *)
(* with no one stopping it, even if clients never read or never send.      *)
Returns == (stopped \/ served = "failure") ~> main = "returned"

(* Stopping the server ends an evaluation in flight, without waiting for   *)
(* its budget: the SDK would have detached it from the serve context.      *)
EvaluationsStop ==
    \A c \in Conns : stopped /\ handler[c] = "evaluating" ~> handler[c] # "evaluating"
=============================================================================
