-------------------------- MODULE ServeHTTPProofs --------------------------
(***************************************************************************)
(* What holds of ServeHTTP for any number of connections.                  *)
(***************************************************************************)
EXTENDS ServeHTTP, TLAPS

(* Where the listener is, by where the serving goroutine is. *)
ListenerInv ==
    /\ main = "binding" => listener = "none"
    /\ main = "tracking" => listener = "bound"
    /\ main = "accepting" => listener \in {"open", "closed"}
    /\ main \in {"cancelling", "joining", "returned"} => listener \in {"none", "closed"}
    /\ inShutdown => listener # "open"
    /\ inShutdown <=> shutdown # "waiting"

(* Why the two goroutines are where they are. *)
ReasonInv ==
    /\ inShutdown => ctxDone
    /\ ctxDone => stopped \/ main \in {"joining", "returned"}
    /\ served = "none" <=> main \in {"binding", "tracking", "accepting"}
    /\ served = "ErrServerClosed" => stopped
    /\ main = "returned" => shutdown = "done" /\ result = serveError(served)
    /\ main # "returned" => result = "none"

(* Once Shutdown or Close is through, no connection is left or comes back. *)
GoneInv == shutdown = "done" => \A c \in Conns : conn[c] \in {"absent", "closed"}

(* An evaluation that no one cancelled has its hook set, or started when   *)
(* the context was done.                                                   *)
HookInv ==
    \A c \in Conns : handler[c] = "evaluating" /\ ~callDone[c] =>
        hook[c] = IF ctxDone THEN "started" ELSE "set"

IInv == TypeOK /\ ListenerInv /\ ReasonInv /\ GoneInv /\ HookInv

LEMMA InvInit == Init => IInv
<1> SUFFICES ASSUME Init PROVE IInv
    OBVIOUS
<1>1. TypeOK
    BY DEF Init, TypeOK
<1>2. ListenerInv /\ ReasonInv
    BY DEF Init, ListenerInv, ReasonInv
<1>3. GoneInv /\ HookInv
    BY DEF Init, GoneInv, HookInv
<1> QED
    BY <1>1, <1>2, <1>3 DEF IInv

-----------------------------------------------------------------------------
(***************************************************************************)
(* The steps of the two goroutines.                                        *)
(***************************************************************************)
LEMMA GoroutineStep ==
    ASSUME IInv, Stop \/ MainStep \/ ListenerFails \/ ShutdownStep
    PROVE  IInv'
<1> USE DEF IInv, TypeOK, ListenerInv, ReasonInv, GoneInv, HookInv, server, calls, CtxEnds,
            ListenReturns
<1>1. CASE Stop
    BY <1>1 DEF Stop
<1>2. CASE ListenRefused
    BY <1>2 DEF ListenRefused
<1>3. CASE BindFails
    BY <1>3 DEF BindFails
<1>4. CASE Bind
    BY <1>4 DEF Bind
<1>5. CASE Track
    BY <1>5 DEF Track
<1>6. CASE AcceptFails
    BY <1>6 DEF AcceptFails
<1>7. CASE AcceptStops
    BY <1>7 DEF AcceptStops
<1>8. CASE CancelDerived
    BY <1>8 DEF CancelDerived
<1>9. CASE Join
    BY <1>9 DEF Join, serveError
<1>10. CASE BeginShutdown
    BY <1>10 DEF BeginShutdown
<1>11. CASE ListenersGone
    BY <1>11 DEF ListenersGone
<1>12. CASE Poll
    BY <1>12 DEF Poll
<1>13. CASE DrainTimesOut
    BY <1>13 DEF DrainTimesOut
<1>14. CASE Close
    BY <1>14 DEF Close
<1> QED
    BY <1>1, <1>2, <1>3, <1>4, <1>5, <1>6, <1>7, <1>8, <1>9, <1>10, <1>11, <1>12, <1>13, <1>14
    DEF MainStep, ListenerFails, ShutdownStep

-----------------------------------------------------------------------------
(***************************************************************************)
(* The steps of a connection.                                              *)
(***************************************************************************)
LEMMA ConnectionStep ==
    ASSUME IInv, NEW c \in Conns, Accept(c) \/ HandlerStep(c)
    PROVE  IInv'
<1> USE DEF IInv, TypeOK, ListenerInv, ReasonInv, GoneInv, HookInv, control, server, calls,
            ReceivesRequest, HandlerMoves
<1>1. CASE Accept(c)
    BY <1>1 DEF Accept
<1>2. CASE BeginEvaluation(c)
    BY <1>2 DEF BeginEvaluation, hookFor
<1>3. CASE BeginStream(c)
    BY <1>3 DEF BeginStream
<1>4. CASE BeginOther(c)
    BY <1>4 DEF BeginOther
<1>5. CASE RunHook(c)
    BY <1>5 DEF RunHook
<1>6. CASE EvaluateReturns(c)
    BY <1>6 DEF EvaluateReturns
<1>7. CASE StreamEnds(c)
    BY <1>7 DEF StreamEnds
<1>8. CASE Blocks(c)
    BY <1>8 DEF Blocks
<1>9. CASE HandlerReturns(c)
    BY <1>9 DEF HandlerReturns
<1> QED
    BY <1>1, <1>2, <1>3, <1>4, <1>5, <1>6, <1>7, <1>8, <1>9 DEF HandlerStep

LEMMA InvStep == IInv /\ [Next]_vars => IInv'
<1> SUFFICES ASSUME IInv, [Next]_vars PROVE IInv'
    OBVIOUS
<1>1. CASE UNCHANGED vars
    BY <1>1 DEF IInv, TypeOK, ListenerInv, ReasonInv, GoneInv, HookInv, vars, control, server, calls
<1> QED
    BY <1>1, GoroutineStep, ConnectionStep DEF Next

LEMMA InvAlways == Spec => []IInv
BY InvInit, InvStep, PTL DEF Spec

-----------------------------------------------------------------------------
(***************************************************************************)
(* The theorems.                                                           *)
(***************************************************************************)
(* Types. *)
THEOREM TypesHold == Spec => []TypeOK
BY InvAlways, PTL DEF IInv

(* However many clients are connected, and whatever they do, no listener   *)
(* and no connection outlives ServeHTTP (serve.go's join on the shutdown   *)
(* goroutine, its Shutdown and its Close).                                 *)
THEOREM NothingIsLeftOpen == Spec => []NothingLeftOpen
<1>1. IInv => NothingLeftOpen
    BY DEF IInv, ListenerInv, ReasonInv, GoneInv, NothingLeftOpen
<1> QED
    BY <1>1, InvAlways, PTL

(* ServeHTTP returns an error exactly when the listener failed of itself   *)
(* (its test for http.ErrServerClosed).                                    *)
THEOREM ErrorsAreFailures == Spec => []ErrorMeansFailure
<1>1. IInv => ErrorMeansFailure
    BY DEF IInv, TypeOK, ReasonInv, ErrorMeansFailure, serveError
<1> QED
    BY <1>1, InvAlways, PTL

(* The drain never waits for an evaluation alone, and cuts off none that   *)
(* was not told to stop: the hooks had started when it began (withStop,    *)
(* BaseContext).                                                           *)
THEOREM EvaluationsAreSpared == Spec => DrainSparesEvaluations
<1>1. IInv /\ [Next]_vars =>
        [shutdown = "draining" /\ shutdown' = "closing" =>
            /\ \E c \in Conns : conn[c] = "new" \/ handler[c] = "blocked"
            /\ \A c \in Conns :
                handler[c] = "evaluating" => callDone[c] \/ hook[c] = "started"]_vars
  <2> SUFFICES ASSUME IInv, Next, shutdown = "draining", shutdown' = "closing"
               PROVE  /\ \E c \in Conns : conn[c] = "new" \/ handler[c] = "blocked"
                      /\ \A c \in Conns :
                            handler[c] = "evaluating" => callDone[c] \/ hook[c] = "started"
      BY DEF vars
  <2>1. DrainTimesOut
      BY DEF Next, MainStep, ShutdownStep, ListenerFails, HandlerStep, Stop, ListenRefused, Bind,
         Track, AcceptStops, CancelDerived, Join, BeginShutdown, ListenersGone, Poll, Close,
         BindFails, AcceptFails, Accept, BeginEvaluation, BeginStream, BeginOther, RunHook,
         EvaluateReturns, StreamEnds, Blocks, HandlerReturns, control
  <2>2. PICK c \in Conns : MayOutlastDrain(c)
      BY <2>1 DEF DrainTimesOut
  <2>3. ctxDone
      BY DEF IInv, ListenerInv, ReasonInv
  <2>4. \A d \in Conns : handler[d] = "evaluating" => callDone[d] \/ hook[d] = "started"
      BY <2>3 DEF IInv, HookInv
  <2> QED
      BY <2>2, <2>4 DEF MayOutlastDrain
<1> QED
    BY <1>1, InvAlways, PTL DEF Spec, DrainSparesEvaluations
=============================================================================
