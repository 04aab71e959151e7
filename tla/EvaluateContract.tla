-------------------------- MODULE EvaluateContract --------------------------
(***************************************************************************)
(* What Client.Evaluate promises its caller, stated without attempts,      *)
(* timers or HTTP: providers are tried in order; a provider's error moves  *)
(* the call on only if it may be the provider's own fault; a rejected      *)
(* request or an ended context stops the call; what the caller can match   *)
(* with errors.Is is every provider's error, or the context's alone.       *)
(***************************************************************************)
EXTENDS Naturals, Sequences

CONSTANT NProviders  \* at least one

VARIABLES
    phase,     \* "running", or how the call ended
    verdicts,  \* the errors of the providers given up on, in provider order
    reported   \* the sentinels the returned error matches

vars == <<phase, verdicts, reported>>

Retryable == {"ErrRateLimited", "ErrOverloaded", "ErrServer", "ErrTransport"}
FallbackEligible == Retryable \cup {"ErrUnauthorized"}
ContextErrors == {"Canceled", "DeadlineExceeded"}
Refusals == {"ErrInvalidRequest", "ErrMalformedResponse", "ErrResponseTooLarge"}

Matched(seq) == {seq[i] : i \in DOMAIN seq}

Init == phase = "running" /\ verdicts = <<>> /\ reported = {}

(* The call is refused before any provider is asked. *)
Reject ==
    /\ phase = "running" /\ verdicts = <<>>
    /\ \E why \in ContextErrors \cup {"ErrValidation"} : reported' = {why}
    /\ phase' = "rejected"
    /\ UNCHANGED verdicts

(* Another provider is left, and this one's error lets the call go on. *)
MoveOn ==
    /\ phase = "running" /\ Len(verdicts) + 1 < NProviders
    /\ \E e \in FallbackEligible : verdicts' = Append(verdicts, e)
    /\ UNCHANGED <<phase, reported>>

Answer ==
    /\ phase = "running" /\ Len(verdicts) < NProviders
    /\ phase' = "answered"
    /\ UNCHANGED <<verdicts, reported>>

(* The providers are exhausted, or the error is the request's fault. *)
Fail ==
    /\ phase = "running"
    /\ \E e \in FallbackEligible \cup Refusals :
        /\ e \in Refusals \/ Len(verdicts) + 1 = NProviders
        /\ verdicts' = Append(verdicts, e)
    /\ phase' = "failed"
    /\ reported' = Matched(verdicts')

(* The call's context ends: the caller cancelled, or the budget ran out. *)
Stop ==
    /\ phase = "running"
    /\ \E c \in ContextErrors :
        /\ verdicts' = Append(verdicts, c)
        /\ reported' = {c}
    /\ phase' = "stopped"

Next == Reject \/ MoveOn \/ Answer \/ Fail \/ Stop

(* What may happen, and that something does. *)
Allowed == Init /\ [][Next]_vars

Spec == Allowed /\ WF_vars(Next)
=============================================================================
