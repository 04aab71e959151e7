----------------------------- MODULE JevClient -----------------------------
(***************************************************************************)
(* One call of Client.Evaluate (internal/jev/client.go): the loop over the *)
(* providers, callProvider's retry loop, doRequest's bounded HTTP attempt, *)
(* and the backoff sleep, against servers that answer anything or nothing, *)
(* a caller that may cancel at any moment, and the call budget.            *)
(*                                                                         *)
(* Time is the variable now, in ticks since the call began.  The client's  *)
(* own steps take no time; Tick lets time pass while the client waits for  *)
(* an answer or for a timer, never past a timer that is due.               *)
(***************************************************************************)
EXTENDS RetryPolicy, Sequences

CONSTANTS
    NProviders,         \* len(c.providers)
    MaxRetries,         \* policy.MaxRetries, any non-negative int
    MaxInt,             \* the largest int
    Budget,             \* the call budget (WithBudget)
    PerRequestTimeout,  \* bound of one HTTP attempt
    Statuses,           \* HTTP statuses a server may answer with
    Bodies,             \* what may become of a response body, see doRequest
    RetryAfters,        \* values parseRetryAfter may return
    BadEndpoints        \* providers whose base URL does not join

ASSUME ClientAssumption ==
    /\ NProviders \in Nat \ {0}                  \* New rejects an empty list
    /\ MaxInt \in Nat /\ MaxRetries \in 0..MaxInt  \* WithMaxRetries takes n >= 0
    /\ Budget \in Nat \ {0}                      \* WithBudget takes d > 0
    /\ PerRequestTimeout \in Nat \ {0}
    /\ Statuses \subseteq Nat
    /\ Bodies \subseteq {"json", "undecodable", "oversized", "broken"}
    /\ RetryAfters \subseteq Nat
    /\ BadEndpoints \subseteq 1..NProviders

VARIABLES
    pc,          \* where the goroutine running Evaluate is
    ctxErr,      \* ctx.Err() of the budget context: "nil" while it is live
    now,         \* the clock
    timer,       \* when the current attempt's or sleep's timer fires
    sleep,       \* the duration passed to the current backoff sleep
    provider,    \* index of the provider being called
    attempt,     \* attempt of callProvider's loop
    retryAfter,  \* callProvider's retryAfter
    lastErr,     \* callProvider's lastErr
    start,       \* when callProvider's retry loop started
    total,       \* attempts of the providers that returned so far
    errs,        \* Evaluate's errs
    result       \* what Evaluate returned

(* What the servers have seen and said: the world's record of the call,    *)
(* read by the properties and by no step of the client.                    *)
VARIABLES
    requests,    \* HTTP attempts begun, over all providers
    sent,        \* HTTP attempts begun with each provider
    said,        \* the last thing each provider did with an attempt
    failedAt     \* when the latest attempt failed

client == <<timer, sleep, provider, attempt, retryAfter, lastErr, start, total, errs>>
world == <<requests, sent, said, failedAt>>
vars == <<pc, ctxErr, now, client, result, world>>

Providers == 1..NProviders

(***************************************************************************)
(* Errors.                                                                 *)
(***************************************************************************)
ContextErrors == {"Canceled", "DeadlineExceeded"}

Sentinels ==
    {"nil", "ErrValidation", "ErrMalformedResponse", "ErrUnauthorized", "ErrInvalidRequest",
     "ErrRateLimited", "ErrOverloaded", "ErrServer", "ErrTransport", "ErrResponseTooLarge"}
        \cup ContextErrors

APIError(sentinel, wait) == [sentinel |-> sentinel, retryAfter |-> wait]
ContextError(cause) == [sentinel |-> cause, retryAfter |-> 0]
NoError == [sentinel |-> "nil", retryAfter |-> 0]

statusSentinel(code) ==
    CASE code \in {401, 403} -> "ErrUnauthorized"
      [] code \in {400, 413, 422} -> "ErrInvalidRequest"
      [] code = 429 -> "ErrRateLimited"
      [] code \in {503, 529} -> "ErrOverloaded"
      [] code = 408 -> "ErrTransport"
      [] OTHER -> IF code >= 500 THEN "ErrServer" ELSE "ErrInvalidRequest"

isRetryable(err) ==
    err.sentinel \in {"ErrRateLimited", "ErrOverloaded", "ErrServer", "ErrTransport"}

(* Mutant: a rejected key ends the call instead of trying the next provider. *)
shouldFallback_NotRejectedKey(err) == isRetryable(err)

shouldFallback(err) == isRetryable(err) \/ err.sentinel = "ErrUnauthorized"

apiErrorRetryAfter(err) == err.retryAfter

(***************************************************************************)
(* doRequest: what an answer turns into.  body is "json" (decodes),        *)
(* "undecodable", "oversized" (over MaxResponseBytes), or "broken" (the    *)
(* read fails midway).  A status other than 200 classifies by status even  *)
(* when its body is oversized.                                             *)
(***************************************************************************)
doRequest(a) ==
    CASE a.body = "broken" -> APIError("ErrTransport", 0)
      [] a.body # "broken" /\ a.status # 200 ->
            APIError(statusSentinel(a.status), a.retryAfter)
      [] a.body = "oversized" /\ a.status = 200 -> APIError("ErrResponseTooLarge", 0)
      [] a.body = "undecodable" /\ a.status = 200 -> APIError("ErrMalformedResponse", 0)
      [] OTHER -> NoError

Answers == [by : {"answer"}, status : Statuses, body : Bodies, retryAfter : RetryAfters]
Refused == [by |-> "refusal", status |-> 0, body |-> "broken", retryAfter |-> 0]
TimedOut == [by |-> "timeout", status |-> 0, body |-> "broken", retryAfter |-> 0]
Silent == [by |-> "silence", status |-> 0, body |-> "broken", retryAfter |-> 0]

(* Mutant: the retries are taken for the attempts. *)
MaxAttempts_NoFirst == MaxRetries

(* MaxRetries + 1 is an int: it wraps, and range over a negative is empty. *)
MaxAttempts == IF MaxRetries + 1 > MaxInt THEN -MaxInt - 1 ELSE MaxRetries + 1

NoResult == [kind |-> "none"]
Failure(matches) == [kind |-> "error", matches |-> matches]

Init ==
    /\ pc = "entry" /\ ctxErr = "nil" /\ now = 0
    /\ timer = 0 /\ sleep = 0
    /\ provider = 1 /\ attempt = 0 /\ retryAfter = 0 /\ lastErr = NoError
    /\ start = 0 /\ total = 0 /\ errs = <<>>
    /\ result = NoResult
    /\ requests = 0
    /\ sent = [q \in Providers |-> 0]
    /\ said = [q \in Providers |-> Silent]
    /\ failedAt = 0

Return(r) == pc' = "done" /\ result' = r

(***************************************************************************)
(* Evaluate: the checks before the budget context is made.                 *)
(***************************************************************************)
AlreadyCancelled ==
    /\ pc = "entry" /\ ctxErr # "nil"
    /\ Return(Failure({ctxErr}))
    /\ UNCHANGED <<ctxErr, now, client, world>>

FailsValidation ==
    /\ pc = "entry" /\ ctxErr = "nil"
    /\ Return(Failure({"ErrValidation"}))
    /\ UNCHANGED <<ctxErr, now, client, world>>

BeginEvaluate ==
    /\ pc = "entry" /\ ctxErr = "nil"
    /\ pc' = "provider"
    /\ UNCHANGED <<ctxErr, now, client, result, world>>

(***************************************************************************)
(* callProvider returned n attempts and err: Evaluate records it, and      *)
(* stops on a context error, on the last provider, or on an error no other *)
(* provider would help with.                                               *)
(***************************************************************************)
ProviderFails(n, err) ==
    /\ total' = total + n
    /\ errs' = Append(errs, err)
    /\ IF err.sentinel \in ContextErrors
         THEN Return(Failure({err.sentinel})) /\ UNCHANGED provider
       ELSE IF provider = NProviders \/ ~shouldFallback(err)
         THEN Return(Failure({errs'[i].sentinel : i \in DOMAIN errs'})) /\ UNCHANGED provider
       ELSE pc' = "provider" /\ provider' = provider + 1 /\ UNCHANGED result

EndpointInvalid ==
    /\ pc = "provider" /\ provider \in BadEndpoints
    /\ ProviderFails(0, APIError("ErrTransport", 0))
    /\ UNCHANGED <<ctxErr, now, timer, sleep, attempt, retryAfter, lastErr, start, world>>

(***************************************************************************)
(* doRequest begins attempt n.  The transport refuses a request whose      *)
(* context has already ended: nothing is sent, and the context's error     *)
(* comes back.                                                             *)
(***************************************************************************)
BeginAttempt(n) ==
    /\ attempt' = n
    /\ IF ctxErr = "nil"
         THEN /\ pc' = "requesting"
              /\ timer' = now + PerRequestTimeout
              /\ requests' = requests + 1
              /\ sent' = [sent EXCEPT ![provider] = @ + 1]
              /\ UNCHANGED lastErr
         ELSE /\ pc' = "failed"
              /\ lastErr' = ContextError(ctxErr)
              /\ UNCHANGED <<timer, requests, sent>>

(* With no attempt to make, callProvider returns a nil result and a nil    *)
(* error, and Evaluate dereferences the result.                            *)
BeginProvider ==
    /\ pc = "provider" /\ provider \notin BadEndpoints
    /\ start' = now
    /\ retryAfter' = 0
    /\ IF MaxAttempts > 0
         THEN BeginAttempt(0)
         ELSE pc' = "panicked" /\ UNCHANGED <<attempt, timer, lastErr, requests, sent>>
    /\ UNCHANGED <<ctxErr, now, sleep, provider, total, errs, result, said, failedAt>>

AttemptFails(outcome, err) ==
    /\ pc' = "failed"
    /\ lastErr' = err
    /\ said' = [said EXCEPT ![provider] = outcome]
    /\ failedAt' = now
    /\ UNCHANGED <<ctxErr, now, timer, sleep, provider, attempt, retryAfter, start,
                   total, errs, result, requests, sent>>

(***************************************************************************)
(* The server answers.  An answer that is already there when the context   *)
(* ends may still be the one that is read.                                 *)
(***************************************************************************)
AnswerAccepted ==
    /\ pc = "requesting"
    /\ \E a \in Answers :
        /\ doRequest(a) = NoError
        /\ said' = [said EXCEPT ![provider] = a]
    /\ total' = total + attempt + 1
    /\ Return([kind |-> "answer", provider |-> provider, attempts |-> total',
               latency |-> now - start])
    /\ UNCHANGED <<ctxErr, now, timer, sleep, provider, attempt, retryAfter, lastErr,
                   start, errs, requests, sent, failedAt>>

AnswerRejected ==
    /\ pc = "requesting"
    /\ \E a \in Answers :
        /\ doRequest(a) # NoError
        /\ AttemptFails(a, doRequest(a))

(* Mutant: a hung attempt surfaces as the deadline error of its own context. *)
transportError_Deadline ==
    IF ctxErr # "nil" THEN ContextError(ctxErr) ELSE ContextError("DeadlineExceeded")

(* What doRequest makes of a failure below HTTP: the budget context's error *)
(* if that has ended, an ErrTransport otherwise.                            *)
transportError ==
    IF ctxErr # "nil" THEN ContextError(ctxErr) ELSE APIError("ErrTransport", 0)

(* A dial, TLS or connection failure, at any moment of the attempt. *)
ConnectionFails ==
    /\ pc = "requesting"
    /\ AttemptFails(Refused, transportError)

(* reqCtx is done: its own timeout, or the budget context it derives from. *)
RequestDone == now >= timer \/ ctxErr # "nil"

(* Mutant: only the attempt's own timeout ends it. *)
AttemptEnds_TimerOnly ==
    /\ pc = "requesting" /\ now >= timer
    /\ AttemptFails(IF ctxErr = "nil" THEN TimedOut ELSE Silent, transportError)

AttemptEnds ==
    /\ pc = "requesting" /\ RequestDone
    /\ AttemptFails(IF ctxErr = "nil" THEN TimedOut ELSE Silent, transportError)

(***************************************************************************)
(* callProvider after a failed attempt: an ended context, an error that a  *)
(* retry cannot help, a wait before the next attempt, or no attempt left.  *)
(***************************************************************************)
StopsRetrying ==
    /\ pc = "failed" /\ ctxErr # "nil"
    /\ ProviderFails(attempt + 1, ContextError(ctxErr))
    /\ UNCHANGED <<ctxErr, now, timer, sleep, attempt, retryAfter, lastErr, start, world>>

(* Mutant: what the attempt failed with is looked at before the context. *)
NotRetryable_BeforeContext ==
    /\ pc = "failed" /\ ~isRetryable(lastErr)
    /\ ProviderFails(attempt + 1, lastErr)
    /\ UNCHANGED <<ctxErr, now, timer, sleep, attempt, retryAfter, lastErr, start, world>>

NotRetryable ==
    /\ pc = "failed" /\ ctxErr = "nil" /\ ~isRetryable(lastErr)
    /\ ProviderFails(attempt + 1, lastErr)
    /\ UNCHANGED <<ctxErr, now, timer, sleep, attempt, retryAfter, lastErr, start, world>>

(* Mutant: a Retry-After outlives the failure that carried it. *)
nextRetryAfter_Sticky ==
    IF apiErrorRetryAfter(lastErr) > 0 THEN apiErrorRetryAfter(lastErr) ELSE retryAfter

nextRetryAfter == apiErrorRetryAfter(lastErr)

BacksOff ==
    /\ pc = "failed" /\ ctxErr = "nil" /\ isRetryable(lastErr)
    /\ attempt + 1 < MaxAttempts
    /\ retryAfter' = nextRetryAfter
    /\ \E d \in delay(attempt, retryAfter') : sleep' = d /\ timer' = now + d
    /\ attempt' = attempt + 1
    /\ pc' = "sleeping"
    /\ UNCHANGED <<ctxErr, now, provider, lastErr, start, total, errs, result, world>>

(* Mutant: the count of an exhausted provider leaves out the first attempt. *)
exhaustedAttempts_OffByOne == MaxAttempts - 1

exhaustedAttempts == MaxAttempts

Exhausted ==
    /\ pc = "failed" /\ ctxErr = "nil" /\ isRetryable(lastErr)
    /\ attempt + 1 >= MaxAttempts
    /\ retryAfter' = nextRetryAfter
    /\ ProviderFails(exhaustedAttempts, lastErr)
    /\ UNCHANGED <<ctxErr, now, timer, sleep, attempt, lastErr, start, world>>

(***************************************************************************)
(* sleepCtx: a timer of the given duration raced against the context; with *)
(* a non-positive duration, the context alone.                             *)
(***************************************************************************)
(* Mutant: the sleep waits for its timer alone. *)
SleepOver_Deaf == now >= timer

SleepOver == now >= timer \/ ctxErr # "nil"

(* When the timer and the context are both ready, select takes either. *)
Wakes ==
    /\ pc = "sleeping" /\ now >= timer
    /\ sleep <= 0 => ctxErr = "nil"
    /\ BeginAttempt(attempt)
    /\ UNCHANGED <<ctxErr, now, sleep, provider, retryAfter, start, total, errs, result,
                   said, failedAt>>

SleepCutShort ==
    /\ pc = "sleeping" /\ ctxErr # "nil"
    /\ ProviderFails(attempt, ContextError(ctxErr))
    /\ UNCHANGED <<ctxErr, now, timer, sleep, attempt, retryAfter, lastErr, start, world>>

(***************************************************************************)
(* The caller, the budget and time.                                        *)
(***************************************************************************)
Running == pc \notin {"done", "panicked"}

Cancel ==
    /\ Running /\ ctxErr = "nil"
    /\ ctxErr' = "Canceled"
    /\ UNCHANGED <<pc, now, client, result, world>>

BudgetSpent == pc # "entry" /\ Running /\ now >= Budget /\ ctxErr = "nil"

Expire ==
    /\ BudgetSpent
    /\ ctxErr' = "DeadlineExceeded"
    /\ UNCHANGED <<pc, now, client, result, world>>

Tick ==
    /\ (pc = "requesting" /\ ~RequestDone) \/ (pc = "sleeping" /\ ~SleepOver)
    /\ ~BudgetSpent
    /\ now' = now + 1
    /\ UNCHANGED <<pc, ctxErr, client, result, world>>

(***************************************************************************)
(* The steps that need no one's cooperation, and those that are up to the  *)
(* servers and the caller.                                                 *)
(***************************************************************************)
ClientStep ==
    \/ AlreadyCancelled \/ FailsValidation \/ BeginEvaluate
    \/ EndpointInvalid \/ BeginProvider
    \/ AttemptEnds \/ StopsRetrying \/ NotRetryable \/ BacksOff \/ Exhausted
    \/ Wakes \/ SleepCutShort

ServerStep == AnswerAccepted \/ AnswerRejected \/ ConnectionFails

Next == ClientStep \/ ServerStep \/ Cancel \/ Expire \/ Tick

(* The scheduler runs the goroutine and its timers, and time passes; no    *)
(* server need ever answer, and no caller need ever cancel.                *)
Spec == Init /\ [][Next]_vars /\ WF_vars(ClientStep \/ Expire \/ Tick)

(***************************************************************************)
(* PROPERTIES                                                              *)
(***************************************************************************)
Errors == [sentinel : Sentinels, retryAfter : Nat]

Outcomes ==
    [by : {"answer", "refusal", "timeout", "silence"}, status : Nat,
     body : {"json", "undecodable", "oversized", "broken"}, retryAfter : Nat]

Results ==
    {NoResult} \cup [kind : {"error"}, matches : SUBSET Sentinels]
        \cup [kind : {"answer"}, provider : Providers, attempts : Int, latency : Int]

(* Types.  The goroutine is at one of seven places, durations and instants *)
(* are natural numbers: in particular delay never returns a negative wait. *)
TypeOK ==
    /\ pc \in {"entry", "provider", "requesting", "failed", "sleeping", "done", "panicked"}
    /\ ctxErr \in {"nil"} \cup ContextErrors
    /\ now \in Nat /\ timer \in Nat /\ sleep \in Nat
    /\ provider \in Providers /\ attempt \in Nat /\ retryAfter \in Nat
    /\ lastErr \in Errors /\ start \in Nat /\ total \in Int
    /\ errs \in Seq(Errors)
    /\ result \in Results
    /\ requests \in Nat
    /\ sent \in [Providers -> Nat]
    /\ said \in [Providers -> Outcomes]
    /\ failedAt \in Nat

(* The documented classes of failure, told from what the provider did:     *)
(* 429, 503, 529, other server errors, 408 and transport failures are      *)
(* retried; 401 and 403 are a rejected key.                                *)
Transient(o) ==
    \/ o.by \in {"refusal", "timeout"}
    \/ o.by = "answer" /\ (o.body = "broken" \/ o.status \in {408, 429} \/ o.status >= 500)

KeyRejected(o) == o.by = "answer" /\ o.body # "broken" /\ o.status \in {401, 403}

(* The wait a provider asked for with its last answer. *)
Asked(o) ==
    IF o.by = "answer" /\ o.body # "broken" /\ o.status # 200 THEN o.retryAfter ELSE 0

(* The attempts a caller is told of are the HTTP attempts that were made,  *)
(* over every provider: those of a provider given up on are counted once,  *)
(* whether it was given up on at its first error, midway or exhausted.     *)
AttemptsAccounted == result.kind = "answer" => result.attempts = requests

(* Evaluate leaves a provider for the next one only with a reason: its     *)
(* base URL does not join, it rejected the key, or every attempt the       *)
(* policy allows failed in a way a retry might have cured.  No provider    *)
(* gets more attempts than that, and none is tried before its turn.        *)
FallbackJustified ==
    /\ \A q \in Providers : sent[q] <= MaxRetries + 1
    /\ \A q \in Providers : q < provider =>
        \/ q \in BadEndpoints /\ sent[q] = 0
        \/ sent[q] > 0 /\ KeyRejected(said[q])
        \/ sent[q] = MaxRetries + 1 /\ Transient(said[q])
    /\ \A q \in Providers : q > provider => sent[q] = 0

(* A context error is returned alone, and only for a context that ended:   *)
(* Canceled if the caller cancelled, DeadlineExceeded once the whole       *)
(* budget is spent.  A hung attempt, whose own context also ends with a    *)
(* deadline, is not mistaken for it.                                       *)
StopsOnlyWhenTold ==
    result.kind = "error" =>
        \A c \in result.matches \cap ContextErrors :
            /\ result.matches = {c} /\ ctxErr = c
            /\ c = "DeadlineExceeded" => now >= Budget

(* The call never outlives its budget, through any mix of attempts,        *)
(* server-sent waits and fallbacks: no wait is deaf to the budget.         *)
BudgetHolds == now <= Budget

(* No failure hides the end of the context: whatever answer, connection    *)
(* failure or timer races it, a call that fails after its context ended    *)
(* fails with the context's error alone.  Only a base URL that does not    *)
(* join is found without a look at the context.                            *)
StopNotHidden ==
    result.kind = "error" /\ ctxErr # "nil" /\ provider \notin BadEndpoints =>
        result.matches = {ctxErr}

(* A retry begins exactly one wait after the failure it follows: the       *)
(* server's own if that very failure asked for one, the backoff of that    *)
(* retry otherwise.  A provider's first attempt waits for nothing.         *)
BackoffHonoured ==
    [][\A q \in Providers : sent'[q] # sent[q] =>
          IF sent[q] = 0 THEN now = failedAt
          ELSE now - failedAt \in delay(sent[q] - 1, Asked(said[q]))]_vars

(* Evaluate returns, whatever the servers do or leave undone. *)
Ends == <>(pc = "done")

(* A count of retries the client accepts leaves Evaluate a result or an    *)
(* error to return.                                                        *)
NeverPanics == pc # "panicked"

(* A provider whose last attempt failed in a documented way, transiently   *)
(* or with a rejected key, is followed by the next one before the call is  *)
(* given up, unless its context ends.                                      *)
FallbackTried ==
    pc = "done" /\ ctxErr = "nil" =>
        \A q \in Providers :
            q < NProviders /\ sent[q] > 0 /\ (Transient(said[q]) \/ KeyRejected(said[q]))
                => provider > q

(* As the README and the comment of Evaluate have it, with the caller's    *)
(* cancellation as the only exception: such a provider, and one that has   *)
(* failed before and is silent now, is followed by the next one.           *)
FallbackPromised ==
    pc = "done" /\ ctxErr # "Canceled" =>
        \A q \in Providers :
            LET hung == said[q] = Silent /\ sent[q] > 1 IN
            q < NProviders /\ sent[q] > 0 /\ (Transient(said[q]) \/ KeyRejected(said[q]) \/ hung)
                => provider > q

(***************************************************************************)
(* The call as its caller sees it.                                         *)
(***************************************************************************)
Phase ==
    IF result.kind = "none" THEN "running"
    ELSE IF result.kind = "answer" THEN "answered"
    ELSE IF errs = <<>> THEN "rejected"
    ELSE IF errs[Len(errs)].sentinel \in ContextErrors THEN "stopped"
    ELSE "failed"

Contract == INSTANCE EvaluateContract WITH
    phase <- Phase,
    verdicts <- [i \in DOMAIN errs |-> errs[i].sentinel],
    reported <- IF result.kind = "error" THEN result.matches ELSE {}

(* Evaluate keeps the contract its comment states: providers in order,     *)
(* fallback only on an eligible error, a stop on a rejected request or an  *)
(* ended context, and a returned error that matches each provider's error  *)
(* or the context's alone.                                                 *)
KeepsContract == Contract!Spec
=============================================================================
