-------------------------- MODULE JevClientProofs --------------------------
(***************************************************************************)
(* Theorems about one Evaluate call, for every number of providers, retry  *)
(* count, budget and policy, and whatever the servers answer.              *)
(***************************************************************************)
EXTENDS JevClient, TLAPS

(* The sentinels an attempt may fail with while the context is live. *)
AttemptErrors ==
    {"ErrMalformedResponse", "ErrUnauthorized", "ErrInvalidRequest", "ErrRateLimited",
     "ErrOverloaded", "ErrServer", "ErrTransport", "ErrResponseTooLarge"}

(***************************************************************************)
(* The helpers.                                                            *)
(***************************************************************************)
LEMMA MaxAttemptsInt == MaxAttempts \in Int /\ (MaxAttempts > 0 => MaxAttempts = MaxRetries + 1)
BY ClientAssumption DEF MaxAttempts

(* A wait is never negative, whatever delay makes of it.  That it is never *)
(* long either, and no shorter than asked, is in RetryPolicyProofs.        *)
LEMMA DelayNatural ==
    ASSUME NEW n \in Nat, NEW asked \in Int, NEW d \in delay(n, asked)
    PROVE  d \in Nat
<1>1. ASSUME NEW x \in Int PROVE WrapDuration(x) \in Int
  BY PolicyAssumption DEF WrapDuration
<1>2. CASE asked > 0
  <2>1. WrapDuration(MaxDelay * retryAfterCapFactor) = 4 * MaxDelay
    BY PolicyAssumption DEF WrapDuration, retryAfterCapFactor
  <2> QED BY <1>2, <2>1, PolicyAssumption DEF delay
<1>3. CASE ~(asked > 0)
  <2>1. exponential(n) \in Int
    <3>1. backoffFactor^n \in Int
      BY DEF backoffFactor
    <3>2. BaseDelay * backoffFactor^n \in Int
      BY <3>1, PolicyAssumption
    <3> QED BY <1>1, <3>2, PolicyAssumption DEF exponential, Doubled
  <2>2. PICK y \in (exponential(n) * (100 - JitterPct)) \div 100
                    .. (exponential(n) * (100 + JitterPct)) \div 100 : d = IF y < 0 THEN 0 ELSE y
    BY <1>3 DEF delay, Jittered
  <2> QED BY <2>2
<1> QED BY <1>2, <1>3

LEMMA APIErrorType ==
    ASSUME NEW s \in Sentinels, NEW w \in Nat
    PROVE  APIError(s, w) \in Errors /\ APIError(s, w).sentinel = s /\ APIError(s, w).retryAfter = w
BY DEF APIError, Errors

LEMMA ContextErrorType ==
    ASSUME NEW c \in ContextErrors
    PROVE  ContextError(c) \in Errors /\ ContextError(c).sentinel = c
BY DEF ContextError, Errors, Sentinels

(* statusSentinel: every status other than 200 is some APIError. *)
LEMMA StatusSentinelType ==
    ASSUME NEW code \in Nat
    PROVE  /\ statusSentinel(code) \in AttemptErrors
           /\ statusSentinel(code) \in {"ErrRateLimited", "ErrOverloaded", "ErrServer", "ErrTransport"}
                <=> code \in {408, 429} \/ code >= 500
           /\ statusSentinel(code) = "ErrUnauthorized" <=> code \in {401, 403}
<1>1. CASE code \in {401, 403}
  BY <1>1 DEF statusSentinel, AttemptErrors
<1>2. CASE code \in {400, 413, 422}
  BY <1>2 DEF statusSentinel, AttemptErrors
<1>3. CASE code \in {429, 408, 503, 529}
  BY <1>3 DEF statusSentinel, AttemptErrors
<1>4. CASE code \notin {401, 403, 400, 413, 422, 429, 408, 503, 529}
  <2>1. statusSentinel(code) = IF code >= 500 THEN "ErrServer" ELSE "ErrInvalidRequest"
    BY <1>4 DEF statusSentinel
  <2> QED BY <1>4, <2>1 DEF AttemptErrors
<1> QED BY <1>1, <1>2, <1>3, <1>4

(* doRequest: an answer becomes no error, or one that says of the answer   *)
(* what the documentation says of it.                                      *)
LEMMA DoRequestFacts ==
    ASSUME NEW a \in Answers
    PROVE  /\ a \in Outcomes
           /\ doRequest(a) \in Errors
           /\ doRequest(a).retryAfter = Asked(a)
           /\ doRequest(a) # NoError => doRequest(a).sentinel \in AttemptErrors
           /\ doRequest(a) # NoError => (isRetryable(doRequest(a)) <=> Transient(a))
           /\ doRequest(a).sentinel = "ErrUnauthorized" <=> KeyRejected(a)
<1>1. a \in Outcomes /\ a.by = "answer" /\ a.status \in Nat /\ a.retryAfter \in Nat
  BY ClientAssumption DEF Answers, Outcomes
<1>2. a.body \in {"json", "undecodable", "oversized", "broken"}
  BY <1>1 DEF Outcomes
<1>3. AttemptErrors \subseteq Sentinels
  BY DEF AttemptErrors, Sentinels
<1>4. CASE a.body = "broken"
  <2>1. doRequest(a) = APIError("ErrTransport", 0)
    BY <1>4 DEF doRequest
  <2> QED BY <1>1, <1>3, <1>4, <2>1, APIErrorType
          DEF Asked, AttemptErrors, isRetryable, Transient, KeyRejected
<1>5. CASE a.body # "broken" /\ a.status # 200
  <2>1. doRequest(a) = APIError(statusSentinel(a.status), a.retryAfter)
    BY <1>5 DEF doRequest
  <2>2. statusSentinel(a.status) \in AttemptErrors
    BY <1>1, StatusSentinelType
  <2> QED BY <1>1, <1>3, <1>5, <2>1, <2>2, APIErrorType, StatusSentinelType
          DEF Asked, isRetryable, Transient, KeyRejected
<1>6. CASE a.body # "broken" /\ a.status = 200
  <2>1. doRequest(a) \in {APIError("ErrResponseTooLarge", 0), APIError("ErrMalformedResponse", 0),
                          NoError}
    BY <1>2, <1>6 DEF doRequest
  <2>2. NoError \in Errors /\ NoError.retryAfter = 0 /\ NoError.sentinel = "nil"
    BY DEF NoError, Errors, Sentinels
  <2> QED BY <1>1, <1>3, <1>6, <2>1, <2>2, APIErrorType
          DEF Asked, AttemptErrors, isRetryable, Transient, KeyRejected
<1> QED BY <1>4, <1>5, <1>6

LEMMA TransportErrorType ==
    ASSUME TypeOK
    PROVE  /\ transportError \in Errors
           /\ ctxErr = "nil" => transportError = APIError("ErrTransport", 0)
<1>1. APIError("ErrTransport", 0) \in Errors
  BY APIErrorType DEF Sentinels
<1>2. ctxErr # "nil" => ctxErr \in ContextErrors
  BY DEF TypeOK
<1> QED BY <1>1, <1>2, ContextErrorType DEF transportError

(***************************************************************************)
(* Types.                                                                  *)
(***************************************************************************)
LEMMA ProviderFailsType ==
    ASSUME TypeOK, NEW n \in Int, NEW err \in Errors, ProviderFails(n, err)
    PROVE  /\ pc' \in {"done", "provider"}
           /\ provider' \in Providers
           /\ total' \in Int
           /\ errs' \in Seq(Errors)
           /\ result' \in Results
<1>1. total' \in Int /\ errs' \in Seq(Errors)
  BY DEF ProviderFails, TypeOK
<1>2. err.sentinel \in Sentinels
  BY DEF Errors
<1>3. {errs'[j].sentinel : j \in DOMAIN errs'} \subseteq Sentinels
  <2> SUFFICES ASSUME NEW j \in DOMAIN errs' PROVE errs'[j].sentinel \in Sentinels
    OBVIOUS
  <2>1. errs'[j] \in Errors
    BY <1>1
  <2> QED BY <2>1 DEF Errors
<1>4. \A m \in SUBSET Sentinels : Failure(m) \in Results
  BY DEF Failure, Results
<1>5. CASE err.sentinel \in ContextErrors
  <2>1. pc' = "done" /\ result' = Failure({err.sentinel}) /\ provider' = provider
    BY <1>5 DEF ProviderFails, Return
  <2> QED BY <1>1, <1>2, <1>4, <2>1 DEF TypeOK
<1>6. CASE err.sentinel \notin ContextErrors /\ (provider = NProviders \/ ~shouldFallback(err))
  <2>1. /\ pc' = "done" /\ provider' = provider
        /\ result' = Failure({errs'[j].sentinel : j \in DOMAIN errs'})
    BY <1>6 DEF ProviderFails, Return
  <2> QED BY <1>1, <1>3, <1>4, <2>1 DEF TypeOK
<1>7. CASE err.sentinel \notin ContextErrors /\ ~(provider = NProviders \/ ~shouldFallback(err))
  <2>1. pc' = "provider" /\ provider' = provider + 1 /\ result' = result
    BY <1>7 DEF ProviderFails
  <2>2. provider + 1 \in Providers
    BY <1>7, ClientAssumption DEF TypeOK, Providers
  <2> QED BY <1>1, <2>1, <2>2 DEF TypeOK
<1> QED BY <1>5, <1>6, <1>7

LEMMA BeginAttemptType ==
    ASSUME TypeOK, NEW n \in Nat, BeginAttempt(n)
    PROVE  /\ pc' \in {"requesting", "failed"}
           /\ attempt' \in Nat /\ timer' \in Nat
           /\ lastErr' \in Errors
           /\ requests' \in Nat
           /\ sent' \in [Providers -> Nat]
<1>1. CASE ctxErr = "nil"
  BY <1>1, ClientAssumption DEF BeginAttempt, TypeOK
<1>2. CASE ctxErr # "nil"
  <2>1. ctxErr \in ContextErrors
    BY <1>2 DEF TypeOK
  <2> QED BY <1>2, <2>1, ContextErrorType DEF BeginAttempt, TypeOK
<1> QED BY <1>1, <1>2

LEMMA AttemptFailsType ==
    ASSUME TypeOK, NEW o \in Outcomes, NEW err \in Errors, AttemptFails(o, err)
    PROVE  TypeOK'
BY DEF AttemptFails, TypeOK

LEMMA TypeInit == Init => TypeOK
<1> SUFFICES ASSUME Init PROVE TypeOK
  OBVIOUS
<1>1. 1 \in Providers
  BY ClientAssumption DEF Providers
<1>2. NoError \in Errors
  BY DEF NoError, Errors, Sentinels
<1>3. Silent \in Outcomes
  BY DEF Silent, Outcomes
<1>4. NoResult \in Results
  BY DEF Results
<1> QED BY <1>1, <1>2, <1>3, <1>4 DEF Init, TypeOK

LEMMA TypeStep == TypeOK /\ [Next]_vars => TypeOK'
<1> SUFFICES ASSUME TypeOK, [Next]_vars PROVE TypeOK'
  OBVIOUS
<1> USE DEF vars, client, world
<1>1. ASSUME NEW m \in SUBSET Sentinels PROVE Failure(m) \in Results
  BY DEF Failure, Results
<1>2. ctxErr # "nil" => ctxErr \in ContextErrors /\ {ctxErr} \in SUBSET Sentinels
  BY DEF TypeOK, Sentinels
<1>3. attempt + 1 \in Nat /\ attempt \in Int /\ exhaustedAttempts \in Int /\ 0 \in Nat
  BY MaxAttemptsInt DEF TypeOK, exhaustedAttempts
<1>4. lastErr \in Errors /\ nextRetryAfter \in Nat
  BY DEF TypeOK, Errors, nextRetryAfter, apiErrorRetryAfter
<1>5. CASE AlreadyCancelled
  BY <1>1, <1>2, <1>5 DEF AlreadyCancelled, Return, TypeOK
<1>6. CASE FailsValidation
  BY <1>1, <1>6 DEF FailsValidation, Return, TypeOK, Sentinels
<1>7. CASE BeginEvaluate
  BY <1>7 DEF BeginEvaluate, TypeOK
<1>8. CASE EndpointInvalid
  <2>1. APIError("ErrTransport", 0) \in Errors
    BY APIErrorType DEF Sentinels
  <2> QED BY <1>3, <1>8, <2>1, ProviderFailsType DEF EndpointInvalid, TypeOK
<1>9. CASE BeginProvider
  <2>1. CASE MaxAttempts > 0
    BY <1>3, <1>9, <2>1, BeginAttemptType DEF BeginProvider, TypeOK
  <2>2. CASE ~(MaxAttempts > 0)
    BY <1>9, <2>2 DEF BeginProvider, TypeOK
  <2> QED BY <2>1, <2>2
<1>10. CASE AttemptEnds
  <2>1. TimedOut \in Outcomes /\ Silent \in Outcomes
    BY DEF TimedOut, Silent, Outcomes
  <2> QED BY <1>10, <2>1, TransportErrorType, AttemptFailsType DEF AttemptEnds
<1>11. CASE StopsRetrying
  BY <1>2, <1>3, <1>11, ContextErrorType, ProviderFailsType DEF StopsRetrying, TypeOK
<1>12. CASE NotRetryable
  BY <1>3, <1>4, <1>12, ProviderFailsType DEF NotRetryable, TypeOK
<1>13. CASE BacksOff
  <2>1. retryAfter' \in Nat /\ attempt' \in Nat
    BY <1>3, <1>4, <1>13 DEF BacksOff
  <2>2. PICK d \in delay(attempt, retryAfter') : sleep' = d /\ timer' = now + d
    BY <1>13 DEF BacksOff
  <2>3. d \in Nat
    BY <2>1, DelayNatural, PolicyAssumption DEF TypeOK
  <2> QED BY <1>13, <2>1, <2>2, <2>3 DEF BacksOff, TypeOK
<1>14. CASE Exhausted
  BY <1>3, <1>4, <1>14, ProviderFailsType DEF Exhausted, TypeOK
<1>15. CASE Wakes
  BY <1>15, BeginAttemptType DEF Wakes, TypeOK
<1>16. CASE SleepCutShort
  BY <1>2, <1>3, <1>16, ContextErrorType, ProviderFailsType DEF SleepCutShort, TypeOK
<1>17. CASE AnswerAccepted
  <2>1. PICK a \in Answers : said' = [said EXCEPT ![provider] = a]
    BY <1>17 DEF AnswerAccepted
  <2>2. a \in Outcomes
    BY DoRequestFacts
  <2>3. said' \in [Providers -> Outcomes]
    BY <2>1, <2>2 DEF TypeOK
  <2>4. total' \in Int /\ now - start \in Int
    BY <1>17 DEF AnswerAccepted, TypeOK
  <2>5. result' \in Results
    BY <1>17, <2>4 DEF AnswerAccepted, Return, Results, TypeOK
  <2> QED BY <1>17, <2>3, <2>4, <2>5 DEF AnswerAccepted, Return, TypeOK
<1>18. CASE AnswerRejected
  <2>1. PICK a \in Answers : AttemptFails(a, doRequest(a))
    BY <1>18 DEF AnswerRejected
  <2> QED BY <2>1, DoRequestFacts, AttemptFailsType
<1>19. CASE ConnectionFails
  <2>1. Refused \in Outcomes
    BY DEF Refused, Outcomes
  <2> QED BY <1>19, <2>1, TransportErrorType, AttemptFailsType DEF ConnectionFails
<1>20. CASE Cancel
  BY <1>20 DEF Cancel, TypeOK, ContextErrors
<1>21. CASE Expire
  BY <1>21 DEF Expire, TypeOK, ContextErrors
<1>22. CASE Tick
  BY <1>22 DEF Tick, TypeOK
<1>23. CASE UNCHANGED vars
  BY <1>23 DEF TypeOK
<1> QED BY <1>5, <1>6, <1>7, <1>8, <1>9, <1>10, <1>11, <1>12, <1>13, <1>14, <1>15, <1>16,
           <1>17, <1>18, <1>19, <1>20, <1>21, <1>22, <1>23
        DEF Next, ClientStep, ServerStep

(* Every state of every call is well typed: in particular no duration the  *)
(* client sleeps for is negative.                                          *)
THEOREM TypeCorrect == Spec => []TypeOK
BY TypeInit, TypeStep, PTL DEF Spec

(***************************************************************************)
(* The budget.                                                             *)
(***************************************************************************)
(* The deadline is met on time: the clock stops at it until the context    *)
(* ends, and after that for good.                                          *)
BudgetInv == now <= Budget /\ (pc = "entry" => now = 0)

LEMMA BudgetStep == TypeOK /\ BudgetInv /\ [Next]_vars => BudgetInv'
<1> SUFFICES ASSUME TypeOK, BudgetInv, [Next]_vars PROVE BudgetInv'
  OBVIOUS
<1> USE DEF BudgetInv, vars, client, world
<1>1. CASE Tick
  <2>1. ctxErr = "nil" /\ pc \in {"requesting", "sleeping"}
    BY <1>1 DEF Tick, RequestDone, SleepOver
  <2>2. now < Budget
    BY <1>1, <2>1, ClientAssumption DEF Tick, BudgetSpent, Running, TypeOK
  <2> QED BY <1>1, <2>1, <2>2, ClientAssumption DEF Tick, TypeOK
<1>2. CASE ~Tick
  <2>1. now' = now /\ (pc' = "entry" => pc = "entry")
    BY <1>2 DEF Next, ClientStep, ServerStep, AlreadyCancelled, FailsValidation,
       BeginEvaluate, EndpointInvalid, BeginProvider, AttemptEnds, AttemptFails,
       StopsRetrying, NotRetryable, BacksOff, Exhausted, Wakes, SleepCutShort,
       AnswerAccepted, AnswerRejected, ConnectionFails, Cancel, Expire,
       ProviderFails, BeginAttempt, Return
  <2> QED BY <2>1
<1> QED BY <1>1, <1>2

(* No call outlives its budget: whatever the servers do, through every     *)
(* attempt, wait and fallback.                                             *)
THEOREM BudgetIsHeld == Spec => []BudgetHolds
<1>1. Init => BudgetInv
  BY ClientAssumption DEF Init, BudgetInv
<1>2. BudgetInv => BudgetHolds
  BY DEF BudgetInv, BudgetHolds
<1> QED BY <1>1, <1>2, BudgetStep, TypeCorrect, PTL DEF Spec

(***************************************************************************)
(* The attempts a caller is told of.                                       *)
(***************************************************************************)
(* total lags behind requests by the attempts of the provider being        *)
(* called, which are attempt and, unless it sleeps before it, one more.    *)
(* After the context has ended the lag no longer matters: an attempt begun *)
(* then sends nothing, and its call can only stop.                         *)
AttemptInv ==
    /\ pc \in {"requesting", "failed", "sleeping"} => attempt < MaxAttempts
    /\ pc \in {"entry", "provider"} => requests = total
    /\ pc = "requesting" => requests = total + attempt + 1
    /\ pc = "failed" /\ ctxErr = "nil" => requests = total + attempt + 1
    /\ pc = "sleeping" => requests = total + attempt
    /\ pc # "done" => result = NoResult
    /\ AttemptsAccounted

(* What callProvider's return does to Evaluate. *)
LEMMA ProviderFailsCases ==
    ASSUME NEW n, NEW err, ProviderFails(n, err)
    PROVE  /\ total' = total + n
           /\ errs' = Append(errs, err)
           /\ \/ /\ err.sentinel \in ContextErrors
                 /\ pc' = "done" /\ provider' = provider
                 /\ result' = Failure({err.sentinel})
              \/ /\ err.sentinel \notin ContextErrors
                 /\ provider = NProviders \/ ~shouldFallback(err)
                 /\ pc' = "done" /\ provider' = provider
                 /\ result' = Failure({errs'[j].sentinel : j \in DOMAIN errs'})
              \/ /\ err.sentinel \notin ContextErrors
                 /\ provider # NProviders /\ shouldFallback(err)
                 /\ pc' = "provider" /\ provider' = provider + 1
                 /\ result' = result
BY DEF ProviderFails, Return

LEMMA FailureKind == \A m : Failure(m).kind = "error" /\ Failure(m).matches = m
BY DEF Failure

(* A provider given up on leaves the count exact, if its attempts are. *)
LEMMA ProviderFailsCounts ==
    ASSUME TypeOK, AttemptInv, pc # "done", NEW n \in Int, NEW err \in Errors, ProviderFails(n, err),
           requests' = requests, err.sentinel \in ContextErrors \/ requests = total + n
    PROVE  AttemptInv'
<1>1. pc' \in {"done", "provider"} /\ total' = total + n
  BY ProviderFailsCases
<1>2. pc' = "done" => result'.kind = "error"
  BY ProviderFailsCases, FailureKind
<1>3. pc' = "provider" => err.sentinel \notin ContextErrors /\ result' = NoResult
  BY ProviderFailsCases DEF AttemptInv
<1> QED BY <1>1, <1>2, <1>3 DEF AttemptInv, AttemptsAccounted, NoResult

LEMMA BeginAttemptCounts ==
    ASSUME TypeOK, AttemptInv, NEW n \in Nat, BeginAttempt(n), pc # "done",
           n < MaxAttempts, requests = total + n, total' = total, result' = result,
           ctxErr' = ctxErr
    PROVE  AttemptInv'
<1>1. CASE ctxErr = "nil"
  BY <1>1 DEF BeginAttempt, AttemptInv, AttemptsAccounted, NoResult, TypeOK
<1>2. CASE ctxErr # "nil"
  BY <1>2 DEF BeginAttempt, AttemptInv, AttemptsAccounted, NoResult, TypeOK
<1> QED BY <1>1, <1>2

LEMMA AttemptStep == TypeOK /\ AttemptInv /\ [Next]_vars => AttemptInv'
<1> SUFFICES ASSUME TypeOK, AttemptInv, [Next]_vars PROVE AttemptInv'
  OBVIOUS
<1> USE DEF vars, client, world
<1>1. /\ attempt \in Nat /\ attempt + 1 \in Int /\ total \in Int /\ requests \in Nat
      /\ lastErr \in Errors
      /\ ctxErr # "nil" => ctxErr \in ContextErrors
  BY DEF TypeOK
<1>2. CASE AlreadyCancelled \/ FailsValidation
  BY <1>2, FailureKind
     DEF AlreadyCancelled, FailsValidation, Return, AttemptInv, AttemptsAccounted
<1>3. CASE BeginEvaluate
  BY <1>3 DEF BeginEvaluate, AttemptInv, AttemptsAccounted
<1>4. CASE EndpointInvalid
  <2>1. APIError("ErrTransport", 0) \in Errors
    BY APIErrorType DEF Sentinels
  <2>2. ProviderFails(0, APIError("ErrTransport", 0)) /\ requests' = requests /\ requests = total + 0
    BY <1>1, <1>4 DEF EndpointInvalid, AttemptInv
  <2> QED BY <1>4, <2>1, <2>2, ProviderFailsCounts DEF EndpointInvalid
<1>5. CASE BeginProvider
  <2>1. CASE MaxAttempts > 0
    <3>1. BeginAttempt(0) /\ 0 < MaxAttempts /\ requests = total + 0
      BY <1>1, <1>5, <2>1 DEF BeginProvider, AttemptInv
    <3> QED BY <1>5, <3>1, BeginAttemptCounts DEF BeginProvider
  <2>2. CASE ~(MaxAttempts > 0)
    BY <1>5, <2>2 DEF BeginProvider, AttemptInv, AttemptsAccounted
  <2> QED BY <2>1, <2>2
<1>6. CASE AttemptEnds \/ AnswerRejected \/ ConnectionFails
  <2>1. PICK o, e : AttemptFails(o, e) /\ pc = "requesting"
    BY <1>6 DEF AttemptEnds, AnswerRejected, ConnectionFails
  <2> QED BY <2>1 DEF AttemptFails, AttemptInv, AttemptsAccounted
<1>7. CASE StopsRetrying
  <2>1. ContextError(ctxErr) \in Errors /\ ContextError(ctxErr).sentinel \in ContextErrors
    BY <1>1, <1>7, ContextErrorType DEF StopsRetrying
  <2> QED BY <1>1, <1>7, <2>1, ProviderFailsCounts DEF StopsRetrying
<1>8. CASE NotRetryable
  <2>1. requests = total + (attempt + 1)
    BY <1>1, <1>8 DEF NotRetryable, AttemptInv
  <2> QED BY <1>1, <1>8, <2>1, ProviderFailsCounts DEF NotRetryable
<1>9. CASE BacksOff
  BY <1>1, <1>9, MaxAttemptsInt DEF BacksOff, AttemptInv, AttemptsAccounted
<1>10. CASE Exhausted
  <2>1. exhaustedAttempts = attempt + 1
    BY <1>1, <1>10, MaxAttemptsInt DEF Exhausted, AttemptInv, exhaustedAttempts
  <2>2. requests = total + exhaustedAttempts
    BY <1>1, <1>10, <2>1 DEF Exhausted, AttemptInv
  <2> QED BY <1>1, <1>10, <2>1, <2>2, ProviderFailsCounts DEF Exhausted
<1>11. CASE Wakes
  <2>1. attempt < MaxAttempts /\ requests = total + attempt
    BY <1>11 DEF Wakes, AttemptInv
  <2> QED BY <1>1, <1>11, <2>1, BeginAttemptCounts DEF Wakes
<1>12. CASE SleepCutShort
  <2>1. ContextError(ctxErr) \in Errors /\ ContextError(ctxErr).sentinel \in ContextErrors
    BY <1>1, <1>12, ContextErrorType DEF SleepCutShort
  <2> QED BY <1>1, <1>12, <2>1, ProviderFailsCounts DEF SleepCutShort
<1>13. CASE AnswerAccepted
  <2>1. requests' = requests /\ total' = requests /\ pc' = "done" /\ result'.attempts = total'
    BY <1>1, <1>13 DEF AnswerAccepted, Return, AttemptInv
  <2> QED BY <2>1 DEF AttemptInv, AttemptsAccounted
<1>14. CASE Cancel \/ Expire \/ Tick
  BY <1>14 DEF Cancel, Expire, Tick, AttemptInv, AttemptsAccounted
<1>15. CASE UNCHANGED vars
  BY <1>15 DEF AttemptInv, AttemptsAccounted
<1> QED BY <1>2, <1>3, <1>4, <1>5, <1>6, <1>7, <1>8, <1>9, <1>10, <1>11, <1>12, <1>13, <1>14,
           <1>15
        DEF Next, ClientStep, ServerStep

(* The attempts reported with an answer are the HTTP attempts made, over   *)
(* every provider tried, for any number of providers and retries.          *)
THEOREM AttemptsAreAccounted == Spec => []AttemptsAccounted
<1>1. Init => AttemptInv
  BY DEF Init, AttemptInv, AttemptsAccounted, NoResult
<1>2. AttemptInv => AttemptsAccounted
  BY DEF AttemptInv
<1> QED BY <1>1, <1>2, AttemptStep, TypeCorrect, PTL DEF Spec

(***************************************************************************)
(* Context errors.                                                         *)
(***************************************************************************)
(* While the call goes on, none of the errors gathered is a context error, *)
(* and an attempt that failed under a live context failed with its own.    *)
StopInv ==
    /\ ctxErr = "DeadlineExceeded" => now >= Budget
    /\ pc # "done" => result = NoResult
    /\ pc # "done" => \A j \in DOMAIN errs : errs[j].sentinel \notin ContextErrors
    /\ pc = "failed" /\ ctxErr = "nil" => lastErr.sentinel \in AttemptErrors
    /\ StopsOnlyWhenTold

LEMMA AttemptErrorsNotContext == AttemptErrors \cap ContextErrors = {}
BY DEF AttemptErrors, ContextErrors

LEMMA ProviderFailsStop ==
    ASSUME TypeOK, StopInv, pc # "done", NEW n, NEW err \in Errors, ProviderFails(n, err),
           ctxErr' = ctxErr, now' = now,
           err.sentinel \in ContextErrors => err.sentinel = ctxErr
    PROVE  StopInv'
<1>1. errs' = Append(errs, err) /\ errs \in Seq(Errors) /\ pc' \in {"done", "provider"}
  BY ProviderFailsCases DEF TypeOK
<1>2. CASE err.sentinel \in ContextErrors
  <2>1. pc' = "done" /\ result' = Failure({err.sentinel})
    BY <1>2, ProviderFailsCases
  <2>2. result'.matches = {ctxErr} /\ result'.kind = "error"
    BY <1>2, <2>1, FailureKind
  <2> QED BY <2>1, <2>2 DEF StopInv, StopsOnlyWhenTold
<1>3. CASE err.sentinel \notin ContextErrors
  <2>1. \A j \in DOMAIN errs' : errs'[j].sentinel \notin ContextErrors
    BY <1>1, <1>3 DEF StopInv
  <2>2. CASE pc' = "done"
    <3>1. result' = Failure({errs'[j].sentinel : j \in DOMAIN errs'})
      BY <1>3, <2>2, ProviderFailsCases
    <3>2. result'.matches \cap ContextErrors = {}
      BY <2>1, <3>1, FailureKind
    <3> QED BY <2>2, <3>2 DEF StopInv, StopsOnlyWhenTold
  <2>3. CASE pc' = "provider"
    <3>1. result' = NoResult
      BY <1>3, <2>3, ProviderFailsCases DEF StopInv
    <3> QED BY <2>1, <2>3, <3>1 DEF StopInv, StopsOnlyWhenTold, NoResult
  <2> QED BY <1>1, <2>2, <2>3
<1> QED BY <1>2, <1>3

LEMMA AttemptFailsStop ==
    ASSUME TypeOK, StopInv, pc = "requesting", NEW o, NEW err, AttemptFails(o, err),
           ctxErr = "nil" => err.sentinel \in AttemptErrors
    PROVE  StopInv'
BY DEF AttemptFails, StopInv, StopsOnlyWhenTold, NoResult

LEMMA StopInvStep == TypeOK /\ BudgetInv /\ StopInv /\ [Next]_vars => StopInv'
<1> SUFFICES ASSUME TypeOK, BudgetInv, StopInv, [Next]_vars PROVE StopInv'
  OBVIOUS
<1> USE DEF vars, client, world
<1>1. /\ now \in Nat /\ lastErr \in Errors
      /\ ctxErr # "nil" => ctxErr \in ContextErrors
  BY DEF TypeOK
<1>2. /\ APIError("ErrTransport", 0) \in Errors
      /\ APIError("ErrTransport", 0).sentinel = "ErrTransport"
      /\ "ErrTransport" \in AttemptErrors
  BY APIErrorType DEF Sentinels, AttemptErrors
<1>3. CASE AlreadyCancelled
  <2>1. pc' = "done" /\ result' = Failure({ctxErr}) /\ ctxErr' = ctxErr /\ now' = now
    BY <1>3 DEF AlreadyCancelled, Return
  <2> QED BY <2>1, FailureKind DEF StopInv, StopsOnlyWhenTold
<1>4. CASE FailsValidation
  <2>1. pc' = "done" /\ result' = Failure({"ErrValidation"}) /\ ctxErr' = ctxErr /\ now' = now
    BY <1>4 DEF FailsValidation, Return
  <2>2. {"ErrValidation"} \cap ContextErrors = {}
    BY DEF ContextErrors
  <2> QED BY <2>1, <2>2, FailureKind DEF StopInv, StopsOnlyWhenTold
<1>5. CASE BeginEvaluate
  BY <1>5 DEF BeginEvaluate, StopInv, StopsOnlyWhenTold
<1>6. CASE EndpointInvalid
  BY <1>2, <1>6, AttemptErrorsNotContext, ProviderFailsStop DEF EndpointInvalid
<1>7. CASE BeginProvider \/ Wakes
  BY <1>7 DEF BeginProvider, Wakes, BeginAttempt, StopInv, StopsOnlyWhenTold, NoResult
<1>8. CASE AttemptEnds \/ ConnectionFails
  <2>1. PICK o : AttemptFails(o, transportError) /\ pc = "requesting"
    BY <1>8 DEF AttemptEnds, ConnectionFails
  <2> QED BY <1>2, <2>1, TransportErrorType, AttemptFailsStop
<1>9. CASE AnswerRejected
  <2>1. PICK a \in Answers :
            pc = "requesting" /\ doRequest(a) # NoError /\ AttemptFails(a, doRequest(a))
    BY <1>9 DEF AnswerRejected
  <2> QED BY <2>1, DoRequestFacts, AttemptFailsStop
<1>10. CASE StopsRetrying \/ SleepCutShort
  <2>1. PICK n : ProviderFails(n, ContextError(ctxErr)) /\ ctxErr \in ContextErrors
    BY <1>1, <1>10 DEF StopsRetrying, SleepCutShort
  <2> QED BY <1>10, <2>1, ContextErrorType, ProviderFailsStop DEF StopsRetrying, SleepCutShort
<1>11. CASE NotRetryable \/ Exhausted
  <2>1. PICK n : ProviderFails(n, lastErr)
    BY <1>11 DEF NotRetryable, Exhausted
  <2>2. lastErr.sentinel \notin ContextErrors
    BY <1>11, AttemptErrorsNotContext DEF NotRetryable, Exhausted, StopInv
  <2> QED BY <1>1, <1>11, <2>1, <2>2, ProviderFailsStop DEF NotRetryable, Exhausted
<1>12. CASE BacksOff
  BY <1>12 DEF BacksOff, StopInv, StopsOnlyWhenTold
<1>13. CASE AnswerAccepted
  <2>1. pc' = "done" /\ result'.kind = "answer" /\ ctxErr' = ctxErr /\ now' = now
    BY <1>13 DEF AnswerAccepted, Return
  <2> QED BY <2>1 DEF StopInv, StopsOnlyWhenTold
<1>14. CASE Cancel
  BY <1>14 DEF Cancel, Running, StopInv, StopsOnlyWhenTold, NoResult
<1>15. CASE Expire
  BY <1>15 DEF Expire, BudgetSpent, Running, StopInv, StopsOnlyWhenTold, NoResult
<1>16. CASE Tick
  BY <1>1, <1>16, ClientAssumption DEF Tick, StopInv, StopsOnlyWhenTold, NoResult
<1>17. CASE UNCHANGED vars
  BY <1>17 DEF StopInv, StopsOnlyWhenTold
<1> QED BY <1>3, <1>4, <1>5, <1>6, <1>7, <1>8, <1>9, <1>10, <1>11, <1>12, <1>13, <1>14, <1>15,
           <1>16, <1>17
        DEF Next, ClientStep, ServerStep

(* A context error is returned alone and only for a context that ended; a  *)
(* hung attempt never passes for a spent budget.                           *)
THEOREM StopsOnlyIfTold == Spec => []StopsOnlyWhenTold
<1>1. Init => StopInv
  BY DEF Init, StopInv, StopsOnlyWhenTold, NoResult
<1>2. Init => BudgetInv
  BY ClientAssumption DEF Init, BudgetInv
<1>3. StopInv => StopsOnlyWhenTold
  BY DEF StopInv
<1> QED BY <1>1, <1>2, <1>3, BudgetStep, StopInvStep, TypeCorrect, PTL DEF Spec

LEMMA NotHiddenStep == TypeOK /\ StopInv /\ StopNotHidden /\ [Next]_vars => StopNotHidden'
<1> SUFFICES ASSUME TypeOK, StopInv, StopNotHidden, [Next]_vars PROVE StopNotHidden'
  OBVIOUS
<1> USE DEF StopNotHidden, vars, client, world
<1>1. CASE AlreadyCancelled
  BY <1>1, FailureKind DEF AlreadyCancelled, Return
<1>2. CASE FailsValidation
  BY <1>2 DEF FailsValidation
<1>3. CASE EndpointInvalid
  <2>1. pc' = "done" => provider' = provider
    BY <1>3, ProviderFailsCases DEF EndpointInvalid
  <2>2. pc' # "done" => result' = result /\ result = NoResult
    BY <1>3, ProviderFailsCases DEF EndpointInvalid, StopInv
  <2> QED BY <1>3, <2>1, <2>2 DEF EndpointInvalid, NoResult
<1>4. CASE StopsRetrying \/ SleepCutShort
  <2>1. /\ ctxErr' = ctxErr /\ ctxErr \in ContextErrors
        /\ \E n : ProviderFails(n, ContextError(ctxErr))
    BY <1>4 DEF StopsRetrying, SleepCutShort, TypeOK
  <2>2. result' = Failure({ctxErr})
    BY <2>1, ContextErrorType, ProviderFailsCases
  <2> QED BY <2>1, <2>2, FailureKind
<1>5. CASE NotRetryable \/ Exhausted
  BY <1>5 DEF NotRetryable, Exhausted
<1>6. CASE AnswerAccepted
  BY <1>6 DEF AnswerAccepted, Return
<1>7. CASE Cancel \/ Expire
  BY <1>7 DEF Cancel, Expire, BudgetSpent, Running, StopInv, NoResult
<1>8. CASE ~(\/ AlreadyCancelled \/ FailsValidation \/ EndpointInvalid \/ StopsRetrying
             \/ SleepCutShort \/ NotRetryable \/ Exhausted \/ AnswerAccepted
             \/ Cancel \/ Expire)
  <2>1. result' = result /\ ctxErr' = ctxErr /\ provider' = provider
    BY <1>8 DEF Next, ClientStep, ServerStep, BeginEvaluate, BeginProvider, BeginAttempt,
       AttemptEnds, AttemptFails, BacksOff, Wakes, AnswerRejected, ConnectionFails, Tick
  <2> QED BY <2>1
<1> QED BY <1>1, <1>2, <1>3, <1>4, <1>5, <1>6, <1>7, <1>8

(* No failure hides a cancellation or a spent budget: once the context has *)
(* ended, a call fails with the context's error or not at all, but for a   *)
(* base URL that does not join (Evaluate, callProvider's look at ctx.Err   *)
(* before anything else).                                                  *)
THEOREM StopIsNotHidden == Spec => []StopNotHidden
<1>1. Init => StopInv /\ StopNotHidden
  BY DEF Init, StopInv, StopsOnlyWhenTold, StopNotHidden, NoResult
<1>2. Init => BudgetInv
  BY ClientAssumption DEF Init, BudgetInv
<1> QED BY <1>1, <1>2, BudgetStep, StopInvStep, NotHiddenStep, TypeCorrect, PTL DEF Spec

(***************************************************************************)
(* Fallback and backoff.                                                   *)
(***************************************************************************)
(* The attempts with the provider being called are those of the loop, and  *)
(* its lastErr says of the last answer what the documentation says of it.  *)
FallbackInv ==
    /\ pc \in {"requesting", "failed", "sleeping"} => attempt < MaxAttempts
    /\ pc \in {"entry", "provider"} => sent[provider] = 0
    /\ pc = "requesting" => sent[provider] = attempt + 1
    /\ pc = "sleeping" => sent[provider] = attempt /\ attempt > 0
    /\ pc = "failed" /\ ctxErr = "nil" =>
        /\ sent[provider] = attempt + 1
        /\ isRetryable(lastErr) <=> Transient(said[provider])
        /\ lastErr.sentinel = "ErrUnauthorized" <=> KeyRejected(said[provider])
        /\ lastErr.retryAfter = Asked(said[provider])
    /\ FallbackJustified

LEMMA ProviderFailsFallback ==
    ASSUME TypeOK, FallbackInv, NEW n, NEW err, ProviderFails(n, err),
           sent' = sent, said' = said,
           err.sentinel \notin ContextErrors /\ shouldFallback(err) =>
              \/ provider \in BadEndpoints /\ sent[provider] = 0
              \/ sent[provider] > 0 /\ KeyRejected(said[provider])
              \/ sent[provider] = MaxRetries + 1 /\ Transient(said[provider])
    PROVE  FallbackInv'
<1>1. CASE pc' = "done" /\ provider' = provider
  BY <1>1 DEF FallbackInv, FallbackJustified
<1>2. CASE pc' = "provider" /\ provider' = provider + 1
  <2>1. err.sentinel \notin ContextErrors /\ shouldFallback(err) /\ provider # NProviders
    BY <1>2, ProviderFailsCases DEF TypeOK, Providers
  <2>2. provider \in 1..NProviders /\ provider + 1 \in Providers
    BY <2>1, ClientAssumption DEF TypeOK, Providers
  <2>3. sent[provider + 1] = 0
    BY <2>2 DEF FallbackInv, FallbackJustified, Providers
  <2>4. \A q \in Providers : q < provider + 1 => q < provider \/ q = provider
    BY <2>2 DEF Providers
  <2>5. \A q \in Providers : q > provider + 1 => q > provider
    BY <2>2 DEF Providers
  <2>6. FallbackJustified'
    BY <1>2, <2>1, <2>4, <2>5 DEF FallbackInv, FallbackJustified
  <2> QED BY <1>2, <2>3, <2>6 DEF FallbackInv
<1> QED BY <1>1, <1>2, ProviderFailsCases

LEMMA BeginAttemptFallback ==
    ASSUME TypeOK, FallbackInv, NEW n \in Nat, BeginAttempt(n), n < MaxAttempts,
           sent[provider] = n, provider' = provider, said' = said, ctxErr' = ctxErr
    PROVE  FallbackInv'
<1>1. n + 1 <= MaxRetries + 1
  BY MaxAttemptsInt, ClientAssumption
<1>2. CASE ctxErr = "nil"
  <2>1. /\ sent' = [sent EXCEPT ![provider] = @ + 1] /\ pc' = "requesting" /\ attempt' = n
        /\ provider \in Providers /\ sent \in [Providers -> Nat]
    BY <1>2 DEF BeginAttempt, TypeOK
  <2>2. sent'[provider] = n + 1 /\ \A q \in Providers : q # provider => sent'[q] = sent[q]
    BY <2>1
  <2>3. \A q \in Providers : (q < provider => q # provider) /\ (q > provider => q # provider)
    BY <2>1 DEF Providers
  <2>4. FallbackJustified'
    BY <1>1, <2>2, <2>3 DEF FallbackInv, FallbackJustified
  <2> QED BY <2>1, <2>2, <2>4 DEF FallbackInv
<1>3. CASE ctxErr # "nil"
  BY <1>3 DEF BeginAttempt, FallbackInv, FallbackJustified
<1> QED BY <1>2, <1>3

LEMMA AttemptFailsFallback ==
    ASSUME TypeOK, FallbackInv, pc = "requesting", NEW o \in Outcomes, NEW err, AttemptFails(o, err),
           ctxErr = "nil" =>
               /\ isRetryable(err) <=> Transient(o)
               /\ err.sentinel = "ErrUnauthorized" <=> KeyRejected(o)
               /\ err.retryAfter = Asked(o)
    PROVE  FallbackInv'
<1>1. /\ said' = [said EXCEPT ![provider] = o] /\ said \in [Providers -> Outcomes]
      /\ provider \in Providers
  BY DEF AttemptFails, TypeOK
<1>2. said'[provider] = o /\ \A q \in Providers : q # provider => said'[q] = said[q]
  BY <1>1
<1>3. \A q \in Providers : q < provider => q # provider
  BY <1>1 DEF Providers
<1>4. FallbackJustified'
  BY <1>2, <1>3 DEF AttemptFails, FallbackInv, FallbackJustified
<1> QED BY <1>2, <1>4 DEF AttemptFails, FallbackInv

LEMMA FallbackStep == TypeOK /\ FallbackInv /\ [Next]_vars => FallbackInv'
<1> SUFFICES ASSUME TypeOK, FallbackInv, [Next]_vars PROVE FallbackInv'
  OBVIOUS
<1> USE DEF vars, client, world
<1>1. /\ attempt \in Nat /\ provider \in Providers
      /\ ctxErr # "nil" => ctxErr \in ContextErrors
  BY DEF TypeOK
<1>2. CASE AlreadyCancelled \/ FailsValidation \/ BeginEvaluate
  BY <1>2 DEF AlreadyCancelled, FailsValidation, BeginEvaluate, Return, FallbackInv, FallbackJustified
<1>3. CASE EndpointInvalid
  BY <1>3, ProviderFailsFallback DEF EndpointInvalid, FallbackInv
<1>4. CASE BeginProvider
  <2>1. CASE MaxAttempts > 0
    BY <1>4, <2>1, BeginAttemptFallback DEF BeginProvider, FallbackInv
  <2>2. CASE ~(MaxAttempts > 0)
    BY <1>4, <2>2 DEF BeginProvider, FallbackInv, FallbackJustified
  <2> QED BY <2>1, <2>2
<1>5. CASE AttemptEnds \/ ConnectionFails
  <2>1. PICK o \in {TimedOut, Silent, Refused} :
            /\ pc = "requesting" /\ AttemptFails(o, transportError)
            /\ ctxErr = "nil" => o # Silent
    BY <1>5 DEF AttemptEnds, ConnectionFails, TimedOut, Silent, Refused
  <2>2. /\ o \in Outcomes /\ Asked(o) = 0 /\ ~KeyRejected(o)
        /\ ctxErr = "nil" => Transient(o)
    BY <2>1 DEF TimedOut, Silent, Refused, Outcomes, Asked, KeyRejected, Transient
  <2>3. ctxErr = "nil" => transportError.sentinel = "ErrTransport" /\ transportError.retryAfter = 0
    BY TransportErrorType, APIErrorType DEF Sentinels
  <2> QED BY <2>1, <2>2, <2>3, AttemptFailsFallback DEF isRetryable
<1>6. CASE AnswerRejected
  <2>1. PICK a \in Answers :
            pc = "requesting" /\ doRequest(a) # NoError /\ AttemptFails(a, doRequest(a))
    BY <1>6 DEF AnswerRejected
  <2> QED BY <2>1, DoRequestFacts, AttemptFailsFallback
<1>7. CASE StopsRetrying \/ SleepCutShort
  <2>1. PICK n : ProviderFails(n, ContextError(ctxErr)) /\ ctxErr \in ContextErrors
    BY <1>1, <1>7 DEF StopsRetrying, SleepCutShort
  <2> QED BY <1>7, <2>1, ContextErrorType, ProviderFailsFallback DEF StopsRetrying, SleepCutShort
<1>8. CASE NotRetryable
  <2>1. shouldFallback(lastErr) => sent[provider] > 0 /\ KeyRejected(said[provider])
    BY <1>1, <1>8 DEF NotRetryable, shouldFallback, FallbackInv
  <2> QED BY <1>8, <2>1, ProviderFailsFallback DEF NotRetryable
<1>9. CASE Exhausted
  <2>1. sent[provider] = MaxRetries + 1 /\ Transient(said[provider])
    BY <1>1, <1>9, MaxAttemptsInt, ClientAssumption DEF Exhausted, FallbackInv
  <2> QED BY <1>9, <2>1, ProviderFailsFallback DEF Exhausted
<1>10. CASE BacksOff
  BY <1>1, <1>10, MaxAttemptsInt DEF BacksOff, FallbackInv, FallbackJustified
<1>11. CASE Wakes
  BY <1>1, <1>11, BeginAttemptFallback DEF Wakes, FallbackInv
<1>12. CASE AnswerAccepted
  <2>1. PICK a : said' = [said EXCEPT ![provider] = a]
    BY <1>12 DEF AnswerAccepted
  <2>2. \A q \in Providers : q < provider => said'[q] = said[q]
    BY <1>1, <2>1 DEF TypeOK, Providers
  <2> QED BY <1>12, <2>2 DEF AnswerAccepted, Return, FallbackInv, FallbackJustified
<1>13. CASE Cancel \/ Expire \/ Tick
  BY <1>13 DEF Cancel, Expire, Tick, FallbackInv, FallbackJustified
<1>14. CASE UNCHANGED vars
  BY <1>14 DEF FallbackInv, FallbackJustified
<1> QED BY <1>2, <1>3, <1>4, <1>5, <1>6, <1>7, <1>8, <1>9, <1>10, <1>11, <1>12, <1>13, <1>14
        DEF Next, ClientStep, ServerStep

LEMMA FallbackInit == Init => FallbackInv
<1> SUFFICES ASSUME Init PROVE FallbackInv
  OBVIOUS
<1>1. 1 \in Providers /\ \A q \in Providers : sent[q] = 0 /\ 0 <= MaxRetries + 1
  BY ClientAssumption DEF Init, Providers
<1>2. \A q \in Providers : ~(q < 1)
  BY DEF Providers
<1> QED BY <1>1, <1>2 DEF Init, FallbackInv, FallbackJustified

(* A provider is left for the next one only with a documented reason and   *)
(* only after every attempt the policy allows, for any number of either.   *)
THEOREM FallbackIsJustified == Spec => []FallbackJustified
<1>1. FallbackInv => FallbackJustified
  BY DEF FallbackInv
<1> QED BY <1>1, FallbackInit, FallbackStep, TypeCorrect, PTL DEF Spec

(* A sleep ends its length after the failure it follows, and its length is *)
(* one the policy allows for that retry and that failure.                  *)
BackoffInv ==
    /\ pc = "entry" => now = 0 /\ failedAt = 0
    /\ pc = "provider" => now = failedAt
    /\ pc = "failed" /\ ctxErr = "nil" => now = failedAt
    /\ pc = "sleeping" =>
        /\ timer = failedAt + sleep /\ now <= timer
        /\ sleep \in delay(attempt - 1, Asked(said[provider]))

LEMMA BackoffStep == TypeOK /\ FallbackInv /\ BackoffInv /\ [Next]_vars => BackoffInv'
<1> SUFFICES ASSUME TypeOK, FallbackInv, BackoffInv, [Next]_vars PROVE BackoffInv'
  OBVIOUS
<1> USE DEF BackoffInv, vars, client, world
<1>1. now \in Nat /\ timer \in Nat /\ failedAt \in Nat /\ attempt \in Nat
  BY DEF TypeOK
<1>2. CASE AlreadyCancelled \/ FailsValidation \/ BeginEvaluate
  BY <1>2 DEF AlreadyCancelled, FailsValidation, BeginEvaluate, Return
<1>3. CASE EndpointInvalid
  <2>1. pc' \in {"done", "provider"}
    BY <1>3, ProviderFailsCases DEF EndpointInvalid
  <2> QED BY <1>3, <2>1 DEF EndpointInvalid
<1>4. CASE BeginProvider \/ Wakes
  <2>1. pc' \in {"requesting", "panicked"} \/ (pc' = "failed" /\ ctxErr' # "nil")
    BY <1>4 DEF BeginProvider, Wakes, BeginAttempt
  <2> QED BY <2>1
<1>5. CASE AttemptEnds \/ AnswerRejected \/ ConnectionFails
  <2>1. pc' = "failed" /\ failedAt' = now /\ now' = now
    BY <1>5 DEF AttemptEnds, AnswerRejected, ConnectionFails, AttemptFails
  <2> QED BY <2>1
<1>6. CASE StopsRetrying \/ SleepCutShort
  <2>1. ctxErr \in ContextErrors
    BY <1>6 DEF StopsRetrying, SleepCutShort, TypeOK
  <2>2. PICK n : ProviderFails(n, ContextError(ctxErr))
    BY <1>6 DEF StopsRetrying, SleepCutShort
  <2>3. pc' = "done"
    BY <2>1, <2>2, ContextErrorType, ProviderFailsCases
  <2> QED BY <2>3
<1>7. CASE NotRetryable \/ Exhausted
  <2>1. PICK n : ProviderFails(n, lastErr)
    BY <1>7 DEF NotRetryable, Exhausted
  <2>2. pc' \in {"done", "provider"}
    BY <2>1, ProviderFailsCases
  <2>3. now = failedAt /\ now' = now /\ failedAt' = failedAt
    BY <1>7 DEF NotRetryable, Exhausted
  <2> QED BY <2>2, <2>3
<1>8. CASE BacksOff
  <2>1. now = failedAt /\ lastErr.retryAfter = Asked(said[provider])
    BY <1>8 DEF BacksOff, FallbackInv
  <2>2. retryAfter' = Asked(said[provider])
    BY <1>8, <2>1 DEF BacksOff, nextRetryAfter, apiErrorRetryAfter
  <2>3. PICK d \in delay(attempt, retryAfter') : sleep' = d /\ timer' = now + d
    BY <1>8 DEF BacksOff
  <2>4. retryAfter' \in Nat
    BY TypeStep DEF TypeOK
  <2>5. d \in Nat
    BY <1>1, <2>3, <2>4, DelayNatural, PolicyAssumption
  <2>6. attempt' - 1 = attempt
    BY <1>1, <1>8 DEF BacksOff
  <2>7. sleep' \in delay(attempt' - 1, Asked(said[provider]))
    BY <2>2, <2>3, <2>6
  <2> QED BY <1>1, <1>8, <2>1, <2>3, <2>5, <2>7 DEF BacksOff
<1>9. CASE AnswerAccepted
  BY <1>9 DEF AnswerAccepted, Return
<1>10. CASE Cancel \/ Expire
  BY <1>10 DEF Cancel, Expire, ContextErrors
<1>11. CASE Tick
  <2>1. pc \in {"requesting", "sleeping"} /\ pc' = pc
    BY <1>11 DEF Tick
  <2>2. pc = "sleeping" => now + 1 <= timer
    BY <1>1, <1>11 DEF Tick, SleepOver
  <2> QED BY <1>11, <2>1, <2>2 DEF Tick
<1>12. CASE UNCHANGED vars
  BY <1>12
<1> QED BY <1>2, <1>3, <1>4, <1>5, <1>6, <1>7, <1>8, <1>9, <1>10, <1>11, <1>12
        DEF Next, ClientStep, ServerStep

(* The only steps that send are a provider's first attempt and the end of  *)
(* a sleep.                                                                *)
LEMMA SendStep ==
    ASSUME TypeOK, FallbackInv, BackoffInv, [Next]_vars,
           NEW q \in Providers, sent'[q] # sent[q]
    PROVE  IF sent[q] = 0 THEN now = failedAt
           ELSE now - failedAt \in delay(sent[q] - 1, Asked(said[q]))
<1> USE DEF vars, client, world
<1>1. BeginProvider \/ Wakes
  BY DEF Next, ClientStep, ServerStep, AlreadyCancelled, FailsValidation,
     BeginEvaluate, EndpointInvalid, AttemptEnds, AttemptFails, StopsRetrying, NotRetryable,
     BacksOff, Exhausted, SleepCutShort, AnswerAccepted, AnswerRejected, ConnectionFails,
     Cancel, Expire, Tick
<1>2. q = provider
  BY <1>1 DEF BeginProvider, Wakes, BeginAttempt, TypeOK
<1>3. CASE BeginProvider
  BY <1>2, <1>3 DEF BeginProvider, FallbackInv, BackoffInv
<1>4. CASE Wakes
  <2>1. sent[q] = attempt /\ attempt > 0 /\ attempt \in Nat
    BY <1>2, <1>4 DEF Wakes, FallbackInv, TypeOK
  <2>2. now = timer /\ timer = failedAt + sleep
    BY <1>4 DEF Wakes, BackoffInv, TypeOK
  <2>3. now - failedAt = sleep
    BY <2>2 DEF TypeOK
  <2> QED BY <1>2, <1>4, <2>1, <2>3 DEF Wakes, BackoffInv
<1> QED BY <1>1, <1>3, <1>4

(* Every retry starts exactly one permitted wait after the failure before  *)
(* it, the server's if that failure carried one; first attempts wait for   *)
(* nothing.  No wait is inherited from an earlier failure or provider.     *)
THEOREM BackoffIsHonoured == Spec => BackoffHonoured
<1>1. Init => BackoffInv
  BY DEF Init, BackoffInv
<1>2. TypeOK /\ FallbackInv /\ BackoffInv /\ [Next]_vars =>
        [\A q \in Providers : sent'[q] # sent[q] =>
            IF sent[q] = 0 THEN now = failedAt
            ELSE now - failedAt \in delay(sent[q] - 1, Asked(said[q]))]_vars
  BY SendStep
<1> QED BY <1>1, <1>2, FallbackInit, FallbackStep, BackoffStep, TypeCorrect, PTL
        DEF Spec, BackoffHonoured

-----------------------------------------------------------------------------
(* An accepted answer is not a documented failure. *)
LEMMA AcceptedIsNoFailure ==
    ASSUME NEW a \in Answers, doRequest(a) = NoError
    PROVE  ~Transient(a) /\ ~KeyRejected(a)
<1>1. a.by = "answer" /\ a.status \in Nat
  BY ClientAssumption DEF Answers
<1>2. NoError.sentinel = "nil" /\ "nil" \notin AttemptErrors
  BY DEF NoError, AttemptErrors
<1>3. AttemptErrors \subseteq Sentinels
  BY DEF AttemptErrors, Sentinels
<1>4. a.body # "broken"
  <2>1. a.body = "broken" => doRequest(a).sentinel = "ErrTransport"
    BY APIErrorType DEF doRequest, Sentinels
  <2> QED BY <1>2, <2>1
<1>5. a.status = 200
  <2> SUFFICES ASSUME a.status # 200 PROVE FALSE
    OBVIOUS
  <2>1. doRequest(a) = APIError(statusSentinel(a.status), a.retryAfter)
    BY <1>4 DEF doRequest
  <2>2. doRequest(a).sentinel \in AttemptErrors
    BY <1>1, <2>1, StatusSentinelType DEF APIError
  <2> QED BY <1>2, <2>2
<1> QED BY <1>1, <1>4, <1>5 DEF Transient, KeyRejected

(* Where the call is given up without its context ending, the provider it  *)
(* stops at is the last, or had not failed in a documented way.            *)
TriedInv ==
    pc = "done" /\ ctxErr = "nil" /\ provider < NProviders /\ sent[provider] > 0 =>
        ~Transient(said[provider]) /\ ~KeyRejected(said[provider])

LEMMA TriedStep == TypeOK /\ FallbackInv /\ TriedInv /\ [Next]_vars => TriedInv'
<1> SUFFICES ASSUME TypeOK, FallbackInv, TriedInv, [Next]_vars PROVE TriedInv'
  OBVIOUS
<1> USE DEF vars, client, world
<1>1. CASE AlreadyCancelled \/ BeginEvaluate
  BY <1>1 DEF AlreadyCancelled, BeginEvaluate, TriedInv
<1>2. CASE FailsValidation
  BY <1>2 DEF FailsValidation, FallbackInv, TriedInv
<1>3. CASE EndpointInvalid
  <2>1. pc = "provider" /\ UNCHANGED <<sent, said>>
    BY <1>3 DEF EndpointInvalid
  <2>2. pc' = "done" => provider' = provider
    BY <1>3, ProviderFailsCases DEF EndpointInvalid
  <2> QED BY <2>1, <2>2 DEF FallbackInv, TriedInv
<1>4. CASE BeginProvider \/ Wakes
  BY <1>4 DEF BeginProvider, Wakes, BeginAttempt, TriedInv
<1>5. CASE AttemptEnds \/ AnswerRejected \/ ConnectionFails
  BY <1>5 DEF AttemptEnds, AnswerRejected, ConnectionFails, AttemptFails, TriedInv
<1>6. CASE AnswerAccepted
  <2>1. PICK a \in Answers : doRequest(a) = NoError /\ said' = [said EXCEPT ![provider] = a]
    BY <1>6 DEF AnswerAccepted
  <2>2. provider' = provider /\ said'[provider] = a
    BY <1>6, <2>1 DEF AnswerAccepted, TypeOK
  <2> QED BY <2>1, <2>2, AcceptedIsNoFailure DEF TriedInv
<1>7. CASE StopsRetrying \/ SleepCutShort
  BY <1>7 DEF StopsRetrying, SleepCutShort, TriedInv
<1>8. CASE NotRetryable \/ Exhausted
  <2>1. PICK n : ProviderFails(n, lastErr)
    BY <1>8 DEF NotRetryable, Exhausted
  <2>2. pc = "failed" /\ ctxErr = "nil" /\ UNCHANGED <<sent, said>>
    BY <1>8 DEF NotRetryable, Exhausted
  <2>3. pc' = "done" => provider' = provider
    BY <2>1, ProviderFailsCases
  <2>4. CASE shouldFallback(lastErr)
    <3>1. lastErr.sentinel \notin ContextErrors
      BY <2>4 DEF shouldFallback, isRetryable, ContextErrors
    <3>2. pc' = "done" => provider = NProviders
      BY <2>1, <2>4, <3>1, ProviderFailsCases
    <3> QED BY <2>3, <3>2, ClientAssumption DEF TriedInv
  <2>5. CASE ~shouldFallback(lastErr)
    <3>1. ~Transient(said[provider]) /\ ~KeyRejected(said[provider])
      BY <2>2, <2>5 DEF shouldFallback, FallbackInv
    <3> QED BY <2>2, <2>3, <3>1 DEF TriedInv
  <2> QED BY <2>4, <2>5
<1>9. CASE BacksOff
  BY <1>9 DEF BacksOff, TriedInv
<1>10. CASE Cancel \/ Expire \/ Tick
  BY <1>10 DEF Cancel, Expire, Tick, Running, TriedInv
<1>11. CASE UNCHANGED vars
  BY <1>11 DEF TriedInv
<1> QED BY <1>1, <1>2, <1>3, <1>4, <1>5, <1>6, <1>7, <1>8, <1>9, <1>10, <1>11
        DEF Next, ClientStep, ServerStep

(* No call is given up, with its context still alive, while a provider     *)
(* that has not been tried could follow one that failed transiently or     *)
(* rejected its key (shouldFallback, Evaluate's loop).                     *)
THEOREM FallbackIsTried == Spec => []FallbackTried
<1>1. Init => TriedInv
  BY DEF Init, TriedInv
<1>2. TypeOK /\ FallbackInv /\ TriedInv => FallbackTried
  <2> SUFFICES ASSUME TypeOK, FallbackInv, TriedInv, pc = "done", ctxErr = "nil",
                      NEW q \in Providers, q < NProviders, sent[q] > 0,
                      Transient(said[q]) \/ KeyRejected(said[q])
               PROVE  provider > q
    BY DEF FallbackTried
  <2>1. ~(q > provider)
    BY DEF FallbackInv, FallbackJustified
  <2>2. q # provider
    BY DEF TriedInv
  <2> QED BY <2>1, <2>2, ClientAssumption DEF TypeOK, Providers
<1> QED BY <1>1, <1>2, TriedStep, FallbackInit, FallbackStep, TypeCorrect, PTL DEF Spec

(***************************************************************************)
(* The contract: the client's steps are the contract's, or no step of it.  *)
(***************************************************************************)
(* The providers given up on are the ones before the current one, and none *)
(* is given up on before the loop begins.                                  *)
ContractInv ==
    /\ pc # "done" => Len(errs) = provider - 1
    /\ pc = "entry" => errs = <<>>

LEMMA AppendsError ==
    ASSUME NEW s \in Seq(Errors), NEW e \in Errors
    PROVE  Append(s, e) \in Seq(Errors) /\ Len(Append(s, e)) = Len(s) + 1
OBVIOUS

LEMMA ContractStep == TypeOK /\ ContractInv /\ [Next]_vars => ContractInv'
<1> SUFFICES ASSUME TypeOK, ContractInv, [Next]_vars PROVE ContractInv'
  OBVIOUS
<1> USE DEF ContractInv, vars, client, world
<1>1. /\ errs \in Seq(Errors) /\ lastErr \in Errors /\ provider \in Int
      /\ ctxErr # "nil" => ContextError(ctxErr) \in Errors
  BY ContextErrorType DEF TypeOK, Providers
<1>2. ASSUME NEW n, NEW err \in Errors, ProviderFails(n, err), pc # "done" PROVE ContractInv'
  <2>1. errs' = Append(errs, err)
    BY <1>2 DEF ProviderFails
  <2>2. Len(errs') = Len(errs) + 1
    BY <1>1, <2>1, AppendsError
  <2>3. pc' = "done" \/ (pc' = "provider" /\ provider' = provider + 1)
    BY <1>2, ProviderFailsCases
  <2> QED BY <1>1, <1>2, <2>2, <2>3
<1>3. APIError("ErrTransport", 0) \in Errors
  BY APIErrorType DEF Sentinels
<1>4. CASE EndpointInvalid \/ StopsRetrying \/ NotRetryable \/ Exhausted \/ SleepCutShort
  BY <1>1, <1>2, <1>3, <1>4
     DEF EndpointInvalid, StopsRetrying, NotRetryable, Exhausted, SleepCutShort
<1>5. CASE ~(EndpointInvalid \/ StopsRetrying \/ NotRetryable \/ Exhausted \/ SleepCutShort)
  <2>1. /\ errs' = errs /\ provider' = provider
        /\ pc' = "entry" => pc = "entry"
        /\ pc' # "done" => pc # "done"
    BY <1>5 DEF Next, ClientStep, ServerStep, AlreadyCancelled, FailsValidation, BeginEvaluate,
       BeginProvider, BeginAttempt, AttemptEnds, AttemptFails, BacksOff, Wakes, AnswerAccepted,
       AnswerRejected, ConnectionFails, Cancel, Expire, Tick, Return
  <2> QED BY <2>1
<1> QED BY <1>4, <1>5

Verdicts(s) == [i \in DOMAIN s |-> s[i].sentinel]

LEMMA AppendVerdict ==
    ASSUME NEW s \in Seq(Errors), NEW e \in Errors
    PROVE  /\ Verdicts(Append(s, e)) = Append(Verdicts(s), e.sentinel)
           /\ Len(Verdicts(s)) = Len(s)
           /\ Append(s, e)[Len(Append(s, e))] = e
           /\ Append(s, e) # <<>>
           /\ Contract!Matched(Verdicts(s)) = {s[i].sentinel : i \in DOMAIN s}
<1>1. ASSUME NEW i \in 1..Len(s) PROVE s[i].sentinel \in Sentinels
  <2>1. s[i] \in Errors
    OBVIOUS
  <2> QED BY <2>1 DEF Errors
<1>2. Verdicts(s) = [i \in 1..Len(s) |-> s[i].sentinel] /\ Verdicts(s) \in Seq(Sentinels)
  BY <1>1 DEF Verdicts
<1>3. Len(Verdicts(s)) = Len(s) /\ DOMAIN Verdicts(s) = DOMAIN s
  BY <1>2
<1>4. e.sentinel \in Sentinels
  BY DEF Errors
<1>5. Len(Append(s, e)) = Len(s) + 1 /\ Append(s, e) # <<>> /\ Append(s, e)[Len(s) + 1] = e
  OBVIOUS
<1>6. Verdicts(Append(s, e)) = Append(Verdicts(s), e.sentinel)
  BY <1>2, <1>3, <1>4, <1>5 DEF Verdicts
<1>7. Contract!Matched(Verdicts(s)) = {s[i].sentinel : i \in DOMAIN s}
  BY <1>2, <1>3 DEF Contract!Matched, Verdicts
<1> QED BY <1>3, <1>5, <1>6, <1>7

(* What callProvider's return is to the caller. *)
LEMMA ProviderFailsContract ==
    ASSUME TypeOK, ContractInv, StopInv, pc # "done", NEW n, NEW err \in Errors,
           ProviderFails(n, err), err.sentinel \in ContextErrors \cup AttemptErrors
    PROVE  Contract!Stop \/ Contract!Fail \/ Contract!MoveOn
<1> DEFINE v == Verdicts(errs)
<1>1. /\ errs' = Append(errs, err) /\ errs \in Seq(Errors) /\ errs' \in Seq(Errors)
      /\ provider \in 1..NProviders /\ NProviders \in Nat
      /\ Len(errs) = provider - 1 /\ result = NoResult
  <2>1. errs \in Seq(Errors) /\ errs' = Append(errs, err)
    BY ProviderFailsCases DEF TypeOK
  <2>2. provider \in 1..NProviders /\ Len(errs) = provider - 1 /\ result = NoResult
    BY DEF TypeOK, ContractInv, StopInv, Providers
  <2> QED BY <2>1, <2>2, AppendsError, ClientAssumption
<1>2. /\ Verdicts(errs') = Append(v, err.sentinel) /\ Len(v) + 1 = provider
      /\ errs'[Len(errs')] = err /\ errs' # <<>>
  BY <1>1, AppendVerdict
<1>3. Contract!Matched(Verdicts(errs')) = {errs'[i].sentinel : i \in DOMAIN errs'}
  BY <1>1, AppendVerdict
<1>4. Phase = "running" /\ result.kind # "error"
  BY <1>1 DEF Phase, NoResult
<1>5. CASE err.sentinel \in ContextErrors
  <2>1. result'.kind = "error" /\ result'.matches = {err.sentinel}
    BY <1>5, ProviderFailsCases, FailureKind
  <2>2. Phase' = "stopped"
    BY <1>2, <1>5, <2>1 DEF Phase
  <2> QED BY <1>2, <1>4, <1>5, <2>1, <2>2 DEF Contract!Stop, Verdicts, Contract!ContextErrors, ContextErrors
<1>6. CASE err.sentinel \notin ContextErrors /\ (provider = NProviders \/ ~shouldFallback(err))
  <2>1. /\ result'.kind = "error"
        /\ result'.matches = Contract!Matched(Verdicts(errs'))
    BY <1>3, <1>6, ProviderFailsCases, FailureKind
  <2>2. Phase' = "failed"
    BY <1>2, <1>6, <2>1 DEF Phase
  <2>3. /\ err.sentinel \in Contract!FallbackEligible \cup Contract!Refusals
        /\ err.sentinel \in Contract!Refusals \/ Len(v) + 1 = NProviders
    BY <1>2, <1>6 DEF shouldFallback, isRetryable, AttemptErrors, Contract!FallbackEligible,
       Contract!Retryable, Contract!Refusals
  <2> QED BY <1>2, <1>4, <2>1, <2>2, <2>3 DEF Contract!Fail, Verdicts
<1>7. CASE err.sentinel \notin ContextErrors /\ provider # NProviders /\ shouldFallback(err)
  <2>1. result' = NoResult
    BY <1>1, <1>7, ProviderFailsCases
  <2>2. Phase' = "running" /\ result'.kind # "error"
    BY <2>1 DEF Phase, NoResult
  <2>3. err.sentinel \in Contract!FallbackEligible
    BY <1>7 DEF shouldFallback, isRetryable, Contract!FallbackEligible, Contract!Retryable
  <2>4. Len(v) + 1 < NProviders
    BY <1>1, <1>2, <1>7
  <2> QED BY <1>2, <1>4, <2>2, <2>3, <2>4 DEF Contract!MoveOn, Verdicts
<1> QED BY <1>5, <1>6, <1>7

LEMMA ContractAllows ==
    TypeOK /\ ContractInv /\ StopInv /\ [Next]_vars => [Contract!Next]_(Contract!vars)
<1> SUFFICES ASSUME TypeOK, ContractInv, StopInv, [Next]_vars
             PROVE  Contract!Next \/ UNCHANGED Contract!vars
  OBVIOUS
<1> USE DEF vars, client, world
<1>1. /\ lastErr \in Errors
      /\ attempt + 1 \in Int /\ attempt \in Int /\ exhaustedAttempts \in Int
      /\ ctxErr # "nil" => /\ ContextError(ctxErr) \in Errors
                           /\ ContextError(ctxErr).sentinel \in ContextErrors
  BY ContextErrorType, MaxAttemptsInt DEF TypeOK, exhaustedAttempts
<1>2. /\ APIError("ErrTransport", 0) \in Errors
      /\ APIError("ErrTransport", 0).sentinel \in AttemptErrors
  BY APIErrorType DEF Sentinels, AttemptErrors
<1>3. CASE AlreadyCancelled \/ FailsValidation
  <2>1. PICK why \in ContextErrors \cup {"ErrValidation"} :
            pc = "entry" /\ result' = Failure({why}) /\ errs' = errs
    BY <1>3 DEF AlreadyCancelled, FailsValidation, Return, TypeOK
  <2>2. errs = <<>> /\ Phase = "running" /\ Verdicts(errs) = <<>>
    BY <2>1 DEF ContractInv, StopInv, Phase, NoResult, Verdicts
  <2>3. Phase' = "rejected" /\ result'.kind = "error" /\ result'.matches = {why}
    BY <2>1, <2>2, FailureKind DEF Phase
  <2>4. Contract!Reject
    BY <2>1, <2>2, <2>3 DEF Contract!Reject, Contract!ContextErrors, ContextErrors, Verdicts
  <2> QED BY <2>4 DEF Contract!Next
<1>4. CASE AnswerAccepted
  <2>1. pc # "done" /\ errs' = errs /\ result'.kind = "answer"
    BY <1>4 DEF AnswerAccepted, Return
  <2>2. Phase = "running" /\ Phase' = "answered" /\ result.kind # "error"
    BY <2>1 DEF StopInv, Phase, NoResult
  <2>3. Len(errs) < NProviders /\ errs \in Seq(Errors)
    BY <2>1, ClientAssumption DEF ContractInv, TypeOK, Providers
  <2>4. Len(Verdicts(errs)) < NProviders
    BY <1>1, <2>3, AppendVerdict
  <2>5. Contract!Answer
    BY <2>1, <2>2, <2>4 DEF Contract!Answer, Verdicts
  <2> QED BY <2>5 DEF Contract!Next
<1>5. CASE EndpointInvalid \/ StopsRetrying \/ NotRetryable \/ Exhausted \/ SleepCutShort
  <2>1. PICK n \in Int, err \in Errors :
            pc # "done" /\ ProviderFails(n, err) /\ err.sentinel \in ContextErrors \cup AttemptErrors
    BY <1>1, <1>2, <1>5
       DEF EndpointInvalid, StopsRetrying, NotRetryable, Exhausted, SleepCutShort, StopInv
  <2> QED BY <2>1, ProviderFailsContract DEF Contract!Next
<1>6. CASE ~(\/ AlreadyCancelled \/ FailsValidation \/ AnswerAccepted \/ EndpointInvalid
             \/ StopsRetrying \/ NotRetryable \/ Exhausted \/ SleepCutShort)
  <2>1. errs' = errs /\ result' = result
    BY <1>6 DEF Next, ClientStep, ServerStep, BeginEvaluate,
       BeginProvider, BeginAttempt, AttemptEnds, AttemptFails, BacksOff, Wakes,
       AnswerRejected, ConnectionFails, Cancel, Expire, Tick
  <2> QED BY <2>1 DEF Contract!vars, Phase
<1> QED BY <1>3, <1>4, <1>5, <1>6

(* Evaluate does only what its contract allows, for any number of          *)
(* providers: they are given up on in order, only an eligible error moves  *)
(* the call on, and the error returned matches each of theirs, or the      *)
(* context's alone.  That the call ends, the rest of KeepsContract, needs  *)
(* fairness.                                                               *)
THEOREM ContractIsKept == Spec => Contract!Allowed
<1>1. Init => Contract!Init
  BY DEF Init, Contract!Init, Phase, NoResult
<1>2. Init => ContractInv
  BY ClientAssumption DEF Init, ContractInv
<1>3. Init => StopInv
  BY DEF Init, StopInv, StopsOnlyWhenTold, NoResult
<1>4. Init => BudgetInv
  BY ClientAssumption DEF Init, BudgetInv
<1> QED BY <1>1, <1>2, <1>3, <1>4, BudgetStep, StopInvStep, ContractStep, ContractAllows,
           TypeCorrect, PTL
        DEF Spec, Contract!Allowed
=============================================================================
