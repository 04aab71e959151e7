---------------------------- MODULE RetryPolicy ----------------------------
(***************************************************************************)
(* The retry policy of internal/jev/retry.go: how long the client waits    *)
(* before a retry, and what it reads from a server's Retry-After headers.  *)
(* Durations are integers of the width the code gives them: arithmetic on  *)
(* time.Duration wraps at MaxDuration, as int64 does in Go.                *)
(***************************************************************************)
EXTENDS Integers

CONSTANTS
    BaseDelay,    \* wait before the first retry, without a Retry-After
    MaxDelay,     \* cap of the exponential backoff
    JitterPct,    \* Jitter as a percentage: 25 is the code's 0.25
    MaxDuration,  \* math.MaxInt64, the largest time.Duration
    Millisecond,  \* time.Millisecond
    Second        \* time.Second

(***************************************************************************)
(* The policy is fixed by defaultRetryPolicy (500ms, 5s, 0.25): no option  *)
(* changes anything of it but the retry count.                             *)
(***************************************************************************)
ASSUME PolicyAssumption ==
    /\ MaxDuration \in Nat /\ MaxDelay \in Nat
    /\ 4 * MaxDelay <= MaxDuration
    /\ BaseDelay \in 1..MaxDelay
    /\ JitterPct \in 0..100
    /\ Millisecond \in 1..MaxDuration /\ Second \in 1..MaxDuration

backoffFactor == 2
retryAfterCapFactor == 4

(* Two's complement arithmetic on time.Duration. *)
WrapDuration(x) ==
    ((x + MaxDuration + 1) % (2 * (MaxDuration + 1))) - (MaxDuration + 1)

Doubled(k) == WrapDuration(BaseDelay * backoffFactor^k)

(* Mutant: the cap is only noticed once the product has overflowed. *)
exponential_NoCap(attempt) ==
    IF \E k \in 1..attempt : Doubled(k) <= 0 THEN MaxDelay ELSE Doubled(attempt)

(***************************************************************************)
(* exponential doubles attempt times, and leaves the loop with MaxDelay at *)
(* the first product that reaches the cap or wraps to nothing.  Wrapping   *)
(* after each doubling or once at the end is the same.                     *)
(***************************************************************************)
exponential(attempt) ==
    IF \E k \in 1..attempt : Doubled(k) <= 0 \/ Doubled(k) >= MaxDelay
        THEN MaxDelay
        ELSE Doubled(attempt)

(* Mutant: the factor is the jitter alone, not one plus it. *)
Jittered_AroundZero(d) == (-d * JitterPct) \div 100 .. (d * JitterPct) \div 100

(* rand is any value of [0,1): the factor is any of 1 - Jitter .. 1 + Jitter *)
(* and the conversion back to a Duration truncates.                          *)
Jittered(d) ==
    {IF x < 0 THEN 0 ELSE x :
        x \in (d * (100 - JitterPct)) \div 100 .. (d * (100 + JitterPct)) \div 100}

(* Mutant: a server's wait is only compared with the cap, never cut to it. *)
delay_Uncapped(attempt, retryAfter) ==
    IF retryAfter > 0 THEN {retryAfter} ELSE Jittered(exponential(attempt))

(***************************************************************************)
(* The durations delay may return before the retry numbered attempt (0 is  *)
(* the first retry), given the Retry-After of the failure before it.       *)
(***************************************************************************)
delay(attempt, retryAfter) ==
    LET capped == WrapDuration(MaxDelay * retryAfterCapFactor)
    IN  IF retryAfter > 0
            THEN {IF retryAfter > capped THEN capped ELSE retryAfter}
            ELSE Jittered(exponential(attempt))

(* Mutant: the product is left to overflow. *)
scaleDuration_NoClamp(n, unit) == WrapDuration(n * unit)

scaleDuration(n, unit) ==
    IF n > MaxDuration \div unit THEN MaxDuration ELSE WrapDuration(n * unit)

(***************************************************************************)
(* A header value by what the two parsers make of it: "absent" (Get gives  *)
(* the empty string), "int" (strconv.Atoi succeeds with n), "date"         *)
(* (http.ParseTime succeeds with the instant n), "junk" (neither; a number *)
(* out of the range of int is junk, Atoi fails on it).                     *)
(***************************************************************************)
IsInt(h) == h.kind = "int"
IsDate(h) == h.kind = "date"

(* time.Time.Sub saturates at the ends of Duration. *)
Sub(t, now) ==
    IF t - now > MaxDuration THEN MaxDuration
    ELSE IF t - now < -MaxDuration - 1 THEN -MaxDuration - 1
    ELSE t - now

parseRetryAfter(ms, header, now) ==
    CASE IsInt(ms) /\ ms.n > 0 -> scaleDuration(ms.n, Millisecond)
      [] ~(IsInt(ms) /\ ms.n > 0) /\ IsInt(header) ->
            IF header.n <= 0 THEN 0 ELSE scaleDuration(header.n, Second)
      [] ~(IsInt(ms) /\ ms.n > 0) /\ IsDate(header) ->
            IF Sub(header.n, now) > 0 THEN Sub(header.n, now) ELSE 0
      [] OTHER -> 0
=============================================================================
