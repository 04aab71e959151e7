--------------------------- MODULE MCRetryPolicy ---------------------------
(***************************************************************************)
(* The retry policy evaluated on every failure of a small world: each pair *)
(* of header values, each retry number, each clock reading.  Durations are *)
(* eight bits wide, so that a Retry-After that overflows is met.           *)
(***************************************************************************)
EXTENDS RetryPolicy

CONSTANTS
    Attempts,  \* retry numbers
    Numbers,   \* integers a header may hold
    Instants   \* HTTP-dates, and clock readings

ASSUME WorldAssumption ==
    Attempts \subseteq Nat /\ Numbers \subseteq Int /\ Instants \subseteq Int

VARIABLES
    ms,       \* Retry-After-Ms of the failed response
    header,   \* Retry-After of the failed response
    now,      \* when the response was read
    attempt,  \* the retry the wait precedes
    wait      \* what delay returned; Pending before it ran

vars == <<ms, header, now, attempt, wait>>

Pending == -1

MCNumbers == {-3, 0, 1, 5, 6, 7, 12, 13, 20, 127}
MCInstants == {-120, 0, 30, 60, 127}

HeaderValues ==
    [kind : {"absent", "junk"}, n : {0}]
        \cup [kind : {"int"}, n : Numbers] \cup [kind : {"date"}, n : Instants]

Init ==
    /\ ms \in HeaderValues /\ header \in HeaderValues
    /\ now \in Instants /\ attempt \in Attempts
    /\ wait = Pending

(* newAPIError parses the headers; the retry loop hands the result to delay. *)
Wait ==
    /\ wait = Pending
    /\ wait' \in delay(attempt, parseRetryAfter(ms, header, now))
    /\ UNCHANGED <<ms, header, now, attempt>>

Spec == Init /\ [][Wait]_vars

Least(a, b) == IF a < b THEN a ELSE b

(***************************************************************************)
(* What the server asked for, over the integers: no width, no clamping.    *)
(***************************************************************************)
Wanted ==
    IF ms.kind = "int" /\ ms.n > 0 THEN ms.n * Millisecond
    ELSE IF header.kind = "int" THEN header.n * Second
    ELSE IF header.kind = "date" THEN header.n - now
    ELSE 0

(* A wait is never negative and never longer than four times MaxDelay,     *)
(* whatever number or date a server sends: an overflow in the scaling must *)
(* not reach delay as a negative or a wrapped value.                       *)
WaitBounded == wait # Pending => wait \in 0..(4 * MaxDelay)

(* A server that asks for a positive wait gets exactly that wait, up to    *)
(* four times MaxDelay: Retry-After-Ms first, Retry-After otherwise, as    *)
(* if the arithmetic had no width.                                         *)
ServerWaitHonoured ==
    wait # Pending /\ Wanted > 0 => wait = Least(Wanted, 4 * MaxDelay)

(* A server that asks for nothing (no header, an unreadable one, zero, a   *)
(* date that has passed) leaves the backoff: BaseDelay doubled once per    *)
(* retry, capped at MaxDelay, within JitterPct of it and rounded down.     *)
BackoffDoubles ==
    wait # Pending /\ Wanted <= 0 =>
        LET d == Least(BaseDelay * 2^attempt, MaxDelay)
        IN  /\ 100 * (wait + 1) > d * (100 - JitterPct)
            /\ 100 * wait <= d * (100 + JitterPct)
=============================================================================
