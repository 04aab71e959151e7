------------------------- MODULE RetryPolicyProofs -------------------------
(***************************************************************************)
(* What the retry policy guarantees for every policy, every retry and      *)
(* whatever a server's headers hold.  The lemmas follow the calls:         *)
(* WrapDuration, exponential, Jittered and delay on one side,              *)
(* scaleDuration and parseRetryAfter on the other.                         *)
(***************************************************************************)
EXTENDS MCRetryPolicy, Lemmas

(* Arithmetic on a Duration stays within a Duration. *)
LEMMA WrapInRange ==
    ASSUME NEW x \in Int
    PROVE  WrapDuration(x) \in (-MaxDuration - 1)..MaxDuration
BY PolicyAssumption DEF WrapDuration

(* A value that fits is left as it is. *)
LEMMA WrapIdentity ==
    ASSUME NEW x \in 0..MaxDuration
    PROVE  WrapDuration(x) = x
BY PolicyAssumption DEF WrapDuration

(***************************************************************************)
(* exponential: leaving the loop at the first product that reaches the cap *)
(* or wraps is the same as doubling without a width and cutting to the cap.*)
(***************************************************************************)
Unbounded(k) == BaseDelay * 2^k

LEMMA UnboundedDoubles ==
    ASSUME NEW k \in Nat
    PROVE  Unbounded(k) \in Nat \ {0} /\ Unbounded(k + 1) = 2 * Unbounded(k)
<1> DEFINE Powers == {n \in Nat : 2^n \in Nat \ {0}}
<1>1. 0 \in Powers
  BY PowerZero
<1>2. ASSUME NEW n \in Nat, n \in Powers PROVE n + 1 \in Powers
  BY <1>2, PowerDoubles
<1>3. k \in Powers
  <2> HIDE DEF Powers
  <2> QED BY <1>1, <1>2, SetInduction
<1>4. 2^k \in Nat \ {0} /\ 2^(k + 1) = 2 * 2^k /\ BaseDelay \in Nat \ {0}
  BY <1>3, PowerDoubles, PolicyAssumption
<1> QED BY <1>4 DEF Unbounded

LEMMA UnboundedGrows ==
    ASSUME NEW k \in Nat, NEW n \in Nat, k <= n
    PROVE  Unbounded(k) <= Unbounded(n)
<1> DEFINE Above == {m \in Nat : Unbounded(k) <= Unbounded(k + m)}
<1>1. 0 \in Above
  BY UnboundedDoubles
<1>2. ASSUME NEW m \in Nat, m \in Above PROVE m + 1 \in Above
  <2>1. k + m \in Nat /\ k + (m + 1) = (k + m) + 1
    OBVIOUS
  <2>2. Unbounded(k + (m + 1)) = 2 * Unbounded(k + m)
    BY <2>1, UnboundedDoubles
  <2> QED BY <1>2, <2>1, <2>2, UnboundedDoubles
<1>3. n - k \in Above
  <2> HIDE DEF Above
  <2> QED BY <1>1, <1>2, SetInduction
<1>4. k + (n - k) = n
  OBVIOUS
<1> QED BY <1>3, <1>4

LEMMA DoubledFits ==
    ASSUME NEW k \in Nat, Unbounded(k) <= MaxDuration
    PROVE  Doubled(k) = Unbounded(k)
<1>1. Unbounded(k) \in 0..MaxDuration
  BY UnboundedDoubles, PolicyAssumption
<1>2. WrapDuration(Unbounded(k)) = Unbounded(k)
  BY <1>1, WrapIdentity
<1> QED BY <1>2 DEF Doubled, Unbounded, backoffFactor

(* While the doublings before it did not reach the cap, none has wrapped. *)
LEMMA NoWrapBelowCap ==
    ASSUME NEW k \in Nat, k = 0 \/ Unbounded(k - 1) <= MaxDelay
    PROVE  Doubled(k) = Unbounded(k)
<1>1. CASE k = 0
  <2>1. Unbounded(0) = BaseDelay
    BY PowerZero, PolicyAssumption DEF Unbounded
  <2> QED BY <1>1, <2>1, DoubledFits, PolicyAssumption
<1>2. CASE k # 0
  <2>1. k - 1 \in Nat /\ (k - 1) + 1 = k
    BY <1>2
  <2>2. Unbounded(k) = 2 * Unbounded(k - 1) /\ Unbounded(k - 1) \in Nat
    BY <2>1, UnboundedDoubles
  <2> QED BY <1>2, <2>2, DoubledFits, PolicyAssumption
<1> QED BY <1>1, <1>2

LEMMA ExponentialDoubles ==
    ASSUME NEW n \in Nat
    PROVE  exponential(n) = Least(Unbounded(n), MaxDelay)
<1> DEFINE Out == {k \in 1..n : Doubled(k) <= 0 \/ Doubled(k) >= MaxDelay}
           Over == {k \in 1..n : Unbounded(k) >= MaxDelay}
<1>1. CASE Over = {}
  <2>1. ASSUME NEW k \in 0..n PROVE Unbounded(k) <= MaxDelay /\ Doubled(k) = Unbounded(k)
    <3>1. Unbounded(0) = BaseDelay
      BY PowerZero, PolicyAssumption DEF Unbounded
    <3>2. ASSUME NEW i \in 0..n PROVE Unbounded(i) <= MaxDelay
      <4>1. CASE i = 0
        BY <4>1, <3>1, PolicyAssumption
      <4>2. CASE i # 0
        <5>1. ~(Unbounded(i) >= MaxDelay) /\ Unbounded(i) \in Nat
          <6>1. i \in 1..n /\ i \in Nat
            BY <4>2
          <6> QED BY <1>1, <6>1, UnboundedDoubles
        <5> QED BY <5>1, PolicyAssumption
      <4> QED BY <4>1, <4>2
    <3>3. k = 0 \/ Unbounded(k - 1) <= MaxDelay
      BY <3>2
    <3> QED BY <3>2, <3>3, NoWrapBelowCap
  <2>2. Out = {}
    BY <1>1, <2>1, UnboundedDoubles
  <2>3. exponential(n) = Doubled(n)
    BY <2>2 DEF exponential
  <2>4. exponential(n) = Unbounded(n) /\ Unbounded(n) <= MaxDelay /\ Unbounded(n) \in Nat
    BY <2>1, <2>3, UnboundedDoubles
  <2> QED BY <2>4, PolicyAssumption DEF Least
<1>2. CASE Over # {}
  <2>1. PICK k \in Over : \A i \in Over : k <= i
    <3>1. Over \in SUBSET Nat
      OBVIOUS
    <3> HIDE DEF Over
    <3> QED BY <1>2, <3>1, LeastNatural
  <2>2. k \in 1..n /\ Unbounded(k) >= MaxDelay
    OBVIOUS
  <2>3. k - 1 = 0 \/ (k - 1 \in 1..n /\ k - 1 \notin Over)
    BY <2>1, <2>2
  <2>4. Unbounded(k - 1) <= MaxDelay
    <3>1. Unbounded(0) = BaseDelay
      BY PowerZero, PolicyAssumption DEF Unbounded
    <3>2. CASE k - 1 = 0
      BY <3>1, <3>2, PolicyAssumption
    <3>3. CASE k - 1 \in 1..n /\ k - 1 \notin Over
      <4>1. ~(Unbounded(k - 1) >= MaxDelay) /\ Unbounded(k - 1) \in Nat
        BY <3>3, UnboundedDoubles
      <4> QED BY <4>1, PolicyAssumption
    <3> QED BY <2>3, <3>2, <3>3
  <2>5. Doubled(k) = Unbounded(k)
    BY <2>2, <2>4, NoWrapBelowCap
  <2>6. exponential(n) = MaxDelay
    BY <2>2, <2>5 DEF exponential
  <2>7. Unbounded(n) >= MaxDelay
    BY <2>2, UnboundedGrows, UnboundedDoubles, PolicyAssumption
  <2> QED BY <2>6, <2>7, UnboundedDoubles, PolicyAssumption DEF Least
<1> QED BY <1>1, <1>2

LEMMA ExponentialBounded ==
    ASSUME NEW n \in Nat
    PROVE  exponential(n) \in 1..MaxDelay
BY ExponentialDoubles, UnboundedDoubles, PolicyAssumption DEF Least

(* Jitter moves a delay by JitterPct of it, rounded down. *)
LEMMA JitteredNear ==
    ASSUME NEW d \in Nat, NEW x \in Jittered(d)
    PROVE  /\ x \in Nat
           /\ 100 * (x + 1) > d * (100 - JitterPct)
           /\ 100 * x <= d * (100 + JitterPct)
<1> DEFINE less == d * (100 - JitterPct)
           more == d * (100 + JitterPct)
<1>1. less \in Nat /\ more \in Nat
  <2>1. 100 - JitterPct \in Nat /\ 100 + JitterPct \in Nat
    BY PolicyAssumption
  <2> QED BY <2>1
<1>2. PICK y \in (less \div 100)..(more \div 100) : x = IF y < 0 THEN 0 ELSE y
  BY DEF Jittered
<1> HIDE DEF less, more
<1>3. /\ less \div 100 \in Nat /\ 100 * ((less \div 100) + 1) > less
      /\ more \div 100 \in Nat /\ 100 * (more \div 100) <= more
  BY <1>1
<1>4. x = y /\ x \in Nat
  BY <1>2, <1>3
<1>5. 100 * (x + 1) > less /\ 100 * x <= more
  BY <1>1, <1>2, <1>3, <1>4
<1> QED BY <1>4, <1>5 DEF less, more

LEMMA JitteredBounded ==
    ASSUME NEW d \in Nat, NEW x \in Jittered(d)
    PROVE  x \in 0..(2 * d)
<1>1. x \in Nat /\ 100 * x <= d * (100 + JitterPct)
  BY JitteredNear
<1>2. JitterPct \in 0..100
  BY PolicyAssumption
<1>3. d * JitterPct <= 100 * d /\ d * JitterPct \in Nat
  BY <1>2
<1>4. d * (100 + JitterPct) = 100 * d + d * JitterPct
  BY <1>2
<1> QED BY <1>1, <1>3, <1>4

(* delay: never negative, never longer than four times MaxDelay.           *)
LEMMA DelayBounded ==
    ASSUME NEW n \in Nat, NEW asked \in Int, NEW d \in delay(n, asked)
    PROVE  d \in 0..(4 * MaxDelay)
<1>1. WrapDuration(MaxDelay * retryAfterCapFactor) = 4 * MaxDelay
  <2>1. MaxDelay * retryAfterCapFactor = 4 * MaxDelay
    BY PolicyAssumption DEF retryAfterCapFactor
  <2>2. 4 * MaxDelay \in 0..MaxDuration
    BY PolicyAssumption
  <2> QED BY <2>1, <2>2, WrapIdentity
<1>2. CASE asked > 0
  BY <1>1, <1>2, PolicyAssumption DEF delay
<1>3. CASE ~(asked > 0)
  <2>1. d \in Jittered(exponential(n))
    BY <1>3 DEF delay
  <2>2. exponential(n) \in 1..MaxDelay
    BY ExponentialBounded
  <2>3. exponential(n) \in Nat
    BY <2>2, PolicyAssumption
  <2>4. d \in 0..(2 * exponential(n))
    BY <2>1, <2>3, JitteredBounded
  <2> QED BY <2>2, <2>4, PolicyAssumption
<1> QED BY <1>2, <1>3

(* A wait the server asked for is only ever cut to the cap. *)
LEMMA DelayAsAsked ==
    ASSUME NEW n \in Nat, NEW asked \in Nat \ {0}, NEW d \in delay(n, asked)
    PROVE  d = Least(asked, 4 * MaxDelay)
<1>1. MaxDelay * retryAfterCapFactor = 4 * MaxDelay /\ 4 * MaxDelay \in 0..MaxDuration
  BY PolicyAssumption DEF retryAfterCapFactor
<1>2. WrapDuration(MaxDelay * retryAfterCapFactor) = 4 * MaxDelay
  BY <1>1, WrapIdentity
<1> QED BY <1>1, <1>2, PolicyAssumption DEF delay, Least

(* scaleDuration: the product as if it had no width, cut to the longest    *)
(* duration: the comparison by division is exact, also where it is equal.  *)
LEMMA ScaleDurationExact ==
    ASSUME NEW n \in Nat \ {0}, NEW unit \in 1..MaxDuration
    PROVE  scaleDuration(n, unit) = Least(n * unit, MaxDuration)
<1> DEFINE q == MaxDuration \div unit
<1>1. q \in Nat /\ q * unit <= MaxDuration /\ (q + 1) * unit > MaxDuration
  BY PolicyAssumption
<1>2. n * unit \in Nat \ {0} /\ unit \in Nat
  BY PolicyAssumption
<1> HIDE DEF q
<1>3. CASE n > q
  <2>1. n >= q + 1
    BY <1>1, <1>3
  <2>2. n * unit >= (q + 1) * unit
    BY <1>1, <1>2, <2>1
  <2>3. n * unit > MaxDuration
    BY <1>1, <1>2, <2>2, PolicyAssumption
  <2>4. scaleDuration(n, unit) = MaxDuration
    BY <1>3 DEF scaleDuration, q
  <2> QED BY <1>2, <2>3, <2>4, PolicyAssumption DEF Least
<1>4. CASE ~(n > q)
  <2>1. n * unit <= q * unit
    BY <1>1, <1>2, <1>4
  <2>2. n * unit \in 0..MaxDuration
    BY <1>1, <1>2, <2>1, PolicyAssumption
  <2>3. scaleDuration(n, unit) = n * unit
    BY <1>4, <2>2, WrapIdentity DEF scaleDuration, q
  <2> QED BY <2>2, <2>3, PolicyAssumption DEF Least
<1> QED BY <1>3, <1>4

(***************************************************************************)
(* parseRetryAfter: what the server wanted, cut to the longest duration,   *)
(* and nothing where it wanted nothing.                                    *)
(***************************************************************************)
LEMMA HeaderNumber ==
    ASSUME NEW h \in HeaderValues
    PROVE  h.n \in Int
<1>1. CASE h \in [kind : {"absent", "junk"}, n : {0}]
  BY <1>1
<1>2. CASE h \in [kind : {"int"}, n : Numbers]
  BY <1>2, WorldAssumption
<1>3. CASE h \in [kind : {"date"}, n : Instants]
  BY <1>3, WorldAssumption
<1> QED BY <1>1, <1>2, <1>3 DEF HeaderValues

LEMMA ParsedAsWanted ==
    ASSUME ms \in HeaderValues, header \in HeaderValues, now \in Int
    PROVE  /\ Wanted \in Int
           /\ parseRetryAfter(ms, header, now) =
                IF Wanted > 0 THEN Least(Wanted, MaxDuration) ELSE 0
<1>1. ms.n \in Int /\ header.n \in Int
  BY HeaderNumber
<1>2. Millisecond \in 1..MaxDuration /\ Second \in 1..MaxDuration /\ MaxDuration \in Nat
  BY PolicyAssumption
<1>3. CASE ms.kind = "int" /\ ms.n > 0
  <2>1. parseRetryAfter(ms, header, now) = scaleDuration(ms.n, Millisecond)
    BY <1>3 DEF parseRetryAfter, IsInt
  <2>2. Wanted = ms.n * Millisecond
    BY <1>3 DEF Wanted
  <2>3. ms.n * Millisecond \in Nat \ {0}
    BY <1>1, <1>2, <1>3
  <2> QED BY <1>1, <1>2, <1>3, <2>1, <2>2, <2>3, ScaleDurationExact
<1>4. CASE ~(ms.kind = "int" /\ ms.n > 0) /\ header.kind = "int"
  <2>1. parseRetryAfter(ms, header, now) =
          IF header.n <= 0 THEN 0 ELSE scaleDuration(header.n, Second)
    BY <1>4 DEF parseRetryAfter, IsInt, IsDate
  <2>2. Wanted = header.n * Second
    BY <1>4 DEF Wanted
  <2>3. header.n * Second \in Int /\ (header.n * Second > 0 <=> header.n > 0)
    BY <1>1, <1>2
  <2> QED BY <1>1, <1>2, <2>1, <2>2, <2>3, ScaleDurationExact
<1>5. CASE ~(ms.kind = "int" /\ ms.n > 0) /\ header.kind = "date"
  <2>1. parseRetryAfter(ms, header, now) = IF Sub(header.n, now) > 0 THEN Sub(header.n, now) ELSE 0
    BY <1>5 DEF parseRetryAfter, IsInt, IsDate
  <2>2. Wanted = header.n - now
    BY <1>5 DEF Wanted
  <2> QED BY <1>1, <1>2, <2>1, <2>2 DEF Sub, Least
<1>6. CASE ~(ms.kind = "int" /\ ms.n > 0) /\ header.kind \notin {"int", "date"}
  <2>1. parseRetryAfter(ms, header, now) = 0
    BY <1>6 DEF parseRetryAfter, IsInt, IsDate
  <2>2. Wanted = 0
    BY <1>6 DEF Wanted
  <2> QED BY <2>1, <2>2
<1> QED BY <1>3, <1>4, <1>5, <1>6

(***************************************************************************)
(* The wait of every failure.                                              *)
(***************************************************************************)
(* The inductive invariant: the inputs stay in their sets, and a wait is   *)
(* what delay makes of them.                                               *)
WaitInv ==
    /\ ms \in HeaderValues /\ header \in HeaderValues
    /\ now \in Instants /\ attempt \in Attempts
    /\ wait # Pending => wait \in delay(attempt, parseRetryAfter(ms, header, now))

LEMMA WaitStep == WaitInv /\ [Wait]_vars => WaitInv'
<1> SUFFICES ASSUME WaitInv, [Wait]_vars PROVE WaitInv'
  OBVIOUS
<1>1. ms' = ms /\ header' = header /\ now' = now /\ attempt' = attempt
  BY DEF Wait, vars
<1>2. wait' # Pending => wait' \in delay(attempt, parseRetryAfter(ms, header, now))
  BY DEF Wait, vars, WaitInv
<1> QED BY <1>1, <1>2 DEF WaitInv

LEMMA WaitAlways == Spec => []WaitInv
<1>1. Init => WaitInv
  BY DEF Init, WaitInv
<1> QED BY <1>1, WaitStep, PTL DEF Spec

LEMMA WaitInputs ==
    ASSUME WaitInv
    PROVE  /\ attempt \in Nat /\ now \in Int
           /\ Wanted \in Int
           /\ parseRetryAfter(ms, header, now) =
                IF Wanted > 0 THEN Least(Wanted, MaxDuration) ELSE 0
BY ParsedAsWanted, WorldAssumption DEF WaitInv

(* For every policy and whatever a server's headers hold, the wait before  *)
(* a retry lies between zero and four times MaxDelay: the scaling of a     *)
(* header never overflows into it.                                         *)
THEOREM WaitIsBounded == Spec => []WaitBounded
<1>1. ASSUME WaitInv, wait # Pending PROVE wait \in 0..(4 * MaxDelay)
  <2>1. parseRetryAfter(ms, header, now) \in Int
    BY <1>1, WaitInputs, PolicyAssumption DEF Least
  <2> QED BY <1>1, <2>1, WaitInputs, DelayBounded DEF WaitInv
<1>2. WaitInv => WaitBounded
  BY <1>1 DEF WaitBounded
<1> QED BY <1>2, WaitAlways, PTL

(* A server that asks for a positive wait gets exactly that wait, up to    *)
(* four times MaxDelay, for every number and every date: neither the width *)
(* of an int nor that of a Duration shows (parseRetryAfter, delay).        *)
THEOREM ServerWaitIsHonoured == Spec => []ServerWaitHonoured
<1>1. ASSUME WaitInv, wait # Pending, Wanted > 0 PROVE wait = Least(Wanted, 4 * MaxDelay)
  <2>1. /\ attempt \in Nat /\ Wanted \in Int
        /\ wait \in delay(attempt, Least(Wanted, MaxDuration))
    BY <1>1, WaitInputs DEF WaitInv
  <2>2. Least(Wanted, MaxDuration) \in Nat \ {0}
    BY <1>1, <2>1, PolicyAssumption DEF Least
  <2>3. wait = Least(Least(Wanted, MaxDuration), 4 * MaxDelay)
    BY <2>1, <2>2, DelayAsAsked
  <2> QED BY <2>1, <2>3, PolicyAssumption DEF Least
<1>2. WaitInv => ServerWaitHonoured
  BY <1>1 DEF ServerWaitHonoured
<1> QED BY <1>2, WaitAlways, PTL

(* A server that asks for nothing leaves the backoff: BaseDelay doubled    *)
(* once per retry and cut to MaxDelay, within the jitter of it, however    *)
(* many retries there are: no doubling wraps unseen (exponential).         *)
THEOREM BackoffKeepsDoubling == Spec => []BackoffDoubles
<1>1. ASSUME WaitInv, wait # Pending, Wanted <= 0
      PROVE  LET d == Least(BaseDelay * 2^attempt, MaxDelay)
             IN  /\ 100 * (wait + 1) > d * (100 - JitterPct)
                 /\ 100 * wait <= d * (100 + JitterPct)
  <2>1. attempt \in Nat /\ Wanted \in Int /\ wait \in delay(attempt, 0)
    BY <1>1, WaitInputs DEF WaitInv
  <2>2. wait \in Jittered(exponential(attempt))
    BY <2>1 DEF delay
  <2>3. exponential(attempt) = Least(BaseDelay * 2^attempt, MaxDelay)
    BY <2>1, ExponentialDoubles DEF Unbounded
  <2>4. exponential(attempt) \in Nat
    BY <2>1, ExponentialBounded, PolicyAssumption
  <2> QED BY <2>2, <2>3, <2>4, JitteredNear
<1>2. WaitInv => BackoffDoubles
  BY <1>1 DEF BackoffDoubles
<1> QED BY <1>2, WaitAlways, PTL
=============================================================================
