------------------------------- MODULE Lemmas -------------------------------
(***************************************************************************)
(* Facts about numbers, finite sets and sequences that more than one of    *)
(* the proofs needs.  The library states induction for a predicate; here   *)
(* it is LeastNatural, a fact about sets, which a proof can instantiate.   *)
(***************************************************************************)
EXTENDS Sorting, Sequences, FiniteSetTheorems, TLAPS

(* Every set of natural numbers with a member has a least one. *)
LEMMA LeastNatural ==
    ASSUME NEW S \in SUBSET Nat, S # {}
    PROVE  \E m \in S : \A k \in S : m <= k
<1> DEFINE R == OpToRel(<, Nat)
<1>1. IsWellFoundedOn(R, Nat)
    BY NatLessThanWellFounded
<1> HIDE DEF R
<1>2. PICK m \in S : \A k \in S : ~(<<k, m>> \in R)
    BY <1>1, WFMin
<1>3. ASSUME NEW k \in S PROVE m <= k
    <2>1. ~(<<k, m>> \in R) /\ k \in Nat /\ m \in Nat
        BY <1>2
    <2>2. ~(k < m)
        BY <2>1 DEF R, OpToRel
    <2> QED
        BY <2>1, <2>2
<1> QED
    BY <1>2, <1>3

(* A set of natural numbers that contains 0, and with a number the next    *)
(* one, contains them all.                                                 *)
LEMMA SetInduction ==
    ASSUME NEW S, 0 \in S, \A n \in Nat : n \in S => n + 1 \in S
    PROVE  Nat \subseteq S
<1> DEFINE Missing == {n \in Nat : n \notin S}
<1> SUFFICES ASSUME Missing # {} PROVE FALSE
    OBVIOUS
<1>1. PICK m \in Missing : \A k \in Missing : m <= k
    <2> HIDE DEF Missing
    <2>1. Missing \in SUBSET Nat
        BY DEF Missing
    <2> QED
        BY <2>1, LeastNatural
<1>2. m # 0 /\ m - 1 \in Nat
    BY <1>1
<1>3. m - 1 \in S
    BY <1>1, <1>2
<1>4. (m - 1) + 1 \in S
    BY <1>2, <1>3
<1> QED
    BY <1>1, <1>2, <1>4

(***************************************************************************)
(* Sorting.                                                                *)
(***************************************************************************)
LEMMA RankStrict ==
    ASSUME NEW S \in SUBSET Nat, IsFiniteSet(S), NEW x \in S, NEW y \in S, x < y
    PROVE  Cardinality(UpTo(S, x)) < Cardinality(UpTo(S, y))
<1>1. UpTo(S, y) \in SUBSET S /\ UpTo(S, x) \in SUBSET UpTo(S, y)
    <2>1. ASSUME NEW z \in S, z <= x PROVE z <= y
        <3>1. z \in Nat /\ x \in Nat /\ y \in Nat
            OBVIOUS
        <3> QED
            BY <2>1, <3>1
    <2> QED
        BY <2>1 DEF UpTo
<1>2. IsFiniteSet(UpTo(S, y))
    BY <1>1, FS_Subset
<1>3. y \in UpTo(S, y) /\ y \notin UpTo(S, x)
    BY DEF UpTo
<1>4. UpTo(S, x) # UpTo(S, y)
    BY <1>3
<1>5. /\ IsFiniteSet(UpTo(S, x))
      /\ Cardinality(UpTo(S, x)) <= Cardinality(UpTo(S, y))
      /\ Cardinality(UpTo(S, y)) # Cardinality(UpTo(S, x))
    BY <1>1, <1>2, <1>4, FS_Subset
<1> QED
    BY <1>2, <1>5, FS_CardinalityType

LEMMA RankInRange ==
    ASSUME NEW S \in SUBSET Nat, IsFiniteSet(S), NEW x \in S
    PROVE  Cardinality(UpTo(S, x)) \in 1..Cardinality(S)
<1>1. UpTo(S, x) \in SUBSET S /\ UpTo(S, x) # {}
    BY DEF UpTo
<1>2. IsFiniteSet(UpTo(S, x)) /\ Cardinality(UpTo(S, x)) <= Cardinality(S)
    BY <1>1, FS_Subset
<1>3. Cardinality(UpTo(S, x)) # 0
    BY <1>1, <1>2, FS_EmptySet
<1> QED
    BY <1>2, <1>3, FS_CardinalityType

(* Each place of the sorted sequence is taken, and by one element alone. *)
LEMMA RankTaken ==
    ASSUME NEW S \in SUBSET Nat, IsFiniteSet(S), NEW i \in 1..Cardinality(S)
    PROVE  \E x \in S : Cardinality(UpTo(S, x)) = i
<1> DEFINE n == Cardinality(S)
           rank == [x \in S |-> Cardinality(UpTo(S, x))]
<1>1. n \in Nat /\ IsFiniteSet(1..n) /\ Cardinality(1..n) = n
    BY FS_CardinalityType, FS_Interval
<1>2. rank \in [S -> 1..n]
    BY RankInRange
<1>3. ASSUME NEW x \in S, NEW y \in S, rank[x] = rank[y] PROVE x = y
    <2>1. x \in Nat /\ y \in Nat
        OBVIOUS
    <2>2. ~(x < y) /\ ~(y < x)
        BY <1>3, RankStrict, RankInRange
    <2> QED
        BY <2>1, <2>2
<1>4. rank \in Injection(S, 1..n)
    BY <1>2, <1>3 DEF Injection, IsInjective
<1>5. rank \in Surjection(S, 1..n)
    <2> HIDE DEF rank, n
    <2>1. n = Cardinality(S)
        BY DEF n
    <2> QED
        BY <1>1, <1>4, <2>1, FS_Injection
<1> QED
    BY <1>5 DEF Surjection

(* Sorted: the elements of the set, each once, in increasing order. *)
LEMMA SortedFacts ==
    ASSUME NEW S \in SUBSET Nat, IsFiniteSet(S)
    PROVE  /\ Cardinality(S) \in Nat
           /\ Sorted(S) \in [1..Cardinality(S) -> S]
           /\ \A i, j \in 1..Cardinality(S) : i < j => Sorted(S)[i] < Sorted(S)[j]
           /\ \A x \in S : \E i \in 1..Cardinality(S) : Sorted(S)[i] = x
<1>1. Cardinality(S) \in Nat
    BY FS_CardinalityType
<1>2. ASSUME NEW i \in 1..Cardinality(S)
      PROVE  Sorted(S)[i] \in S /\ Cardinality(UpTo(S, Sorted(S)[i])) = i
    BY <1>2, RankTaken DEF Sorted
<1>3. Sorted(S) \in [1..Cardinality(S) -> S]
    BY <1>2 DEF Sorted
<1>4. ASSUME NEW i \in 1..Cardinality(S), NEW j \in 1..Cardinality(S), i < j
      PROVE  Sorted(S)[i] < Sorted(S)[j]
    <2> DEFINE a == Sorted(S)[i]
               b == Sorted(S)[j]
    <2>1. a \in S /\ b \in S /\ a \in Nat /\ b \in Nat
          /\ Cardinality(UpTo(S, a)) = i /\ Cardinality(UpTo(S, b)) = j
        BY <1>2
    <2> HIDE DEF a, b
    <2>2. ~(b < a)
        BY <2>1, <1>4, RankStrict
    <2>3. a # b
        BY <2>1, <1>4
    <2>4. a < b
        BY <2>1, <2>2, <2>3
    <2> QED
        BY <2>4 DEF a, b
<1>5. ASSUME NEW x \in S PROVE \E i \in 1..Cardinality(S) : Sorted(S)[i] = x
    <2> DEFINE i == Cardinality(UpTo(S, x))
               z == Sorted(S)[i]
    <2>1. i \in 1..Cardinality(S)
        BY RankInRange
    <2>2. z \in S /\ Cardinality(UpTo(S, z)) = i
        BY <2>1, <1>2
    <2> HIDE DEF z
    <2>3. z \in Nat /\ x \in Nat
        BY <2>2
    <2>4. ~(z < x) /\ ~(x < z)
        <3>1. i \in Int
            BY <2>1
        <3> QED
            BY <2>2, <2>3, <3>1, RankStrict
    <2>5. z = x
        BY <2>3, <2>4
    <2> QED
        BY <2>1, <2>5 DEF z
<1> QED
    BY <1>1, <1>3, <1>4, <1>5

(* Whatever lists a set in increasing order is Sorted of it. *)
LEMMA SortedUnique ==
    ASSUME NEW n \in Nat, NEW S \in SUBSET Nat, NEW f \in [1..n -> S],
           \A i, j \in 1..n : i < j => f[i] < f[j],
           \A x \in S : \E i \in 1..n : f[i] = x
    PROVE  IsFiniteSet(S) /\ Cardinality(S) = n /\ Sorted(S) = f
<1>1. ASSUME NEW i \in 1..n, NEW j \in 1..n, f[i] <= f[j] PROVE i <= j
    <2> SUFFICES ASSUME j < i PROVE FALSE
        OBVIOUS
    <2>1. f[j] < f[i] /\ f[i] \in Nat /\ f[j] \in Nat
        OBVIOUS
    <2> QED
        BY <1>1, <2>1
<1>0. \A i \in 1..n : f[i] \in S /\ f[i] \in Nat
    OBVIOUS
<1>2. ASSUME NEW i \in 1..n, NEW j \in 1..n, i <= j PROVE f[i] <= f[j]
    <2>1. CASE i = j
        <3>1. f[i] \in Nat
            BY <1>0
        <3> QED
            BY <2>1, <3>1
    <2>2. CASE i < j
        <3>1. f[i] < f[j]
            BY <2>2
        <3>2. f[i] \in Nat /\ f[j] \in Nat
            BY <1>0
        <3> QED
            BY <3>1, <3>2
    <2> QED
        BY <1>2, <2>1, <2>2
<1>3. ASSUME NEW k \in 0..n, NEW T, T = {f[i] : i \in 1..k}
      PROVE  IsFiniteSet(T) /\ Cardinality(T) = k
    <2> DEFINE g == [i \in 1..k |-> f[i]]
    <2>1. ASSUME NEW i \in 1..k, NEW j \in 1..k, g[i] = g[j] PROVE i = j
        <3>1. i \in 1..n /\ j \in 1..n
            OBVIOUS
        <3>2. f[i] = f[j]
            BY <2>1
        <3>3. f[i] <= f[j] /\ f[j] <= f[i]
            BY <1>0, <3>1, <3>2
        <3>4. i <= j /\ j <= i
            BY <1>1, <3>1, <3>3
        <3> QED
            BY <3>1, <3>4
    <2>2. g \in [1..k -> T] /\ \A x \in T : \E i \in 1..k : g[i] = x
        BY <1>3
    <2> HIDE DEF g
    <2>3. g \in Bijection(1..k, T)
        BY <2>1, <2>2 DEF Bijection, Injection, Surjection, IsInjective
    <2>4. IsFiniteSet(1..k) /\ Cardinality(1..k) = k
        BY FS_Interval
    <2>5. ExistsBijection(1..k, T)
        BY <2>3 DEF ExistsBijection
    <2> QED
        BY <2>4, <2>5, FS_Bijection
<1>4. IsFiniteSet(S) /\ Cardinality(S) = n
    <2>1. S = {f[i] : i \in 1..n}
        BY <1>0
    <2>2. n \in 0..n
        OBVIOUS
    <2> QED
        BY <1>3, <2>1, <2>2
<1>5. ASSUME NEW i \in 1..n PROVE Cardinality(UpTo(S, f[i])) = i
    <2>1. UpTo(S, f[i]) = {f[j] : j \in 1..i}
        <3>1. ASSUME NEW x \in S, x <= f[i] PROVE \E j \in 1..i : x = f[j]
            <4>1. PICK j \in 1..n : f[j] = x
                OBVIOUS
            <4>2. j <= i
                BY <1>1, <3>1, <4>1
            <4> QED
                BY <4>1, <4>2
        <3>2. ASSUME NEW j \in 1..i PROVE f[j] \in S /\ f[j] <= f[i]
            <4>1. j \in 1..n /\ j <= i
                OBVIOUS
            <4> QED
                BY <1>2, <4>1
        <3> QED
            BY <3>1, <3>2 DEF UpTo
    <2>2. i \in 0..n
        OBVIOUS
    <2> QED
        BY <1>3, <2>1, <2>2
<1>6. ASSUME NEW i \in 1..n
      PROVE  (CHOOSE x \in S : Cardinality(UpTo(S, x)) = i) = f[i]
    <2> DEFINE y == CHOOSE x \in S : Cardinality(UpTo(S, x)) = i
    <2>1. y \in S /\ Cardinality(UpTo(S, y)) = i
        BY <1>5
    <2>2. PICK j \in 1..n : f[j] = y
        BY <2>1
    <2>3. j = i
        BY <1>5, <2>1, <2>2
    <2> QED
        BY <2>2, <2>3
<1>7. Sorted(S) = [i \in 1..n |-> f[i]]
    BY <1>4, <1>6 DEF Sorted
<1>8. f = [i \in 1..n |-> f[i]]
    OBVIOUS
<1> QED
    BY <1>4, <1>7, <1>8

(* The elements of a set up to a bound come first in it. *)
LEMMA SortedBelow ==
    ASSUME NEW S \in SUBSET Nat, IsFiniteSet(S), NEW e \in Nat,
           NEW T, T = {x \in S : x <= e}
    PROVE  /\ T \in SUBSET Nat /\ IsFiniteSet(T)
           /\ Cardinality(T) \in Nat /\ Cardinality(T) <= Cardinality(S)
           /\ \A i \in 1..Cardinality(T) : Sorted(T)[i] = Sorted(S)[i]
<1>1. T \in SUBSET S /\ T \in SUBSET Nat
    OBVIOUS
<1>2. /\ IsFiniteSet(T) /\ Cardinality(T) \in Nat /\ Cardinality(S) \in Nat
      /\ Cardinality(T) <= Cardinality(S)
    BY <1>1, FS_Subset, FS_CardinalityType
<1>3. ASSUME NEW i \in 1..Cardinality(T) PROVE Sorted(T)[i] = Sorted(S)[i]
    <2> DEFINE x == CHOOSE y \in T : Cardinality(UpTo(T, y)) = i
               z == CHOOSE y \in S : Cardinality(UpTo(S, y)) = i
    <2>1. i \in 1..Cardinality(S)
        BY <1>2
    <2>2. Sorted(T)[i] = x /\ Sorted(S)[i] = z
        BY <2>1 DEF Sorted
    <2>3. x \in T /\ Cardinality(UpTo(T, x)) = i
        BY <1>1, <1>2, RankTaken
    <2>4. z \in S /\ Cardinality(UpTo(S, z)) = i
        BY <2>1, RankTaken
    <2> HIDE DEF x, z
    <2>5. UpTo(T, x) = UpTo(S, x)
        <3>1. ASSUME NEW y \in S, y <= x PROVE y \in T
            <4>1. y \in Nat /\ x \in Nat /\ x <= e
                BY <1>1, <2>3
            <4> QED
                BY <3>1, <4>1
        <3> QED
            BY <3>1 DEF UpTo
    <2>6. x \in S /\ x \in Nat /\ z \in Nat
        BY <2>3, <2>4
    <2>7. ~(x < z) /\ ~(z < x)
        BY <2>3, <2>4, <2>5, <2>6, RankStrict
    <2> QED
        BY <2>2, <2>6, <2>7
<1> QED
    BY <1>1, <1>2, <1>3

(* An increasing function maps a sorted set to a sorted set. *)
LEMMA SortedImage ==
    ASSUME NEW S \in SUBSET Nat, IsFiniteSet(S), NEW f \in [S -> Nat],
           \A x, y \in S : x < y => f[x] < f[y],
           NEW T, T = {f[x] : x \in S}
    PROVE  /\ T \in SUBSET Nat /\ IsFiniteSet(T) /\ Cardinality(T) = Cardinality(S)
           /\ Cardinality(S) \in Nat
           /\ \A i \in 1..Cardinality(S) : Sorted(S)[i] \in S /\ Sorted(T)[i] = f[Sorted(S)[i]]
<1> DEFINE n == Cardinality(S)
           at == Sorted(S)
           g == [i \in 1..n |-> f[at[i]]]
<1>1. /\ n \in Nat /\ at \in [1..n -> S]
      /\ \A i, j \in 1..n : i < j => at[i] < at[j]
      /\ \A x \in S : \E i \in 1..n : at[i] = x
    BY SortedFacts
<1> HIDE DEF n, at
<1>2. T \in SUBSET Nat /\ g \in [1..n -> T]
    BY <1>1
<1>3. \A i, j \in 1..n : i < j => g[i] < g[j]
    BY <1>1
<1>4. \A y \in T : \E i \in 1..n : g[i] = y
    BY <1>1
<1>5. \A i \in 1..n : g[i] = f[at[i]] /\ at[i] \in S
    BY <1>1
<1> HIDE DEF g
<1>6. IsFiniteSet(T) /\ Cardinality(T) = n /\ Sorted(T) = g
    BY <1>1, <1>2, <1>3, <1>4, SortedUnique
<1> QED
    BY <1>1, <1>2, <1>5, <1>6 DEF n, at

(***************************************************************************)
(* Sequences.                                                              *)
(***************************************************************************)
LEMMA ConcatFacts ==
    ASSUME NEW S, NEW s \in Seq(S), NEW t \in Seq(S)
    PROVE  /\ s \o t \in Seq(S)
           /\ DOMAIN (s \o t) = 1..(Len(s) + Len(t))
           /\ Len(s \o t) = Len(s) + Len(t)
           /\ \A i \in 1..Len(s) : (s \o t)[i] = s[i]
           /\ \A i \in (Len(s) + 1)..(Len(s) + Len(t)) : (s \o t)[i] = t[i - Len(s)]
OBVIOUS

LEMMA FunctionIsSeq ==
    ASSUME NEW S, NEW n \in Nat, NEW s \in [1..n -> S]
    PROVE  s \in Seq(S) /\ Len(s) = n
OBVIOUS

(***************************************************************************)
(* Powers of two: they count the subsets of a set.                         *)
(***************************************************************************)
LEMMA PowerZero == 2^0 = 1
<1>1. IsFiniteSet({}) /\ Cardinality({}) = 0
    BY FS_EmptySet
<1>2. Cardinality(SUBSET {}) = 2^0
    BY <1>1, FS_SUBSET
<1>3. SUBSET {} = {{}}
    OBVIOUS
<1> QED
    BY <1>2, <1>3, FS_Singleton

LEMMA PowerDoubles ==
    ASSUME NEW n \in Nat
    PROVE  2^n \in Nat /\ 2^(n + 1) = 2 * 2^n
<1> DEFINE S == 1..n
           T == 1..(n + 1)
           New == {U \cup {n + 1} : U \in SUBSET S}
<1>1. /\ IsFiniteSet(S) /\ Cardinality(S) = n
      /\ IsFiniteSet(T) /\ Cardinality(T) = n + 1
    BY FS_Interval
<1>2. /\ IsFiniteSet(SUBSET S) /\ Cardinality(SUBSET S) = 2^n
      /\ Cardinality(SUBSET T) = 2^(n + 1)
    BY <1>1, FS_SUBSET
<1>3. IsFiniteSet(New) /\ Cardinality(New) = 2^n
    <2> DEFINE add == [U \in SUBSET S |-> U \cup {n + 1}]
    <2>1. ASSUME NEW U \in SUBSET S, NEW V \in SUBSET S, add[U] = add[V] PROVE U = V
        BY <2>1
    <2>2. add \in Bijection(SUBSET S, New)
        <3>1. add \in [SUBSET S -> New] /\ IsInjective(add)
            <4>1. add \in [SUBSET S -> New]
                OBVIOUS
            <4>2. DOMAIN add = SUBSET S
                OBVIOUS
            <4> HIDE DEF add, S, New
            <4> QED
                BY <4>1, <4>2, <2>1 DEF IsInjective
        <3>2. \A W \in New : \E U \in SUBSET S : add[U] = W
            OBVIOUS
        <3> HIDE DEF add, S, New
        <3> QED
            BY <3>1, <3>2 DEF Bijection, Injection, Surjection
    <2>3. ExistsBijection(SUBSET S, New)
        BY <2>2 DEF ExistsBijection
    <2> HIDE DEF New, add
    <2> QED
        BY <1>2, <2>3, FS_Bijection
<1>4. SUBSET T = (SUBSET S) \cup New
    <2>1. ASSUME NEW U \in SUBSET T PROVE U \in (SUBSET S) \cup New
        <3>1. CASE n + 1 \in U
            <4>1. U \ {n + 1} \in SUBSET S /\ U = (U \ {n + 1}) \cup {n + 1}
                BY <3>1
            <4> QED
                BY <4>1
        <3>2. CASE n + 1 \notin U
            BY <3>2
        <3> QED
            BY <3>1, <3>2
    <2>2. S \cup {n + 1} \subseteq T
        OBVIOUS
    <2> QED
        BY <2>1, <2>2
<1>5. (SUBSET S) \cap New = {}
    OBVIOUS
<1> HIDE DEF S, T, New
<1>6. Cardinality((SUBSET S) \cup New) = 2^n + 2^n - Cardinality((SUBSET S) \cap New)
    BY <1>2, <1>3, FS_Union
<1>7. 2^n \in Nat /\ Cardinality({}) = 0
    BY <1>2, FS_CardinalityType, FS_EmptySet
<1>8. 2^(n + 1) = 2^n + 2^n - 0
    BY <1>2, <1>4, <1>5, <1>6, <1>7
<1> QED
    BY <1>7, <1>8
=============================================================================
