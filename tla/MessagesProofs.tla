--------------------------- MODULE MessagesProofs ---------------------------
(***************************************************************************)
(* Whatever bytes a provider sends, what an error takes from them is safe  *)
(* to print, and shows what can be shown.  The argument follows            *)
(* cleanBytes: once the runes are valid and the unsafe ones are spaces the *)
(* text is well formed (Good), no cut and no trim ever splits a character  *)
(* (Parts), and each step leaves the visible characters, or the first of   *)
(* them, as they are.                                                      *)
(***************************************************************************)
EXTENDS Messages, Lemmas

ValidRunes == {"x", ":", "s", "n"} \cup Leads
SafeRunes == {"x", ":", "s", "L", "F"}

(* A text of safe characters, each of them whole. *)
Good(t) ==
    /\ t \in Seq(SafeRunes \cup {"c"})
    /\ \A i \in DOMAIN t : t[i] \in Leads => Whole(t, i)
    /\ \A i \in DOMAIN t : t[i] = "c" => Covered(t, i)

GoodTexts == {t \in Seq(SafeRunes \cup {"c"}) : Good(t)}

LEMMA Constants ==
    /\ UTFMax \in Nat /\ UTFMax >= 1
    /\ maxMessageBytes \in Nat /\ maxMessageBytes >= UTFMax
BY MessagesAssumption

(***************************************************************************)
(* Least and greatest members.                                             *)
(***************************************************************************)
LEMMA MinFacts ==
    ASSUME NEW S \in SUBSET Nat, S # {}
    PROVE  Min(S) \in S /\ \A k \in S : Min(S) <= k
<1>1. PICK m \in S : \A k \in S : m <= k
    BY LeastNatural
<1> QED
    BY <1>1 DEF Min

LEMMA MaxFacts ==
    ASSUME NEW n \in Nat, NEW S \in SUBSET 0..n, S # {}
    PROVE  Max(S) \in S /\ \A k \in S : k <= Max(S)
<1> DEFINE R == {n - k : k \in S}
<1>1. R \in SUBSET Nat /\ R # {}
    <2>1. ASSUME NEW k \in S PROVE n - k \in Nat
        <3>1. k \in 0..n
            OBVIOUS
        <3> QED
            BY <3>1
    <2> QED
        BY <2>1
<1> HIDE DEF R
<1>2. PICK m \in R : \A k \in R : m <= k
    BY <1>1, LeastNatural
<1>3. PICK g \in S : m = n - g
    BY <1>2 DEF R
<1>4. ASSUME NEW k \in S PROVE k <= g
    <2>1. n - k \in R
        BY DEF R
    <2>2. n - g <= n - k /\ g \in 0..n /\ k \in 0..n
        BY <1>2, <1>3, <2>1
    <2> QED
        BY <2>2
<1>5. \E x \in S : \A y \in S : x >= y
    <2>1. \A y \in S : g >= y
        BY <1>4
    <2> QED
        BY <2>1
<1>6. Max(S) \in S /\ \A y \in S : Max(S) >= y
    BY <1>5 DEF Max
<1> QED
    BY <1>6

(***************************************************************************)
(* Decoding.                                                               *)
(***************************************************************************)
LEMMA StartsFacts ==
    ASSUME NEW t \in Texts
    PROVE  /\ Starts(t) \in SUBSET (1..Len(t)) /\ Starts(t) \in SUBSET Nat
           /\ IsFiniteSet(Starts(t))
<1>1. Starts(t) \in SUBSET (1..Len(t)) /\ Len(t) \in Nat
    BY DEF Starts, Texts
<1>2. IsFiniteSet(1..Len(t))
    BY <1>1, FS_Interval
<1> QED
    BY <1>1, <1>2, FS_Subset

LEMMA DecodeFacts ==
    ASSUME NEW t \in Texts
    PROVE  \E n \in Nat :
             /\ Decode(t) \in [1..n -> ValidRunes \cup {"bad"}]
             /\ \A k \in 1..n : \E i \in Starts(t) : Decode(t)[k] = RuneAt(t, i)
<1> DEFINE begin == Sorted(Starts(t))
           n == Cardinality(Starts(t))
<1>1. n \in Nat /\ begin \in [1..n -> Starts(t)]
    BY StartsFacts, SortedFacts
<1>2. ASSUME NEW i \in Starts(t) PROVE RuneAt(t, i) \in ValidRunes \cup {"bad"}
    <2>1. i \in 1..Len(t) /\ t[i] \in Bytes
        BY StartsFacts DEF Texts
    <2> QED
        BY <2>1 DEF RuneAt, Bytes, ValidRunes
<1>3. Decode(t) = [k \in DOMAIN begin |-> RuneAt(t, begin[k])]
    BY DEF Decode
<1> HIDE DEF begin, n
<1>4. DOMAIN begin = 1..n
    BY <1>1
<1>5. Decode(t) \in [1..n -> ValidRunes \cup {"bad"}]
    BY <1>1, <1>2, <1>3, <1>4
<1>6. \A k \in 1..n : \E i \in Starts(t) : Decode(t)[k] = RuneAt(t, i)
    BY <1>1, <1>3, <1>4
<1> QED
    BY <1>1, <1>5, <1>6

(* A text of whole, safe characters decodes to safe runes. *)
LEMMA GoodDecodes ==
    ASSUME NEW t, Good(t)
    PROVE  \A rune \in Range(Decode(t)) : rune # "bad" /\ ~isUnsafe(rune)
<1>1. t \in Texts
    BY DEF Good, Texts, Bytes, SafeRunes, Leads
<1>2. ASSUME NEW i \in Starts(t) PROVE RuneAt(t, i) \in SafeRunes
    <2>1. i \in DOMAIN t /\ t[i] \in SafeRunes \cup {"c"} /\ ~Covered(t, i)
        BY DEF Good, Starts
    <2>2. t[i] # "c" /\ (t[i] \in Leads => Whole(t, i))
        BY <2>1 DEF Good
    <2> QED
        BY <2>1, <2>2 DEF RuneAt
<1>3. PICK n \in Nat :
        /\ Decode(t) \in [1..n -> ValidRunes \cup {"bad"}]
        /\ \A k \in 1..n : \E i \in Starts(t) : Decode(t)[k] = RuneAt(t, i)
    BY <1>1, DecodeFacts
<1>4. \A k \in DOMAIN Decode(t) : Decode(t)[k] \in SafeRunes
    BY <1>2, <1>3
<1> QED
    BY <1>4 DEF Range, SafeRunes, isUnsafe

(***************************************************************************)
(* Cutting.                                                                *)
(***************************************************************************)
LEMMA SliceFacts ==
    ASSUME NEW S, NEW t \in Seq(S), NEW a \in 1..Len(t), NEW b \in 0..Len(t), a <= b + 1
    PROVE  /\ SubSeq(t, a, b) \in Seq(S) /\ Len(SubSeq(t, a, b)) = b - a + 1
           /\ \A i \in 1..(b - a + 1) : SubSeq(t, a, b)[i] = t[a + i - 1]
OBVIOUS

(* A slice of a good text that splits no character is good. *)
LEMMA SliceIsGood ==
    ASSUME NEW t \in GoodTexts, NEW a \in 1..Len(t), NEW b \in 1..Len(t), a <= b,
           \A j \in DOMAIN t : Whole(t, j) /\ j <= b => j + UTFMax - 1 <= b,
           \A j \in DOMAIN t : Whole(t, j) /\ j < a => j + UTFMax - 1 < a
    PROVE  SubSeq(t, a, b) \in GoodTexts
<1> DEFINE u == SubSeq(t, a, b)
<1>1. /\ t \in Seq(SafeRunes \cup {"c"}) /\ Len(t) \in Nat
      /\ \A i \in DOMAIN t : t[i] \in Leads => Whole(t, i)
      /\ \A i \in DOMAIN t : t[i] = "c" => Covered(t, i)
    BY DEF GoodTexts, Good
<1>2. /\ u \in Seq(SafeRunes \cup {"c"}) /\ Len(u) = b - a + 1
      /\ \A i \in 1..(b - a + 1) : u[i] = t[a + i - 1]
    BY <1>1, SliceFacts
<1> HIDE DEF u
<1>3. ASSUME NEW j \in DOMAIN t, Whole(t, j), a <= j, j <= b PROVE Whole(u, j - a + 1)
    <2> DEFINE k == j - a + 1
    <2>1. /\ j + UTFMax - 1 <= b /\ j \in 1..Len(t) /\ k \in 1..(b - a + 1)
          /\ k + UTFMax - 1 <= Len(u)
        BY <1>1, <1>2, <1>3, Constants
    <2>2. u[k] \in Leads
        <3>1. u[k] = t[j]
            BY <1>2, <2>1, <1>1
        <3> QED
            BY <1>3, <3>1 DEF Whole
    <2>3. ASSUME NEW i \in (k + 1)..(k + UTFMax - 1) PROVE u[i] = "c"
        <3>1. i \in 1..(b - a + 1) /\ a + i - 1 \in (j + 1)..(j + UTFMax - 1)
            <4>1. a \in Int /\ b \in Int /\ j \in Int /\ UTFMax \in Int
                BY <1>1, <2>1, Constants
            <4> i \in Int /\ j - a + 2 <= i /\ i <= j - a + UTFMax
                <5>1. k \in Int
                    BY <2>1
                <5>2. i \in Int /\ k + 1 <= i /\ i <= k + UTFMax - 1
                    <6> HIDE DEF k
                    <6> QED
                        BY <4>1, <5>1
                <5> QED
                    BY <4>1, <5>2
            <4>2. j + UTFMax - 1 <= b /\ a <= j
                BY <1>3, <2>1
            <4> HIDE DEF k
            <4> QED
                BY <4>1, <4>2
        <3>2. t[a + i - 1] = "c"
            BY <1>3, <3>1 DEF Whole
        <3> QED
            BY <1>2, <3>1, <3>2
    <2> QED
        BY <2>1, <2>2, <2>3 DEF Whole
<1>4. ASSUME NEW i \in DOMAIN u, u[i] \in Leads PROVE Whole(u, i)
    <2>1. i \in 1..(b - a + 1) /\ a + i - 1 \in DOMAIN t /\ a <= a + i - 1 /\ a + i - 1 <= b
        BY <1>1, <1>2
    <2>2. u[i] = t[a + i - 1]
        BY <1>2, <2>1
    <2>3. Whole(t, a + i - 1)
        BY <1>1, <1>4, <2>1, <2>2
    <2>4. Whole(u, (a + i - 1) - a + 1)
        BY <1>3, <2>1, <2>3
    <2> QED
        BY <2>1, <2>4
<1>5. ASSUME NEW i \in DOMAIN u, u[i] = "c" PROVE Covered(u, i)
    <2>1. i \in 1..(b - a + 1) /\ a + i - 1 \in DOMAIN t
        BY <1>1, <1>2
    <2>2. Covered(t, a + i - 1)
        BY <1>1, <1>2, <1>5, <2>1
    <2>3. PICK j \in DOMAIN t :
            j < a + i - 1 /\ a + i - 1 < j + UTFMax /\ Whole(t, j)
        BY <2>2 DEF Covered
    <2>4. j \in Nat
        BY <1>1
    <2>5. a <= j /\ j <= b
        <3>1. CASE j < a
            <4>1. j + UTFMax - 1 < a
                BY <2>3, <3>1
            <4> QED
                BY <2>1, <2>3, <2>4, <4>1, Constants
        <3> QED
            BY <2>1, <2>3, <2>4, <3>1, <1>1
    <2>6. Whole(u, j - a + 1)
        BY <1>3, <2>3, <2>5
    <2>7. j - a + 1 \in DOMAIN u /\ j - a + 1 < i /\ i < j - a + 1 + UTFMax
        <3>1. a \in Int /\ b \in Int /\ j \in Int /\ i \in Int /\ UTFMax \in Int
            BY <1>1, <2>1, <2>4, Constants
        <3>2. j < a + i - 1 /\ a + i - 1 < j + UTFMax /\ a <= j /\ j <= b
            BY <2>3, <2>5
        <3>3. j - a + 1 \in 1..(b - a + 1) /\ j - a + 1 < i /\ i < j - a + 1 + UTFMax
            BY <3>1, <3>2
        <3> QED
            BY <1>2, <3>3
    <2> QED
        BY <2>6, <2>7 DEF Covered
<1> QED
    BY <1>2, <1>4, <1>5 DEF GoodTexts, Good, u

LEMMA GoodIsText ==
    ASSUME NEW t \in GoodTexts
    PROVE  t \in Texts /\ t \in Seq(SafeRunes \cup {"c"}) /\ Len(t) \in Nat /\ DOMAIN t = 1..Len(t)
<1>1. SafeRunes \cup {"c"} \subseteq Bytes
    BY DEF SafeRunes, Bytes, Leads
<1> QED
    BY <1>1 DEF GoodTexts, Texts

LEMMA EmptyIsGood == <<>> \in GoodTexts
BY DEF GoodTexts, Good

(* Where truncateMessage cuts a text that is too long. *)
Ends(t) == {e \in (maxMessageBytes - UTFMax + 1)..maxMessageBytes : t[e + 1] # "c"}
Cut(t) == IF Ends(t) = {} THEN maxMessageBytes ELSE Max(Ends(t))

LEMMA CutFacts ==
    ASSUME NEW t
    PROVE  /\ Cut(t) \in 1..maxMessageBytes
           /\ Ends(t) # {} => Cut(t) \in Ends(t)
<1>1. Ends(t) \in SUBSET (0..maxMessageBytes)
    BY Constants DEF Ends
<1>2. Ends(t) # {} => Max(Ends(t)) \in Ends(t)
    BY <1>1, Constants, MaxFacts
<1>3. \A e \in Ends(t) : e \in 1..maxMessageBytes
    BY Constants DEF Ends
<1> QED
    BY <1>2, <1>3, Constants DEF Cut

LEMMA TruncateCuts ==
    ASSUME NEW t \in Texts, Len(t) > maxMessageBytes
    PROVE  truncateMessage(t) = SubSeq(t, 1, Cut(t))
<1>1. ~(Len(t) <= maxMessageBytes)
    BY Constants DEF Texts
<1> QED
    BY <1>1 DEF truncateMessage, Cut, Ends

LEMMA TruncateTyped ==
    ASSUME NEW t \in Texts
    PROVE  truncateMessage(t) \in Texts /\ Len(truncateMessage(t)) <= maxMessageBytes
<1>1. CASE Len(t) <= maxMessageBytes
    BY <1>1 DEF truncateMessage
<1>2. CASE Len(t) > maxMessageBytes
    <2> DEFINE e == Cut(t)
    <2>1. e \in 1..maxMessageBytes
        BY CutFacts
    <2>2. Len(t) \in Nat /\ maxMessageBytes \in Nat /\ t \in Seq(Bytes)
        BY Constants DEF Texts
    <2> HIDE DEF e
    <2>3. 1 \in 1..Len(t) /\ e \in 0..Len(t) /\ 1 <= e + 1 /\ e <= maxMessageBytes
        BY <1>2, <2>1, <2>2
    <2>4. SubSeq(t, 1, e) \in Seq(Bytes) /\ Len(SubSeq(t, 1, e)) = e - 1 + 1
        BY <2>2, <2>3, SliceFacts
    <2>5. truncateMessage(t) = SubSeq(t, 1, e)
        BY <1>2, TruncateCuts DEF e
    <2> QED
        BY <2>3, <2>4, <2>5 DEF Texts
<1> QED
    BY <1>1, <1>2, Constants DEF Texts

(* A good text is cut between two characters. *)
LEMMA TruncateIsGood ==
    ASSUME NEW t \in GoodTexts
    PROVE  truncateMessage(t) \in GoodTexts
<1>1. t \in Texts /\ Len(t) \in Nat /\ DOMAIN t = 1..Len(t)
    BY GoodIsText
<1>2. CASE Len(t) <= maxMessageBytes
    BY <1>2 DEF truncateMessage
<1>3. CASE Len(t) > maxMessageBytes
    <2> DEFINE e == Cut(t)
               m == maxMessageBytes
    <2>1. Ends(t) # {}
        <3>1. CASE t[m + 1] # "c"
            <4>1. m \in Ends(t)
                BY <3>1, Constants DEF Ends
            <4> QED
                BY <4>1
        <3>2. CASE t[m + 1] = "c"
            <4>1. m + 1 \in DOMAIN t
                BY <1>1, <1>3, Constants
            <4>2. Covered(t, m + 1)
                BY <3>2, <4>1 DEF GoodTexts, Good
            <4>3. PICK j \in DOMAIN t : j < m + 1 /\ m + 1 < j + UTFMax /\ Whole(t, j)
                BY <4>2 DEF Covered
            <4>4. t[j] # "c" /\ j \in Nat
                BY <1>1, <4>3 DEF Whole, Leads
            <4>5. j - 1 \in (m - UTFMax + 1)..m /\ (j - 1) + 1 = j
                BY <4>3, <4>4, Constants
            <4>6. j - 1 \in Ends(t)
                BY <4>4, <4>5 DEF Ends
            <4> QED
                BY <4>6
        <3> QED
            BY <3>1, <3>2
    <2>2. e \in 1..m /\ t[e + 1] # "c"
        BY <2>1, CutFacts DEF Ends
    <2> HIDE DEF e
    <2>3. e \in 1..Len(t) /\ 1 \in 1..Len(t) /\ 1 <= e
        BY <1>1, <1>3, <2>2, Constants
    <2>4. ASSUME NEW j \in DOMAIN t, Whole(t, j), j <= e PROVE j + UTFMax - 1 <= e
        <3> SUFFICES ASSUME j + UTFMax - 1 > e PROVE FALSE
            BY <1>1, <2>3, Constants
        <3>1. e + 1 \in (j + 1)..(j + UTFMax - 1)
            BY <1>1, <2>3, <2>4, Constants
        <3> QED
            BY <2>2, <2>4, <3>1 DEF Whole
    <2>5. ASSUME NEW j \in DOMAIN t, j < 1 PROVE FALSE
        BY <1>1, <2>5
    <2>6. SubSeq(t, 1, e) \in GoodTexts
        BY <2>3, <2>4, <2>5, SliceIsGood
    <2> QED
        BY <1>1, <1>3, <2>6, TruncateCuts DEF e
<1> QED
    BY <1>1, <1>2, <1>3, Constants

(* Trimming drops bytes that are characters of their own. *)
LEMMA TrimIsGood ==
    ASSUME NEW t \in GoodTexts
    PROVE  /\ TrimSpace(t) \in GoodTexts /\ Len(TrimSpace(t)) <= Len(t)
           /\ TrimSpace(t) # <<>> => TrimSpace(t)[1] # "s" /\ Last(TrimSpace(t)) # "s"
<1> DEFINE kept == {i \in DOMAIN t : t[i] # "s"}
           a == Min(kept)
           b == Max(kept)
           u == SubSeq(t, a, b)
<1>1. /\ t \in Seq(SafeRunes \cup {"c"}) /\ t \in Texts /\ Len(t) \in Nat
      /\ DOMAIN t = 1..Len(t)
    BY GoodIsText
<1>2. CASE kept = {}
    BY <1>1, <1>2, EmptyIsGood DEF TrimSpace
<1>3. CASE kept # {}
    <2>1. kept \in SUBSET Nat /\ kept \in SUBSET (0..Len(t))
        BY <1>1
    <2>2. TrimSpace(t) = u
        BY <1>3 DEF TrimSpace
    <2>3. a \in kept /\ (\A k \in kept : a <= k)
        <3> HIDE DEF kept
        <3> QED
            BY <1>3, <2>1, MinFacts
    <2>4. b \in kept /\ (\A k \in kept : k <= b)
        <3> HIDE DEF kept
        <3> QED
            BY <1>1, <1>3, <2>1, MaxFacts
    <2>5. ASSUME NEW j \in DOMAIN t, Whole(t, j)
          PROVE  \A k \in j..(j + UTFMax - 1) : k \in kept
        <3>1. t[j] \in Leads /\ j + UTFMax - 1 <= Len(t) /\ j \in 1..Len(t)
              /\ \A k \in (j + 1)..(j + UTFMax - 1) : t[k] = "c"
            BY <1>1, <2>5 DEF Whole
        <3>2. \A k \in j..(j + UTFMax - 1) :
                k \in 1..Len(t) /\ (k = j \/ k \in (j + 1)..(j + UTFMax - 1))
            BY <1>1, <3>1, Constants
        <3> QED
            BY <1>1, <3>1, <3>2 DEF Leads
    <2> HIDE DEF kept, a, b, u
    <2>6. /\ a \in 1..Len(t) /\ b \in 1..Len(t) /\ a <= b
          /\ t[a] # "s" /\ t[b] # "s"
        BY <1>1, <2>3, <2>4 DEF kept
    <2>7. ASSUME NEW j \in DOMAIN t, Whole(t, j)
          PROVE  a <= j /\ j + UTFMax - 1 <= b
        <3>1. j \in j..(j + UTFMax - 1) /\ j + UTFMax - 1 \in j..(j + UTFMax - 1)
            BY <1>1, Constants
        <3> QED
            BY <2>3, <2>4, <2>5, <2>7, <3>1
    <2>8. ASSUME NEW j \in DOMAIN t, Whole(t, j), j < a PROVE FALSE
        BY <1>1, <2>6, <2>7, <2>8
    <2>9. u \in GoodTexts
        <3>1. \A j \in DOMAIN t : Whole(t, j) /\ j <= b => j + UTFMax - 1 <= b
            BY <2>7
        <3>2. \A j \in DOMAIN t : Whole(t, j) /\ j < a => j + UTFMax - 1 < a
            BY <2>8
        <3> QED
            BY <2>6, <3>1, <3>2, SliceIsGood DEF u
    <2>10. /\ Len(u) = b - a + 1
           /\ \A i \in 1..(b - a + 1) : u[i] = t[a + i - 1]
        <3>1. b \in 0..Len(t) /\ a <= b + 1
            BY <1>1, <2>6
        <3> QED
            BY <1>1, <2>6, <3>1, SliceFacts DEF u
    <2>11. /\ 1 \in 1..(b - a + 1) /\ a + 1 - 1 = a
           /\ b - a + 1 \in 1..(b - a + 1) /\ a + (b - a + 1) - 1 = b
           /\ b - a + 1 <= Len(t)
        BY <1>1, <2>6
    <2>12. u[1] # "s" /\ u[Len(u)] # "s"
        BY <2>6, <2>10, <2>11
    <2> QED
        BY <2>2, <2>9, <2>10, <2>11, <2>12 DEF Last
<1> QED
    BY <1>2, <1>3

(***************************************************************************)
(* Joining.                                                                *)
(***************************************************************************)
(* What a function by recursion on the number of parts looks like. *)
Joins(f, n, seqs) == f = [i \in 1..n |-> IF i = 1 THEN seqs[i] ELSE f[i - 1] \o seqs[i]]

LEMMA JoinsExists ==
    ASSUME NEW seqs, NEW n \in Nat
    PROVE  \E f : Joins(f, n, seqs)
<1> DEFINE S == {k \in Nat : \E f : Joins(f, k, seqs)}
<1>1. 0 \in S
    <2>1. Joins([i \in 1..0 |-> seqs[i]], 0, seqs)
        BY DEF Joins
    <2> QED
        BY <2>1
<1>2. ASSUME NEW k \in Nat, k \in S PROVE k + 1 \in S
    <2>1. PICK f : Joins(f, k, seqs)
        BY <1>2
    <2> DEFINE next == IF k = 0 THEN seqs[1] ELSE f[k] \o seqs[k + 1]
               g == [i \in 1..(k + 1) |-> IF i = k + 1 THEN next ELSE f[i]]
    <2>2. \A i \in 1..(k + 1) : g[i] = IF i = 1 THEN seqs[i] ELSE g[i - 1] \o seqs[i]
        <3>1. ASSUME NEW i \in 1..k
              PROVE  /\ f[i] = (IF i = 1 THEN seqs[i] ELSE f[i - 1] \o seqs[i])
                     /\ i # k + 1 /\ i - 1 # k + 1 /\ (i # 1 => i - 1 \in 1..(k + 1))
            <4>1. f[i] = (IF i = 1 THEN seqs[i] ELSE f[i - 1] \o seqs[i])
                BY <2>1 DEF Joins
            <4> QED
                BY <4>1
        <3>2. ASSUME NEW i \in 1..k PROVE g[i] = IF i = 1 THEN seqs[i] ELSE g[i - 1] \o seqs[i]
            <4>1. g[i] = f[i] /\ (i # 1 => g[i - 1] = f[i - 1])
                BY <3>1
            <4> HIDE DEF g
            <4> QED
                BY <3>1, <4>1
        <3>3. g[k + 1] = IF k + 1 = 1 THEN seqs[k + 1] ELSE g[(k + 1) - 1] \o seqs[k + 1]
            <4>1. g[k + 1] = next
                OBVIOUS
            <4>2. k # 0 => g[k] = f[k] /\ (k + 1) - 1 = k /\ k + 1 # 1
                OBVIOUS
            <4> HIDE DEF g
            <4> QED
                BY <4>1, <4>2
        <3>4. \A i \in 1..(k + 1) : i \in 1..k \/ i = k + 1
            OBVIOUS
        <3> HIDE DEF g
        <3> QED
            BY <3>2, <3>3, <3>4
    <2>3. g = [i \in 1..(k + 1) |-> IF i = 1 THEN seqs[i] ELSE g[i - 1] \o seqs[i]]
        <3>1. g = [i \in 1..(k + 1) |-> g[i]]
            OBVIOUS
        <3> HIDE DEF g
        <3> QED
            BY <2>2, <3>1
    <2>4. Joins(g, k + 1, seqs)
        <3> HIDE DEF g
        <3> QED
            BY <2>3 DEF Joins
    <2> QED
        BY <2>4
<1>3. Nat \subseteq S
    <2> HIDE DEF S
    <2> QED
        BY <1>1, <1>2, SetInduction
<1> QED
    BY <1>3

(* A set of sequences that holds <<>> and is closed under \o holds what    *)
(* FlattenSeq makes of its members.                                        *)
LEMMA FlattenInSet ==
    ASSUME NEW T, <<>> \in T, \A a, b \in T : a \o b \in T,
           NEW n \in Nat, NEW seqs \in [1..n -> T], Len(seqs) = n
    PROVE  FlattenSeq(seqs) \in T
<1>1. CASE n = 0
    <2>1. seqs = <<>>
        BY <1>1
    <2> QED
        BY <1>1, <2>1 DEF FlattenSeq
<1>2. CASE n # 0
    <2> DEFINE flat == CHOOSE f : Joins(f, n, seqs)
    <2>1. Joins(flat, n, seqs)
        BY JoinsExists
    <2>2. FlattenSeq(seqs) = flat[n]
        <3>1. Len(seqs) # 0
            BY <1>2
        <3> QED
            BY <3>1 DEF FlattenSeq, Joins
    <2> HIDE DEF flat
    <2> DEFINE S == {k \in Nat : k + 1 <= n => flat[k + 1] \in T}
    <2>3. \A i \in 1..n : flat[i] = IF i = 1 THEN seqs[i] ELSE flat[i - 1] \o seqs[i]
        BY <2>1 DEF Joins
    <2>4. 0 \in S
        <3>1. 1 \in 1..n
            BY <1>2
        <3>2. flat[1] = seqs[1] /\ seqs[1] \in T
            BY <2>3, <3>1
        <3> QED
            BY <3>2
    <2>5. ASSUME NEW k \in Nat, k \in S PROVE k + 1 \in S
        <3> SUFFICES ASSUME (k + 1) + 1 <= n PROVE flat[(k + 1) + 1] \in T
            OBVIOUS
        <3>1. k + 2 \in 1..n /\ k + 2 # 1 /\ (k + 2) - 1 = k + 1 /\ k + 1 <= n /\ (k + 1) + 1 = k + 2
            OBVIOUS
        <3>2. flat[k + 2] = flat[k + 1] \o seqs[k + 2]
            BY <2>3, <3>1
        <3>3. flat[k + 1] \in T /\ seqs[k + 2] \in T
            BY <2>5, <3>1
        <3> QED
            BY <3>1, <3>2, <3>3
    <2>6. Nat \subseteq S
        <3> HIDE DEF S
        <3> QED
            BY <2>4, <2>5, SetInduction
    <2>7. n - 1 \in Nat /\ (n - 1) + 1 = n
        BY <1>2
    <2> QED
        BY <2>2, <2>6, <2>7
<1> QED
    BY <1>1, <1>2

LEMMA JoinedIsGood ==
    ASSUME NEW a \in GoodTexts, NEW b \in GoodTexts
    PROVE  a \o b \in GoodTexts
<1> DEFINE S == SafeRunes \cup {"c"}
           u == a \o b
           m == Len(a)
           n == Len(b)
<1>1. /\ a \in Seq(S) /\ b \in Seq(S) /\ m \in Nat /\ n \in Nat
      /\ DOMAIN a = 1..m /\ DOMAIN b = 1..n
    BY GoodIsText
<1>2. /\ u \in Seq(S) /\ DOMAIN u = 1..(m + n) /\ Len(u) = m + n
      /\ \A i \in 1..m : u[i] = a[i]
      /\ \A i \in (m + 1)..(m + n) : u[i] = b[i - m]
    <2> HIDE DEF S
    <2> QED
        BY <1>1, ConcatFacts
<1> HIDE DEF u, m, n, S
<1>3. ASSUME NEW j \in 1..m, Whole(a, j) PROVE Whole(u, j)
    <2>1. a[j] \in Leads /\ j + UTFMax - 1 <= m /\ \A k \in (j + 1)..(j + UTFMax - 1) : a[k] = "c"
        BY <1>3 DEF Whole, m
    <2>2. \A k \in (j + 1)..(j + UTFMax - 1) : k \in 1..m
        BY <1>1, <2>1, Constants
    <2>3. j + UTFMax - 1 <= m + n
        BY <1>1, <2>1, Constants
    <2> QED
        BY <1>2, <2>1, <2>2, <2>3 DEF Whole
<1>4. ASSUME NEW j \in 1..n, Whole(b, j) PROVE Whole(u, m + j)
    <2>1. b[j] \in Leads /\ j + UTFMax - 1 <= n /\ \A k \in (j + 1)..(j + UTFMax - 1) : b[k] = "c"
        BY <1>4 DEF Whole, n
    <2>2. ASSUME NEW k \in (m + j + 1)..(m + j + UTFMax - 1) PROVE u[k] = "c"
        <3>1. k \in (m + 1)..(m + n) /\ k - m \in (j + 1)..(j + UTFMax - 1)
            BY <1>1, <2>1, Constants
        <3> QED
            BY <1>2, <2>1, <3>1
    <2>3. m + j + UTFMax - 1 <= m + n /\ m + j \in (m + 1)..(m + n) /\ (m + j) - m = j
        BY <1>1, <2>1, Constants
    <2>4. u[m + j] = b[j]
        BY <1>2, <2>3
    <2> QED
        BY <1>2, <2>1, <2>2, <2>3, <2>4 DEF Whole
<1>5. ASSUME NEW i \in 1..m
      PROVE  (u[i] \in Leads => Whole(u, i)) /\ (u[i] = "c" => Covered(u, i))
    <2>1. u[i] = a[i] /\ (a[i] \in Leads => Whole(a, i)) /\ (a[i] = "c" => Covered(a, i))
        BY <1>1, <1>2 DEF GoodTexts, Good
    <2>2. ASSUME Covered(a, i) PROVE Covered(u, i)
        <3>1. PICK j \in DOMAIN a : j < i /\ i < j + UTFMax /\ Whole(a, j)
            BY <2>2 DEF Covered
        <3>2. j \in 1..m /\ j \in DOMAIN u
            BY <1>1, <1>2
        <3> QED
            BY <1>3, <3>1, <3>2 DEF Covered
    <2> QED
        BY <1>3, <2>1, <2>2
<1>6. ASSUME NEW i \in 1..n
      PROVE  (u[m + i] \in Leads => Whole(u, m + i)) /\ (u[m + i] = "c" => Covered(u, m + i))
    <2>1. u[m + i] = b[i]
        <3>1. m + i \in (m + 1)..(m + n) /\ (m + i) - m = i
            BY <1>1
        <3> QED
            BY <1>2, <3>1
    <2>2. (b[i] \in Leads => Whole(b, i)) /\ (b[i] = "c" => Covered(b, i))
        BY <1>1 DEF GoodTexts, Good
    <2>3. ASSUME Covered(b, i) PROVE Covered(u, m + i)
        <3>1. PICK j \in DOMAIN b : j < i /\ i < j + UTFMax /\ Whole(b, j)
            BY <2>3 DEF Covered
        <3>2. j \in 1..n /\ m + j \in 1..(m + n) /\ m + j < m + i /\ m + i < m + j + UTFMax
            BY <1>1, <3>1, Constants
        <3> QED
            BY <1>2, <1>4, <3>1, <3>2 DEF Covered
    <2> QED
        BY <1>4, <2>1, <2>2, <2>3
<1>7. ASSUME NEW i \in DOMAIN u PROVE i \in 1..m \/ (i - m \in 1..n /\ m + (i - m) = i)
    BY <1>1, <1>2
<1>8. \A i \in DOMAIN u : (u[i] \in Leads => Whole(u, i)) /\ (u[i] = "c" => Covered(u, i))
    BY <1>5, <1>6, <1>7
<1>9. u \in GoodTexts
    BY <1>2, <1>8 DEF GoodTexts, Good, S
<1> QED
    BY <1>9 DEF u

LEMMA EncodedIsGood ==
    ASSUME NEW rune \in SafeRunes
    PROVE  Encode(rune) \in GoodTexts
<1> DEFINE u == Encode(rune)
<1>1. CASE rune \in Leads
    <2> DEFINE S == SafeRunes \cup {"c"}
    <2>1. /\ u = [i \in 1..UTFMax |-> IF i = 1 THEN rune ELSE "c"]
          /\ u \in [1..UTFMax -> S]
        BY <1>1 DEF Encode
    <2>2. u \in Seq(S) /\ Len(u) = UTFMax /\ DOMAIN u = 1..UTFMax
        <3> HIDE DEF u, S
        <3> QED
            BY <2>1, Constants, FunctionIsSeq
    <2>3. u[1] = rune /\ (\A i \in 2..UTFMax : u[i] = "c")
        BY <2>1, Constants
    <2> HIDE DEF u
    <2>4. Whole(u, 1)
        BY <1>1, <2>2, <2>3, Constants DEF Whole
    <2>5. ASSUME NEW i \in 1..UTFMax
          PROVE  (u[i] \in Leads => Whole(u, i)) /\ (u[i] = "c" => Covered(u, i))
        <3>1. CASE i = 1
            BY <1>1, <2>3, <2>4, <3>1 DEF Leads
        <3>2. CASE i \in 2..UTFMax
            <4>1. 1 \in DOMAIN u /\ 1 < i /\ i < 1 + UTFMax
                BY <2>2, <3>2, Constants
            <4> QED
                BY <2>3, <2>4, <3>2, <4>1 DEF Covered, Leads
        <3> QED
            BY <3>1, <3>2, Constants
    <2> QED
        BY <2>2, <2>5 DEF GoodTexts, Good, u
<1>2. CASE rune \notin Leads
    <2>1. u = <<rune>> /\ rune # "c"
        BY <1>2 DEF Encode, SafeRunes
    <2>2. <<rune>> \in Seq(SafeRunes \cup {"c"})
        OBVIOUS
    <2>3. \A i \in DOMAIN <<rune>> : <<rune>>[i] = rune
        OBVIOUS
    <2> QED
        BY <1>2, <2>1, <2>2, <2>3 DEF GoodTexts, Good
<1> QED
    BY <1>1, <1>2

(* Valid runes, the unsafe ones replaced by spaces, make a good text. *)
LEMMA SanitizedIsGood ==
    ASSUME NEW n \in Nat, NEW runes \in [1..n -> ValidRunes]
    PROVE  Sanitize(runes) \in GoodTexts
<1> DEFINE parts == [k \in DOMAIN runes |-> Encode(IF isUnsafe(runes[k]) THEN "s" ELSE runes[k])]
<1>1. ASSUME NEW k \in 1..n
      PROVE  Encode(IF isUnsafe(runes[k]) THEN "s" ELSE runes[k]) \in GoodTexts
    <2>1. runes[k] \in ValidRunes
        OBVIOUS
    <2>2. (IF isUnsafe(runes[k]) THEN "s" ELSE runes[k]) \in SafeRunes
        BY <2>1 DEF ValidRunes, SafeRunes, Leads, isUnsafe
    <2> QED
        BY <2>2, EncodedIsGood
<1>2. parts \in [1..n -> GoodTexts]
    BY <1>1
<1>3. Sanitize(runes) = FlattenSeq(parts)
    BY DEF Sanitize
<1> HIDE DEF parts
<1>4. Len(parts) = n
    BY <1>2, FunctionIsSeq
<1> QED
    BY <1>2, <1>3, <1>4, EmptyIsGood, JoinedIsGood, FlattenInSet

(***************************************************************************)
(* From any bytes to valid runes.                                          *)
(***************************************************************************)
LEMMA TrimLeftTyped ==
    ASSUME NEW t \in Texts
    PROVE  TrimLeft(t) \in Texts
<1> DEFINE kept == {i \in Starts(t) : ~isUnsafeOrSpace(RuneAt(t, i))}
<1>1. CASE kept = {}
    BY <1>1 DEF TrimLeft, Texts
<1>2. CASE kept # {}
    <2>1. kept \in SUBSET Nat /\ kept \subseteq 1..Len(t) /\ Len(t) \in Nat /\ t \in Seq(Bytes)
        BY StartsFacts DEF Texts
    <2>2. TrimLeft(t) = SubSeq(t, Min(kept), Len(t))
        BY <1>2 DEF TrimLeft
    <2> HIDE DEF kept
    <2>3. Min(kept) \in 1..Len(t)
        BY <1>2, <2>1, MinFacts
    <2>4. Len(t) \in 0..Len(t) /\ Min(kept) <= Len(t) + 1
        BY <2>1, <2>3
    <2> QED
        BY <2>1, <2>2, <2>3, <2>4, SliceFacts DEF Texts
<1> QED
    BY <1>1, <1>2

LEMMA ValidFacts ==
    ASSUME NEW t \in Texts
    PROVE  /\ Valid(t) \in SUBSET Starts(t) /\ Valid(t) \in SUBSET Nat /\ IsFiniteSet(Valid(t))
           /\ \A i \in Valid(t) :
                (IF RuneAt(t, i) = "bad" THEN "F" ELSE RuneAt(t, i)) \in ValidRunes
<1>1. Valid(t) \in SUBSET Starts(t)
    BY DEF Valid
<1>2. Valid(t) \in SUBSET Nat /\ IsFiniteSet(Valid(t))
    BY <1>1, StartsFacts, FS_Subset
<1>3. ASSUME NEW i \in Starts(t)
      PROVE  (IF RuneAt(t, i) = "bad" THEN "F" ELSE RuneAt(t, i)) \in ValidRunes
    <2>1. i \in 1..Len(t) /\ t[i] \in Bytes
        BY StartsFacts DEF Texts
    <2> QED
        BY <2>1 DEF RuneAt, Bytes, ValidRunes, Leads
<1> QED
    BY <1>1, <1>2, <1>3

LEMMA ToValidFacts ==
    ASSUME NEW t \in Texts
    PROVE  LET at == Sorted(Valid(t))  n == Cardinality(Valid(t)) IN
           /\ n \in Nat /\ at \in [1..n -> Valid(t)]
           /\ ToValidUTF8(t) \in [1..n -> ValidRunes]
           /\ \A k \in 1..n :
                ToValidUTF8(t)[k] = IF RuneAt(t, at[k]) = "bad" THEN "F" ELSE RuneAt(t, at[k])
<1> DEFINE at == Sorted(Valid(t))
           n == Cardinality(Valid(t))
<1>1. n \in Nat /\ at \in [1..n -> Valid(t)]
    BY ValidFacts, SortedFacts
<1>2. ToValidUTF8(t) =
        [k \in DOMAIN at |-> IF RuneAt(t, at[k]) = "bad" THEN "F" ELSE RuneAt(t, at[k])]
    BY DEF ToValidUTF8, Runes
<1> HIDE DEF at, n
<1>3. \A k \in 1..n :
        (IF RuneAt(t, at[k]) = "bad" THEN "F" ELSE RuneAt(t, at[k])) \in ValidRunes
    BY <1>1, ValidFacts
<1>4. DOMAIN at = 1..n
    BY <1>1
<1>5. /\ ToValidUTF8(t) \in [1..n -> ValidRunes]
      /\ \A k \in 1..n :
            ToValidUTF8(t)[k] = IF RuneAt(t, at[k]) = "bad" THEN "F" ELSE RuneAt(t, at[k])
    BY <1>2, <1>3, <1>4
<1> QED
    BY <1>1, <1>5 DEF at, n

(***************************************************************************)
(* A good text is read back as it was written.                             *)
(***************************************************************************)
LEMMA SameSequence ==
    ASSUME NEW S, NEW s \in Seq(S), NEW t \in Seq(S), Len(s) = Len(t),
           \A i \in 1..Len(s) : s[i] = t[i]
    PROVE  s = t
OBVIOUS

(* Every byte of a good text that begins a character begins a valid one.   *)
LEMMA GoodIsValid ==
    ASSUME NEW t \in GoodTexts
    PROVE  /\ Valid(t) = Starts(t)
           /\ \A i \in Starts(t) : RuneAt(t, i) = t[i] /\ t[i] \in SafeRunes
<1>1. ASSUME NEW i \in Starts(t) PROVE RuneAt(t, i) = t[i] /\ t[i] \in SafeRunes
    <2>1. i \in DOMAIN t /\ ~Covered(t, i) /\ t[i] \in SafeRunes \cup {"c"}
        BY DEF Starts, GoodTexts, Good
    <2>2. t[i] # "c" /\ (t[i] \in Leads => Whole(t, i))
        BY <2>1 DEF GoodTexts, Good
    <2> QED
        BY <2>1, <2>2 DEF RuneAt
<1>2. \A i \in Starts(t) : ~Bad(t, i)
    BY <1>1 DEF Bad, SafeRunes
<1> QED
    BY <1>1, <1>2 DEF Valid

(* The bytes of a character. *)
Width(rune) == IF rune \in Leads THEN UTFMax ELSE 1

(* A character of a good text ends where the next one begins. *)
LEMMA NextStart ==
    ASSUME NEW t \in GoodTexts, NEW i \in Starts(t)
    PROVE  LET w == Width(t[i]) IN
           /\ t[i] \in SafeRunes /\ RuneAt(t, i) = t[i]
           /\ w \in Nat /\ w >= 1 /\ i \in 1..Len(t) /\ i + w - 1 <= Len(t)
           /\ i + w <= Len(t) => i + w \in Starts(t)
           /\ \A q \in Starts(t) : q > i => q >= i + w
           /\ Encode(t[i]) \in [1..w -> Bytes]
           /\ \A k \in 1..w : t[i + k - 1] = Encode(t[i])[k]
<1> DEFINE w == Width(t[i])
<1>1. /\ t \in Seq(SafeRunes \cup {"c"}) /\ Len(t) \in Nat /\ DOMAIN t = 1..Len(t)
      /\ \A q \in DOMAIN t : t[q] \in Leads => Whole(t, q)
      /\ \A q \in DOMAIN t : t[q] = "c" => Covered(t, q)
    BY GoodIsText DEF GoodTexts, Good
<1>2. i \in 1..Len(t) /\ ~Covered(t, i) /\ t[i] \in SafeRunes /\ RuneAt(t, i) = t[i]
    BY <1>1 DEF Starts, RuneAt
<1>3. w \in Nat /\ w >= 1 /\ (t[i] \in Leads => w = UTFMax) /\ (t[i] \notin Leads => w = 1)
    BY Constants DEF Width
<1> HIDE DEF w
<1>4. i + w - 1 <= Len(t) /\ (\A q \in (i + 1)..(i + w - 1) : t[q] = "c" /\ t[i] \in Leads)
    <2>1. CASE t[i] \in Leads
        BY <1>1, <1>2, <1>3, <2>1 DEF Whole
    <2>2. CASE t[i] \notin Leads
        BY <1>1, <1>2, <1>3, <2>2
    <2> QED
        BY <2>1, <2>2
<1>5. ASSUME i + w <= Len(t), Covered(t, i + w) PROVE FALSE
    <2>1. PICK j \in DOMAIN t : j < i + w /\ i + w < j + UTFMax /\ Whole(t, j)
        BY <1>5 DEF Covered
    <2>2. /\ j \in Nat /\ t[j] \in Leads /\ t[j] # "c"
          /\ \A q \in (j + 1)..(j + UTFMax - 1) : t[q] = "c"
        BY <1>1, <2>1 DEF Whole, Leads
    <2>3. CASE j = i
        BY <1>2, <1>3, <2>1, <2>2, <2>3, Constants
    <2>4. CASE j < i
        <3>1. i < j + UTFMax
            BY <1>2, <1>3, <2>1, <2>2, Constants
        <3> QED
            BY <1>2, <2>1, <2>4, <3>1 DEF Covered
    <2>5. CASE j > i
        <3>1. j \in (i + 1)..(i + w - 1)
            BY <1>2, <1>3, <2>1, <2>2, <2>5
        <3> QED
            BY <1>4, <2>2, <3>1
    <2> QED
        BY <1>2, <2>2, <2>3, <2>4, <2>5
<1>6. ASSUME NEW q \in Starts(t), q > i PROVE q >= i + w
    <2>1. q \in 1..Len(t) /\ ~Covered(t, q)
        BY <1>1 DEF Starts
    <2> SUFFICES ASSUME q < i + w PROVE FALSE
        BY <1>2, <1>3, <2>1
    <2>2. q \in (i + 1)..(i + w - 1)
        BY <1>2, <1>3, <1>6, <2>1
    <2>3. t[i] \in Leads
        BY <1>4, <2>2
    <2>4. Whole(t, i) /\ i \in DOMAIN t /\ i < q /\ q < i + UTFMax
        BY <1>1, <1>2, <1>3, <1>6, <2>3
    <2> QED
        BY <2>1, <2>4 DEF Covered
<1>7. Encode(t[i]) \in [1..w -> Bytes] /\ (\A k \in 1..w : t[i + k - 1] = Encode(t[i])[k])
    <2>1. CASE t[i] \in Leads
        <3>1. Encode(t[i]) = [k \in 1..w |-> IF k = 1 THEN t[i] ELSE "c"]
            BY <1>3, <2>1 DEF Encode
        <3>2. Encode(t[i]) \in [1..w -> Bytes]
            BY <3>1, <2>1 DEF Bytes
        <3>3. ASSUME NEW k \in 1..w PROVE t[i + k - 1] = Encode(t[i])[k]
            <4>1. k = 1 \/ i + k - 1 \in (i + 1)..(i + w - 1)
                BY <1>2, <1>3
            <4>2. k = 1 => i + k - 1 = i
                BY <1>2
            <4>3. k # 1 => t[i + k - 1] = "c"
                BY <1>4, <4>1
            <4> QED
                BY <3>1, <4>2, <4>3
        <3> QED
            BY <3>2, <3>3
    <2>2. CASE t[i] \notin Leads
        <3>1. Encode(t[i]) = <<t[i]>> /\ w = 1 /\ t[i] \in Bytes /\ i + 1 - 1 = i
            BY <1>2, <1>3, <2>2 DEF Encode, SafeRunes, Bytes, Leads
        <3> QED
            BY <3>1
    <2> QED
        BY <2>1, <2>2
<1>8. i + w <= Len(t) => i + w \in Starts(t)
    BY <1>1, <1>2, <1>3, <1>5 DEF Starts
<1> QED
    BY <1>2, <1>3, <1>4, <1>6, <1>7, <1>8 DEF w

(* FlattenSeq of parts that g, a sequence of prefixes, adds one by one. *)
LEMMA FlattenPrefixes ==
    ASSUME NEW n \in Nat, n # 0, NEW seqs, Len(seqs) = n, NEW g, g[1] = seqs[1],
           \A k \in 1..(n - 1) : g[k + 1] = g[k] \o seqs[k + 1]
    PROVE  FlattenSeq(seqs) = g[n]
<1> DEFINE flat == CHOOSE f : Joins(f, n, seqs)
           S == {k \in Nat : k + 1 <= n => flat[k + 1] = g[k + 1]}
<1>1. Joins(flat, n, seqs)
    BY JoinsExists
<1>2. FlattenSeq(seqs) = flat[n]
    BY DEF FlattenSeq, Joins
<1> HIDE DEF flat
<1>3. \A i \in 1..n : flat[i] = IF i = 1 THEN seqs[i] ELSE flat[i - 1] \o seqs[i]
    BY <1>1 DEF Joins
<1>4. 0 \in S
    <2>1. 1 \in 1..n
        OBVIOUS
    <2> QED
        BY <1>3, <2>1
<1>5. ASSUME NEW k \in Nat, k \in S PROVE k + 1 \in S
    <2> SUFFICES ASSUME (k + 1) + 1 <= n PROVE flat[(k + 1) + 1] = g[(k + 1) + 1]
        OBVIOUS
    <2>1. /\ k + 2 \in 1..n /\ k + 2 # 1 /\ (k + 2) - 1 = k + 1 /\ k + 1 <= n
          /\ (k + 1) + 1 = k + 2 /\ k + 1 \in 1..(n - 1)
        OBVIOUS
    <2>2. flat[k + 2] = flat[k + 1] \o seqs[k + 2] /\ g[k + 2] = g[k + 1] \o seqs[k + 2]
        BY <1>3, <2>1
    <2> QED
        BY <1>5, <2>1, <2>2
<1>6. Nat \subseteq S
    <2> HIDE DEF S
    <2> QED
        BY <1>4, <1>5, SetInduction
<1>7. n - 1 \in Nat /\ (n - 1) + 1 = n
    OBVIOUS
<1> QED
    BY <1>2, <1>6, <1>7

LEMMA GoodIsReadBack ==
    ASSUME NEW t \in GoodTexts
    PROVE  Sanitize(ToValidUTF8(t)) = t
<1> DEFINE begin == Sorted(Starts(t))
           n == Cardinality(Starts(t))
           m == Len(t)
<1>1. /\ t \in Texts /\ t \in Seq(Bytes) /\ m \in Nat /\ DOMAIN t = 1..m
    BY GoodIsText DEF Texts
<1>2. /\ n \in Nat /\ begin \in [1..n -> Starts(t)]
      /\ \A i, j \in 1..n : i < j => begin[i] < begin[j]
      /\ \A x \in Starts(t) : \E i \in 1..n : begin[i] = x
    BY <1>1, StartsFacts, SortedFacts
<1>3. /\ ToValidUTF8(t) \in [1..n -> ValidRunes]
      /\ \A k \in 1..n : ToValidUTF8(t)[k] =
            IF RuneAt(t, begin[k]) = "bad" THEN "F" ELSE RuneAt(t, begin[k])
    BY <1>1, GoodIsValid, ToValidFacts
<1> HIDE DEF begin, n, m
<1>4. \A k \in 1..n : begin[k] \in Starts(t) /\ begin[k] \in 1..m
    BY <1>1, <1>2, StartsFacts DEF m
<1>5. \A k \in 1..n : RuneAt(t, begin[k]) = t[begin[k]] /\ t[begin[k]] \in SafeRunes
    BY <1>4, GoodIsValid
<1>6. ToValidUTF8(t) = [k \in 1..n |-> t[begin[k]]]
    <2>1. \A k \in 1..n : ToValidUTF8(t)[k] = t[begin[k]]
        BY <1>3, <1>5 DEF SafeRunes
    <2> QED
        BY <1>3, <2>1
<1> DEFINE parts == [k \in 1..n |-> Encode(t[begin[k]])]
<1>7. Sanitize(ToValidUTF8(t)) = FlattenSeq(parts)
    <2> DEFINE runes == [k \in 1..n |-> t[begin[k]]]
    <2>1. \A k \in 1..n : ~isUnsafe(runes[k])
        BY <1>5 DEF SafeRunes, isUnsafe
    <2>2. [k \in DOMAIN runes |-> Encode(IF isUnsafe(runes[k]) THEN "s" ELSE runes[k])] = parts
        BY <2>1
    <2> QED
        BY <1>6, <2>2 DEF Sanitize
<1>8. parts \in [1..n -> Seq(Bytes)]
    <2>1. ASSUME NEW k \in 1..n PROVE Encode(t[begin[k]]) \in Seq(Bytes)
        BY <1>4, NextStart, FunctionIsSeq
    <2> QED
        BY <2>1
<1>9. Len(parts) = n
    <2> HIDE DEF parts
    <2> QED
        BY <1>2, <1>8, FunctionIsSeq
<1>10. CASE n = 0
    <2>1. m = 0
        <3> SUFFICES ASSUME m # 0 PROVE FALSE
            OBVIOUS
        <3>1. 1 \in Starts(t)
            BY <1>1 DEF Starts, Covered
        <3> QED
            BY <1>2, <1>10, <3>1
    <2>2. t = <<>> /\ parts = <<>>
        BY <1>1, <1>10, <2>1 DEF m
    <2> HIDE DEF parts
    <2> QED
        BY <1>7, <2>2 DEF FlattenSeq
<1>11. CASE n # 0
    <2> DEFINE stop(k) == begin[k] + Width(t[begin[k]]) - 1
               g == [k \in 1..n |-> SubSeq(t, 1, stop(k))]
    <2>1. begin[1] = 1
        <3>1. 1 \in Starts(t)
            BY <1>1, <1>2, <1>4, <1>11 DEF Starts, Covered
        <3>2. PICK l \in 1..n : begin[l] = 1
            BY <1>2, <3>1
        <3>3. l = 1
            <4>1. 1 \in 1..n /\ begin[1] \in 1..m
                BY <1>2, <1>4, <1>11
            <4> QED
                BY <1>1, <1>2, <3>2, <4>1
        <3> QED
            BY <3>2, <3>3
    <2>2. ASSUME NEW k \in 1..n PROVE stop(k) \in 1..m /\ stop(k) >= begin[k]
        <3>1. begin[k] \in Starts(t) /\ begin[k] \in 1..m
            BY <1>4
        <3>2. /\ Width(t[begin[k]]) \in Nat /\ Width(t[begin[k]]) >= 1
              /\ begin[k] + Width(t[begin[k]]) - 1 <= m
            BY <3>1, NextStart DEF m
        <3> QED
            BY <1>1, <3>1, <3>2
    <2>3. ASSUME NEW k \in 1..(n - 1) PROVE begin[k + 1] = stop(k) + 1
        <3> DEFINE w == Width(t[begin[k]])
        <3>1. k \in 1..n /\ k + 1 \in 1..n /\ k < k + 1
            BY <1>2
        <3>2. /\ begin[k] \in Starts(t) /\ begin[k + 1] \in Starts(t)
              /\ begin[k] < begin[k + 1] /\ begin[k] \in 1..m /\ begin[k + 1] \in 1..m
            BY <1>2, <1>4, <3>1
        <3>3. /\ w \in Nat /\ (begin[k] + w <= m => begin[k] + w \in Starts(t))
              /\ begin[k + 1] >= begin[k] + w
            BY <3>2, NextStart DEF m
        <3>4. w >= 1
            BY <3>2, NextStart
        <3> HIDE DEF w
        <3>5. begin[k] + w \in Starts(t)
            BY <1>1, <3>2, <3>3
        <3>6. PICK l \in 1..n : begin[l] = begin[k] + w
            BY <1>2, <3>5
        <3>7. l = k + 1
            <4>1. l > k
                <5> SUFFICES ASSUME l <= k PROVE FALSE
                    BY <1>2, <3>1
                <5>1. l = k \/ l < k
                    BY <1>2, <3>1
                <5>2. begin[l] <= begin[k]
                    <6>1. CASE l = k
                        BY <3>2, <6>1
                    <6>2. CASE l < k
                        <7>1. begin[l] < begin[k] /\ begin[l] \in 1..m
                            BY <1>2, <1>4, <3>1, <6>2
                        <7> QED
                            BY <3>2, <7>1
                    <6> QED
                        BY <5>1, <6>1, <6>2
                <5> QED
                    BY <3>2, <3>3, <3>4, <3>6, <5>2
            <4>2. ~(k + 1 < l)
                <5> SUFFICES ASSUME k + 1 < l PROVE FALSE
                    OBVIOUS
                <5>1. begin[k + 1] < begin[l]
                    BY <1>2, <3>1
                <5> QED
                    BY <3>2, <3>3, <3>6, <5>1
            <4> QED
                BY <1>2, <3>1, <4>1, <4>2
        <3> QED
            BY <3>2, <3>3, <3>6, <3>7 DEF w
    <2>4. stop(n) = m
        <3> DEFINE w == Width(t[begin[n]])
        <3>1. n \in 1..n
            BY <1>2, <1>11
        <3>2. /\ begin[n] \in Starts(t) /\ begin[n] \in 1..m
              /\ w \in Nat /\ w >= 1 /\ begin[n] + w - 1 <= m
              /\ (begin[n] + w <= m => begin[n] + w \in Starts(t))
            BY <1>4, <3>1, NextStart DEF m
        <3>3. ASSUME begin[n] + w <= m PROVE FALSE
            <4>1. PICK l \in 1..n : begin[l] = begin[n] + w
                BY <1>2, <3>2, <3>3
            <4>2. l = n \/ l < n
                BY <1>2
            <4>3. l < n => begin[l] < begin[n]
                BY <1>2, <3>1
            <4> HIDE DEF w
            <4> QED
                BY <3>2, <4>1, <4>2, <4>3
        <3> QED
            BY <1>1, <3>2, <3>3
    <2>5. ASSUME NEW k \in 1..n, NEW from \in 0..m, begin[k] = from + 1
          PROVE  SubSeq(t, 1, from) \o parts[k] = SubSeq(t, 1, stop(k))
        <3> DEFINE w == Width(t[begin[k]])
                   a == SubSeq(t, 1, from)
                   b == Encode(t[begin[k]])
        <3>1. /\ w \in Nat /\ w >= 1 /\ begin[k] + w - 1 <= m /\ begin[k] \in 1..m
              /\ b \in [1..w -> Bytes]
              /\ \A i \in 1..w : t[begin[k] + i - 1] = b[i]
            BY <1>4, NextStart DEF m
        <3>2. b \in Seq(Bytes) /\ Len(b) = w
            <4> HIDE DEF b, w
            <4> QED
                BY <3>1, FunctionIsSeq
        <3>3. /\ a \in Seq(Bytes) /\ Len(a) = from /\ \A i \in 1..from : a[i] = t[i]
            <4>1. 1 \in 1..Len(t) /\ from \in 0..Len(t) /\ 1 <= from + 1
                BY <1>1, <2>5, <3>1 DEF m
            <4>2. /\ a \in Seq(Bytes) /\ Len(a) = from - 1 + 1
                  /\ \A i \in 1..(from - 1 + 1) : a[i] = t[1 + i - 1]
                BY <1>1, <4>1, SliceFacts
            <4>3. from - 1 + 1 = from /\ \A i \in 1..from : 1 + i - 1 = i
                OBVIOUS
            <4> HIDE DEF a
            <4> QED
                BY <4>2, <4>3
        <3>4. parts[k] = b
            OBVIOUS
        <3> DEFINE e == begin[k] + w - 1
                   c == SubSeq(t, 1, e)
        <3>5. e = from + w /\ e \in 1..m
            <4> HIDE DEF w
            <4> QED
                BY <1>1, <2>5, <3>1
        <3>6. /\ c \in Seq(Bytes) /\ Len(c) = e /\ \A i \in 1..e : c[i] = t[i]
            <4> HIDE DEF e
            <4>1. 1 \in 1..Len(t) /\ e \in 0..Len(t) /\ 1 <= e + 1
                BY <1>1, <3>5 DEF m
            <4>2. /\ c \in Seq(Bytes) /\ Len(c) = e - 1 + 1
                  /\ \A i \in 1..(e - 1 + 1) : c[i] = t[1 + i - 1]
                BY <1>1, <4>1, SliceFacts
            <4>3. e - 1 + 1 = e /\ \A i \in 1..e : 1 + i - 1 = i
                BY <3>5
            <4> HIDE DEF c
            <4> QED
                BY <4>2, <4>3
        <3> HIDE DEF a, b, w, e, c, parts
        <3> DEFINE ab == a \o b
        <3>7. /\ ab \in Seq(Bytes) /\ Len(ab) = from + w
              /\ \A i \in 1..from : ab[i] = a[i]
              /\ \A i \in (from + 1)..(from + w) : ab[i] = b[i - from]
            <4>1. a \in Seq(Bytes) /\ b \in Seq(Bytes)
                BY <3>2, <3>3
            <4>2. /\ ab \in Seq(Bytes) /\ Len(ab) = Len(a) + Len(b)
                  /\ \A i \in 1..Len(a) : ab[i] = a[i]
                  /\ \A i \in (Len(a) + 1)..(Len(a) + Len(b)) : ab[i] = b[i - Len(a)]
                BY <4>1, ConcatFacts
            <4> HIDE DEF ab
            <4> QED
                BY <3>2, <3>3, <4>2
        <3> HIDE DEF ab
        <3>8. ASSUME NEW i \in 1..e PROVE ab[i] = c[i]
            <4>1. CASE i \in 1..from
                BY <3>3, <3>6, <3>7, <4>1
            <4>2. CASE i \in (from + 1)..(from + w)
                <5>1. i - from \in 1..w /\ begin[k] + (i - from) - 1 = i
                    BY <2>5, <3>1, <4>2
                <5>2. b[i - from] = t[i]
                    BY <3>1, <5>1
                <5> QED
                    BY <3>6, <3>7, <4>2, <5>2
            <4> QED
                BY <3>1, <3>5, <4>1, <4>2
        <3>9. ab = c
            BY <3>5, <3>6, <3>7, <3>8, SameSequence
        <3> QED
            BY <3>4, <3>9 DEF ab, a, c, e, w
    <2>6. g[1] = parts[1]
        <3>1. 1 \in 1..n /\ 0 \in 0..m /\ begin[1] = 0 + 1
            BY <1>1, <1>2, <1>11, <2>1
        <3>2. SubSeq(t, 1, 0) \o parts[1] = SubSeq(t, 1, stop(1))
            BY <2>5, <3>1
        <3>3. SubSeq(t, 1, 0) = <<>> /\ parts[1] \in Seq(Bytes)
            BY <1>1, <1>8, <3>1
        <3> HIDE DEF parts
        <3>4. <<>> \o parts[1] = parts[1]
            BY <3>3
        <3> QED
            BY <3>1, <3>2, <3>3, <3>4
    <2>7. ASSUME NEW k \in 1..(n - 1) PROVE g[k + 1] = g[k] \o parts[k + 1]
        <3>1. k \in 1..n /\ k + 1 \in 1..n
            BY <1>2
        <3>2. stop(k) \in 0..m /\ begin[k + 1] = stop(k) + 1
            BY <1>1, <2>2, <2>3, <3>1
        <3> HIDE DEF parts
        <3>3. SubSeq(t, 1, stop(k)) \o parts[k + 1] = SubSeq(t, 1, stop(k + 1))
            <4> HIDE DEF stop
            <4> QED
                BY <2>5, <3>1, <3>2
        <3> QED
            BY <3>1, <3>3
    <2>8. g[n] = t
        <3>1. n \in 1..n
            BY <1>2, <1>11
        <3>2. g[n] = SubSeq(t, 1, Len(t))
            BY <2>4, <3>1 DEF m
        <3> HIDE DEF g
        <3> QED
            BY <1>1, <3>2
    <2> HIDE DEF g, parts, stop
    <2>9. FlattenSeq(parts) = g[n]
        <3>1. \A k \in 1..(n - 1) : g[k + 1] = g[k] \o parts[k + 1]
            BY <2>7
        <3>2. n \in Nat /\ n # 0
            BY <1>2, <1>11
        <3> QED
            BY <1>9, <2>6, <3>1, <3>2, FlattenPrefixes
    <2> QED
        BY <1>7, <2>8, <2>9
<1> QED
    BY <1>10, <1>11

(***************************************************************************)
(* What cleaning returns is safe, whatever it is given.                    *)
(***************************************************************************)
LEMMA CleanFacts ==
    ASSUME NEW t \in Texts
    PROVE  /\ cleanBytes(t) \in GoodTexts /\ cleanBytes(t) \in Texts
           /\ CleanText(t) = cleanBytes(t)
           /\ Safe(cleanBytes(t))
<1> DEFINE given == truncateMessage(TrimLeft(t))
           clean == Sanitize(ToValidUTF8(given))
           cut == truncateMessage(clean)
<1>1. given \in Texts
    BY TrimLeftTyped, TruncateTyped
<1> HIDE DEF given
<1>2. clean \in GoodTexts
    BY <1>1, ToValidFacts, SanitizedIsGood
<1> HIDE DEF clean
<1>3. cut \in GoodTexts /\ Len(cut) <= maxMessageBytes
    BY <1>2, TruncateIsGood, TruncateTyped, GoodIsText
<1> HIDE DEF cut
<1>4. cleanBytes(t) = TrimSpace(cut)
    BY DEF cleanBytes, cut, clean, given
<1>5. /\ TrimSpace(cut) \in GoodTexts /\ Len(TrimSpace(cut)) <= maxMessageBytes
      /\ TrimSpace(cut) # <<>> => TrimSpace(cut)[1] # "s" /\ Last(TrimSpace(cut)) # "s"
    <2>1. Len(cut) \in Nat /\ Len(TrimSpace(cut)) \in Nat
        BY <1>3, TrimIsGood, GoodIsText
    <2> QED
        BY <1>3, <2>1, TrimIsGood, Constants
<1>6. Good(TrimSpace(cut)) /\ TrimSpace(cut) \in Texts
    BY <1>5, GoodIsText DEF GoodTexts
<1> QED
    BY <1>4, <1>5, <1>6, GoodDecodes DEF Safe, CleanText

LEMMA EmptyIsSafe == Safe(<<>>) /\ <<>> \in Texts
<1>1. Good(<<>>) /\ Len(<<>>) <= maxMessageBytes
    BY EmptyIsGood, Constants DEF GoodTexts
<1> QED
    BY <1>1, GoodDecodes DEF Safe, Texts

LEMMA FieldIsSafe ==
    ASSUME NEW field \in ErrorFields
    PROVE  Safe(fieldMessage(field))
<1>1. field.text \in Texts /\ field.type \in Texts \cup {NoType}
    BY DEF ErrorFields
<1>2. CASE field.kind = "string"
    BY <1>1, <1>2, CleanFacts DEF fieldMessage
<1>3. CASE field.kind = "object"
    <2> DEFINE msg == CleanText(field.text)
               t == Prefix(field.type)
               whole == t \o <<":", "s">> \o msg
    <2>1. msg \in Texts /\ Safe(msg)
        BY <1>1, CleanFacts
    <2>2. t \in Texts
        BY <1>1, CleanFacts, EmptyIsSafe DEF Prefix
    <2>3. <<":", "s">> \in Texts
        BY DEF Texts, Bytes
    <2>4. fieldMessage(field) = IF msg = <<>> \/ t = <<>> THEN msg ELSE CleanText(whole)
        BY <1>3 DEF fieldMessage
    <2> HIDE DEF msg, t
    <2>5. whole \in Texts
        BY <2>1, <2>2, <2>3, ConcatFacts DEF Texts
    <2> HIDE DEF whole
    <2> QED
        BY <2>1, <2>4, <2>5, CleanFacts
<1>4. CASE field.kind \notin {"string", "object"}
    BY <1>4, EmptyIsSafe DEF fieldMessage
<1> QED
    BY <1>2, <1>3, <1>4

(***************************************************************************)
(* A text that is clean already loses at most its end.                     *)
(***************************************************************************)
LEMMA WholeSlice ==
    ASSUME NEW S, NEW t \in Seq(S)
    PROVE  SubSeq(t, 1, Len(t)) = t
OBVIOUS

LEMMA TrimLeftKeeps ==
    ASSUME NEW t \in GoodTexts, t # <<>>, t[1] # "s"
    PROVE  TrimLeft(t) = t
<1> DEFINE kept == {i \in Starts(t) : ~isUnsafeOrSpace(RuneAt(t, i))}
<1>1. t \in Texts /\ t \in Seq(Bytes) /\ Len(t) \in Nat /\ DOMAIN t = 1..Len(t)
    BY GoodIsText DEF Texts
<1>2. 1 \in Starts(t)
    <2>1. Len(t) >= 1
        BY <1>1
    <2> QED
        BY <1>1, <2>1 DEF Starts, Covered
<1>3. 1 \in kept
    <2>1. RuneAt(t, 1) = t[1] /\ t[1] \in SafeRunes
        BY <1>2, NextStart
    <2> QED
        BY <1>2, <2>1 DEF SafeRunes, isUnsafeOrSpace, isUnsafe
<1>4. kept \in SUBSET Nat /\ \A k \in kept : k >= 1
    BY <1>1, StartsFacts
<1>5. TrimLeft(t) = SubSeq(t, Min(kept), Len(t))
    BY <1>3 DEF TrimLeft
<1> HIDE DEF kept
<1>6. Min(kept) = 1
    <2>1. Min(kept) \in kept /\ Min(kept) <= 1
        BY <1>3, <1>4, MinFacts
    <2>2. Min(kept) \in Nat /\ Min(kept) >= 1
        BY <1>4, <2>1
    <2> QED
        BY <2>1, <2>2
<1> QED
    BY <1>1, <1>5, <1>6, WholeSlice

LEMMA CleanAgain ==
    ASSUME NEW t \in GoodTexts, t # <<>>, t[1] # "s"
    PROVE  CleanText(t) = TrimSpace(truncateMessage(t))
<1> DEFINE v == truncateMessage(t)
<1>1. v \in GoodTexts /\ Len(v) <= maxMessageBytes
    BY TruncateIsGood, TruncateTyped, GoodIsText
<1>2. TrimLeft(t) = t
    BY TrimLeftKeeps
<1> HIDE DEF v
<1>3. Sanitize(ToValidUTF8(v)) = v
    BY <1>1, GoodIsReadBack
<1>4. truncateMessage(v) = v
    BY <1>1 DEF truncateMessage
<1> QED
    BY <1>2, <1>3, <1>4 DEF CleanText, cleanBytes, v

LEMMA SliceOfSlice ==
    ASSUME NEW S, NEW t \in Seq(S), NEW e \in 0..Len(t), NEW b \in 0..e
    PROVE  SubSeq(SubSeq(t, 1, e), 1, b) = SubSeq(t, 1, b)
OBVIOUS

(* Text that is no space, at the start and at place m, is kept as far as   *)
(* place m if the cut cannot reach it.                                     *)
LEMMA CleanKeepsStart ==
    ASSUME NEW t \in GoodTexts, NEW m \in 1..Len(t), t[1] # "s", t[m] # "s",
           m + UTFMax - 1 <= maxMessageBytes
    PROVE  \E b \in m..Len(t) : CleanText(t) = SubSeq(t, 1, b)
<1>1. t \in Texts /\ t \in Seq(Bytes) /\ Len(t) \in Nat /\ DOMAIN t = 1..Len(t)
    BY GoodIsText DEF Texts
<1>2. \E e \in m..Len(t) : truncateMessage(t) = SubSeq(t, 1, e)
    <2>1. CASE Len(t) <= maxMessageBytes
        <3>1. truncateMessage(t) = SubSeq(t, 1, Len(t))
            BY <1>1, <2>1, WholeSlice DEF truncateMessage
        <3>2. Len(t) \in m..Len(t)
            BY <1>1
        <3> QED
            BY <3>1, <3>2
    <2>2. CASE Len(t) > maxMessageBytes
        <3>1. Cut(t) \in 1..maxMessageBytes /\ (Ends(t) # {} => Cut(t) \in Ends(t))
            BY CutFacts
        <3>2. Cut(t) >= maxMessageBytes - UTFMax + 1
            <4>1. CASE Ends(t) = {}
                BY <4>1, Constants DEF Cut
            <4>2. CASE Ends(t) # {}
                BY <3>1, <4>2, Constants DEF Ends
            <4> QED
                BY <4>1, <4>2
        <3>3. Cut(t) \in m..Len(t)
            BY <1>1, <2>2, <3>1, <3>2, Constants
        <3> QED
            BY <1>1, <2>2, <3>3, TruncateCuts
    <2> QED
        BY <1>1, <2>1, <2>2, Constants
<1>3. PICK e \in m..Len(t) : truncateMessage(t) = SubSeq(t, 1, e)
    BY <1>2
<1> DEFINE v == SubSeq(t, 1, e)
           kept == {i \in DOMAIN v : v[i] # "s"}
           b == Max(kept)
<1>4. v \in Seq(Bytes) /\ Len(v) = e /\ \A i \in 1..e : v[i] = t[i]
    <2>1. 1 \in 1..Len(t) /\ e \in 0..Len(t) /\ 1 <= e + 1 /\ e - 1 + 1 = e /\ e \in Nat
        BY <1>1
    <2>2. /\ v \in Seq(Bytes) /\ Len(v) = e - 1 + 1
          /\ \A i \in 1..(e - 1 + 1) : v[i] = t[1 + i - 1]
        BY <1>1, <2>1, SliceFacts
    <2>3. \A i \in 1..e : 1 + i - 1 = i
        BY <2>1
    <2> HIDE DEF v
    <2> QED
        BY <2>1, <2>2, <2>3
<1> HIDE DEF v
<1>5. /\ 1 \in kept /\ m \in kept /\ kept \in SUBSET Nat /\ kept \in SUBSET (0..e)
      /\ e \in Nat /\ \A k \in kept : k >= 1
    <2>1. DOMAIN v = 1..e /\ 1 \in 1..e /\ m \in 1..e /\ e \in Nat
        BY <1>1, <1>4
    <2> QED
        BY <1>4, <2>1
<1>6. TrimSpace(v) = SubSeq(v, Min(kept), b)
    BY <1>5 DEF TrimSpace
<1> HIDE DEF kept, b
<1>7. Min(kept) = 1
    <2>1. Min(kept) \in kept /\ Min(kept) <= 1
        BY <1>5, MinFacts
    <2>2. Min(kept) \in Nat /\ Min(kept) >= 1
        BY <1>5, <2>1
    <2> QED
        BY <2>1, <2>2
<1>8. b \in m..e /\ b \in 0..e
    <2>1. b \in kept /\ m <= b
        BY <1>5, MaxFacts DEF b
    <2>2. b \in 0..e
        BY <1>5, <2>1
    <2> QED
        BY <2>1, <2>2
<1>9. CleanText(t) = TrimSpace(v)
    <2>1. t # <<>>
        BY <1>1
    <2> QED
        BY <1>3, <2>1, CleanAgain DEF v
<1>10. SubSeq(v, 1, b) = SubSeq(t, 1, b)
    <2>1. e \in 0..Len(t)
        BY <1>1, <1>5
    <2> QED
        BY <1>1, <1>8, <2>1, SliceOfSlice DEF v
<1>11. b \in m..Len(t)
    BY <1>1, <1>8
<1> QED
    BY <1>6, <1>7, <1>9, <1>10, <1>11

(***************************************************************************)
(* What is left of a message that follows an error type.                   *)
(***************************************************************************)
(* From place n + 1 on, the text t shows the beginning of msg: alone, or   *)
(* after a colon and a space.                                              *)
Shows(t, msg) ==
    \E n \in 0..Len(t) :
        LET tail == SubSeq(t, n + 1, Len(t)) IN
        /\ tail # <<>> /\ IsPrefix(tail, msg)
        /\ n # 0 => n > 2 /\ SubSeq(t, n - 1, n) = <<":", "s">>

LEMMA ShowsItself ==
    ASSUME NEW t \in Texts, t # <<>>
    PROVE  Shows(t, t)
<1>1. t \in Seq(Bytes) /\ Len(t) \in Nat
    BY DEF Texts
<1>2. SubSeq(t, 0 + 1, Len(t)) = t
    BY <1>1, WholeSlice
<1>3. IsPrefix(t, t)
    BY <1>1 DEF IsPrefix
<1>4. 0 \in 0..Len(t)
    BY <1>1
<1> QED
    BY <1>2, <1>3, <1>4 DEF Shows

LEMMA ShowsMessage ==
    ASSUME NEW type \in GoodTexts, NEW msg \in GoodTexts, type # <<>>, msg # <<>>,
           type[1] # "s", msg[1] # "s", Len(type) <= maxErrorTypeBytes
    PROVE  Shows(CleanText(type \o <<":", "s">> \o msg), msg)
<1> DEFINE colon == <<":", "s">>
           head == type \o colon
           w == head \o msg
           n == Len(type) + 2
           m == n + 1
<1>1. /\ type \in Seq(Bytes) /\ msg \in Seq(Bytes) /\ Len(type) \in Nat /\ Len(msg) \in Nat
      /\ Len(type) >= 1 /\ Len(msg) >= 1
    BY GoodIsText DEF Texts
<1>2. colon \in GoodTexts /\ colon \in Seq(Bytes) /\ Len(colon) = 2
    <2>1. /\ colon \in Seq(SafeRunes \cup {"c"}) /\ colon \in Seq(Bytes) /\ Len(colon) = 2
        BY DEF SafeRunes, Bytes
    <2>2. \A i \in DOMAIN colon : colon[i] \notin Leads /\ colon[i] # "c"
        BY DEF Leads
    <2> HIDE DEF colon
    <2> QED
        BY <2>1, <2>2 DEF GoodTexts, Good
<1>3. /\ head \in GoodTexts /\ head \in Seq(Bytes) /\ Len(head) = n
      /\ \A i \in 1..Len(type) : head[i] = type[i]
      /\ \A i \in (Len(type) + 1)..n : head[i] = colon[i - Len(type)]
    <2> HIDE DEF colon
    <2>1. head \in GoodTexts
        BY <1>2, JoinedIsGood
    <2>2. /\ head \in Seq(Bytes) /\ Len(head) = Len(type) + Len(colon)
          /\ \A i \in 1..Len(type) : head[i] = type[i]
          /\ \A i \in (Len(type) + 1)..(Len(type) + Len(colon)) : head[i] = colon[i - Len(type)]
        BY <1>1, <1>2, ConcatFacts
    <2> HIDE DEF head
    <2> QED
        BY <1>2, <2>1, <2>2
<1> HIDE DEF head, colon
<1>4. /\ w \in GoodTexts /\ w \in Seq(Bytes) /\ Len(w) = n + Len(msg)
      /\ \A i \in 1..n : w[i] = head[i]
      /\ \A i \in (n + 1)..(n + Len(msg)) : w[i] = msg[i - n]
    <2>1. w \in GoodTexts
        BY <1>3, JoinedIsGood
    <2>2. /\ w \in Seq(Bytes) /\ Len(w) = Len(head) + Len(msg)
          /\ \A i \in 1..Len(head) : w[i] = head[i]
          /\ \A i \in (Len(head) + 1)..(Len(head) + Len(msg)) : w[i] = msg[i - Len(head)]
        <3>1. head \in Seq(Bytes) /\ msg \in Seq(Bytes)
            BY <1>1, <1>3
        <3> QED
            BY <3>1, ConcatFacts
    <2> HIDE DEF w
    <2> QED
        BY <1>3, <2>1, <2>2
<1> HIDE DEF w
<1>5. m \in 1..Len(w) /\ n \in Nat /\ n > 2 /\ m + UTFMax - 1 <= maxMessageBytes
    BY <1>1, <1>4, MessagesAssumption
<1>6. w[1] # "s" /\ w[m] # "s" /\ w[n - 1] = ":" /\ w[n] = "s"
    <2>1. /\ 1 \in 1..Len(type) /\ 1 \in 1..n
          /\ m \in (n + 1)..(n + Len(msg)) /\ m - n = 1
          /\ n - 1 \in (Len(type) + 1)..n /\ n - 1 \in 1..n /\ (n - 1) - Len(type) = 1
          /\ n \in (Len(type) + 1)..n /\ n \in 1..n /\ n - Len(type) = 2
        BY <1>1
    <2>2. colon[1] = ":" /\ colon[2] = "s"
        BY DEF colon
    <2> HIDE DEF n, m
    <2> QED
        BY <1>3, <1>4, <2>1, <2>2
<1>7. PICK b \in m..Len(w) : CleanText(w) = SubSeq(w, 1, b)
    BY <1>4, <1>5, <1>6, CleanKeepsStart
<1> DEFINE t == SubSeq(w, 1, b)
<1> HIDE DEF n, m
<1>8. b \in Nat /\ m = n + 1 /\ b >= n + 1 /\ b <= n + Len(msg)
    BY <1>4, <1>5, <1>7 DEF m
<1>9. t \in Seq(Bytes) /\ Len(t) = b /\ \A i \in 1..b : t[i] = w[i]
    <2>1. 1 \in 1..Len(w) /\ b \in 0..Len(w) /\ 1 <= b + 1 /\ b - 1 + 1 = b
        BY <1>1, <1>4, <1>5, <1>8
    <2>2. /\ t \in Seq(Bytes) /\ Len(t) = b - 1 + 1
          /\ \A i \in 1..(b - 1 + 1) : t[i] = w[1 + i - 1]
        BY <1>4, <2>1, SliceFacts
    <2>3. \A i \in 1..b : 1 + i - 1 = i
        BY <1>8
    <2> HIDE DEF t
    <2> QED
        BY <2>1, <2>2, <2>3
<1> HIDE DEF t
<1> DEFINE tail == SubSeq(t, n + 1, Len(t))
           k == b - n
<1>10. /\ tail \in Seq(Bytes) /\ Len(tail) = k
       /\ \A i \in 1..k : tail[i] = t[n + i]
    <2>1. n + 1 \in 1..Len(t) /\ Len(t) \in 0..Len(t) /\ n + 1 <= Len(t) + 1
          /\ Len(t) - (n + 1) + 1 = k
        BY <1>5, <1>8, <1>9
    <2>2. /\ tail \in Seq(Bytes) /\ Len(tail) = Len(t) - (n + 1) + 1
          /\ \A i \in 1..(Len(t) - (n + 1) + 1) : tail[i] = t[n + 1 + i - 1]
        BY <1>9, <2>1, SliceFacts
    <2>3. \A i \in 1..k : n + 1 + i - 1 = n + i
        BY <1>5, <1>8
    <2> HIDE DEF tail, k
    <2> QED
        BY <2>1, <2>2, <2>3
<1>11. k \in 1..Len(msg)
    BY <1>1, <1>5, <1>8
<1>12. \A i \in 1..k : tail[i] = msg[i]
    <2>1. ASSUME NEW i \in 1..k PROVE t[n + i] = msg[i]
        <3>1. n + i \in 1..b /\ n + i \in (n + 1)..(n + Len(msg)) /\ (n + i) - n = i
            BY <1>1, <1>5, <1>8
        <3> QED
            BY <1>4, <1>9, <3>1
    <2> HIDE DEF k, tail
    <2> QED
        BY <1>10, <2>1
<1> HIDE DEF tail, k
<1>13. tail # <<>> /\ IsPrefix(tail, msg)
    <2>1. SubSeq(tail, 1, Len(tail)) = tail
        BY <1>10, WholeSlice
    <2> DEFINE start == SubSeq(msg, 1, k)
    <2>2. start \in Seq(Bytes) /\ Len(start) = k /\ \A i \in 1..k : start[i] = msg[i]
        <3>1. 1 \in 1..Len(msg) /\ k \in 0..Len(msg) /\ 1 <= k + 1 /\ k - 1 + 1 = k
            BY <1>1, <1>11
        <3>2. /\ start \in Seq(Bytes) /\ Len(start) = k - 1 + 1
              /\ \A i \in 1..(k - 1 + 1) : start[i] = msg[1 + i - 1]
            BY <1>1, <3>1, SliceFacts
        <3>3. \A i \in 1..k : 1 + i - 1 = i
            BY <1>11
        <3> HIDE DEF start
        <3> QED
            BY <3>1, <3>2, <3>3
    <2> HIDE DEF start
    <2>3. start = tail
        BY <1>10, <1>12, <2>2, SameSequence
    <2>4. Len(tail) <= Len(msg) /\ Len(tail) # 0
        BY <1>1, <1>10, <1>11
    <2> QED
        BY <1>10, <2>1, <2>3, <2>4 DEF IsPrefix, start
<1>14. SubSeq(t, n - 1, n) = <<":", "s">>
    <2> DEFINE u == SubSeq(t, n - 1, n)
    <2>1. n - 1 \in 1..Len(t) /\ n \in 0..Len(t) /\ n - 1 <= n + 1 /\ n - (n - 1) + 1 = 2
        BY <1>5, <1>8, <1>9
    <2>2. /\ u \in Seq(Bytes) /\ Len(u) = n - (n - 1) + 1
          /\ \A i \in 1..(n - (n - 1) + 1) : u[i] = t[(n - 1) + i - 1]
        BY <1>9, <2>1, SliceFacts
    <2>3. (n - 1) + 1 - 1 = n - 1 /\ (n - 1) + 2 - 1 = n /\ n - 1 \in 1..b /\ n \in 1..b
        BY <1>5, <1>8
    <2> HIDE DEF u
    <2>4. Len(u) = 2 /\ u[1] = t[n - 1] /\ u[2] = t[n]
        BY <2>1, <2>2, <2>3
    <2>5. t[n - 1] = ":" /\ t[n] = "s"
        BY <1>6, <1>9, <2>3
    <2>6. u = <<":", "s">>
        <3> DEFINE both == <<":", "s">>
        <3>1. both \in Seq(Bytes) /\ Len(both) = 2 /\ both[1] = ":" /\ both[2] = "s"
            BY DEF Bytes
        <3> HIDE DEF both
        <3>2. \A i \in 1..2 : u[i] = both[i]
            BY <2>4, <2>5, <3>1
        <3>3. u = both
            BY <2>2, <2>4, <3>1, <3>2, SameSequence
        <3> QED
            BY <3>3 DEF both
    <2> QED
        BY <2>6 DEF u
<1>15. n \in 0..Len(t)
    BY <1>5, <1>8, <1>9
<1>16. Shows(t, msg)
    BY <1>5, <1>13, <1>14, <1>15 DEF Shows, tail
<1> QED
    BY <1>7, <1>16 DEF t, w, head, colon

(* A field's message is shown if there is one. *)
LEMMA FieldShows ==
    ASSUME NEW field \in ErrorFields, field.kind \in {"string", "object"},
           CleanText(field.text) # <<>>
    PROVE  Shows(fieldMessage(field), CleanText(field.text)) /\ fieldMessage(field) # <<>>
<1> DEFINE msg == CleanText(field.text)
           t == Prefix(field.type)
<1>1. field.text \in Texts /\ field.type \in Texts \cup {NoType}
    BY DEF ErrorFields
<1>2. msg \in GoodTexts /\ msg \in Texts /\ msg[1] # "s"
    BY <1>1, CleanFacts DEF Safe
<1>3. /\ t \in GoodTexts /\ (t # <<>> => t[1] # "s" /\ Len(t) <= maxErrorTypeBytes)
    BY <1>1, CleanFacts, EmptyIsGood DEF Prefix, Safe
<1>4. \/ fieldMessage(field) = msg
      \/ t # <<>> /\ fieldMessage(field) = CleanText(t \o <<":", "s">> \o msg)
    BY DEF fieldMessage
<1> HIDE DEF msg, t
<1>5. Shows(fieldMessage(field), msg)
    BY <1>2, <1>3, <1>4, ShowsItself, ShowsMessage DEF msg
<1>6. ASSUME fieldMessage(field) = <<>> PROVE FALSE
    <2>1. \A n \in 0..Len(<<>>) : SubSeq(<<>>, n + 1, Len(<<>>)) = <<>>
        OBVIOUS
    <2> QED
        BY <1>5, <1>6, <2>1 DEF Shows
<1> QED
    BY <1>5, <1>6 DEF msg

(***************************************************************************)
(* The characters that show.                                               *)
(***************************************************************************)
ShownAs(t, i) == IF RuneAt(t, i) = "bad" THEN "F" ELSE RuneAt(t, i)

Begins(s, t) == Len(s) <= Len(t) /\ \A i \in 1..Len(s) : s[i] = t[i]

(* No character lies on both sides of place e. *)
Parts(t, e) == \A j \in 1..e : Whole(t, j) => j + UTFMax - 1 <= e

LEMMA VisibleFacts ==
    ASSUME NEW t \in Texts
    PROVE  LET at == Sorted(VisibleAt(t))  n == Cardinality(VisibleAt(t)) IN
           /\ VisibleAt(t) \in SUBSET Valid(t) /\ VisibleAt(t) \in SUBSET Starts(t)
           /\ VisibleAt(t) \in SUBSET Nat /\ IsFiniteSet(VisibleAt(t))
           /\ n \in Nat /\ at \in [1..n -> VisibleAt(t)]
           /\ Visible(t) \in Seq(ValidRunes) /\ Len(Visible(t)) = n
           /\ \A k \in 1..n : Visible(t)[k] = ShownAs(t, at[k])
           /\ VisibleAt(t) # {} => Visible(t) # <<>>
<1> DEFINE at == Sorted(VisibleAt(t))
           n == Cardinality(VisibleAt(t))
<1>1. VisibleAt(t) \in SUBSET Valid(t)
    BY DEF VisibleAt
<1>2. /\ VisibleAt(t) \in SUBSET Starts(t) /\ VisibleAt(t) \in SUBSET Nat
      /\ IsFiniteSet(VisibleAt(t))
    BY <1>1, ValidFacts, FS_Subset
<1>3. /\ n \in Nat /\ at \in [1..n -> VisibleAt(t)]
      /\ \A x \in VisibleAt(t) : \E i \in 1..n : at[i] = x
    BY <1>2, SortedFacts
<1>4. Visible(t) = [k \in DOMAIN at |-> ShownAs(t, at[k])]
    BY DEF Visible, Runes, ShownAs
<1> HIDE DEF at, n
<1>5. \A k \in 1..n : ShownAs(t, at[k]) \in ValidRunes
    BY <1>1, <1>3, ValidFacts DEF ShownAs
<1>6. Visible(t) \in [1..n -> ValidRunes] /\ \A k \in 1..n : Visible(t)[k] = ShownAs(t, at[k])
    BY <1>3, <1>4, <1>5
<1>7. Visible(t) \in Seq(ValidRunes) /\ Len(Visible(t)) = n
    BY <1>3, <1>6, FunctionIsSeq
<1>8. ASSUME VisibleAt(t) # {} PROVE Visible(t) # <<>>
    <2>1. n # 0
        BY <1>3, <1>8
    <2> QED
        BY <1>7, <2>1
<1> QED
    BY <1>1, <1>2, <1>3, <1>6, <1>7, <1>8 DEF at, n

(* A beginning of a text that parts no character has its first visible ones. *)
LEMMA BeginningShows ==
    ASSUME NEW t \in Texts, NEW p \in Texts, Begins(p, t), Parts(t, Len(p))
    PROVE  /\ VisibleAt(p) = {i \in VisibleAt(t) : i <= Len(p)}
           /\ Starts(p) = {i \in Starts(t) : i <= Len(p)}
           /\ Begins(Visible(p), Visible(t))
<1> DEFINE e == Len(p)
<1>1. /\ t \in Seq(Bytes) /\ p \in Seq(Bytes) /\ e \in Nat /\ Len(t) \in Nat
      /\ DOMAIN t = 1..Len(t) /\ DOMAIN p = 1..e /\ e <= Len(t)
      /\ \A i \in 1..e : p[i] = t[i]
    BY DEF Texts, Begins
<1>2. \A j \in 1..e : Whole(t, j) => j + UTFMax - 1 <= e
    BY DEF Parts
<1> HIDE DEF e
<1>3. ASSUME NEW i \in 1..e PROVE Whole(p, i) <=> Whole(t, i)
    <2>1. ASSUME i + UTFMax - 1 <= e
          PROVE  \A j \in (i + 1)..(i + UTFMax - 1) : p[j] = t[j]
        <3>1. \A j \in (i + 1)..(i + UTFMax - 1) : j \in 1..e
            BY <1>1, <2>1, Constants
        <3> QED
            BY <1>1, <3>1
    <2>2. ASSUME Whole(p, i) PROVE Whole(t, i)
        <3>1. i + UTFMax - 1 <= e
            BY <2>2 DEF Whole, e
        <3>2. i + UTFMax - 1 <= Len(t)
            BY <1>1, <3>1, Constants
        <3> QED
            BY <1>1, <2>1, <2>2, <3>1, <3>2 DEF Whole
    <2>3. ASSUME Whole(t, i) PROVE Whole(p, i)
        <3>1. i + UTFMax - 1 <= e
            BY <1>2, <2>3
        <3> QED
            BY <1>1, <2>1, <2>3, <3>1 DEF Whole, e
    <2> QED
        BY <2>2, <2>3
<1>4. ASSUME NEW i \in 1..e PROVE Covered(p, i) <=> Covered(t, i)
    <2>1. ASSUME Covered(p, i) PROVE Covered(t, i)
        <3>1. PICK j \in DOMAIN p : j < i /\ i < j + UTFMax /\ Whole(p, j)
            BY <2>1 DEF Covered
        <3>2. j \in 1..e /\ j \in DOMAIN t
            BY <1>1
        <3> QED
            BY <1>3, <3>1, <3>2 DEF Covered
    <2>2. ASSUME Covered(t, i) PROVE Covered(p, i)
        <3>1. PICK j \in DOMAIN t : j < i /\ i < j + UTFMax /\ Whole(t, j)
            BY <2>2 DEF Covered
        <3>2. j \in 1..e /\ j \in DOMAIN p
            BY <1>1, <3>1
        <3> QED
            BY <1>3, <3>1, <3>2 DEF Covered
    <2> QED
        BY <2>1, <2>2
<1>5. Starts(p) = {i \in Starts(t) : i <= e}
    <2>1. ASSUME NEW i \in Starts(p) PROVE i \in Starts(t) /\ i <= e
        <3>1. i \in 1..e /\ ~Covered(p, i) /\ i \in DOMAIN t
            BY <1>1 DEF Starts
        <3> QED
            BY <1>4, <3>1 DEF Starts
    <2>2. ASSUME NEW i \in Starts(t), i <= e PROVE i \in Starts(p)
        <3>1. i \in 1..e /\ ~Covered(t, i) /\ i \in DOMAIN p
            BY <1>1, <2>2 DEF Starts
        <3> QED
            BY <1>4, <3>1 DEF Starts
    <2> QED
        BY <2>1, <2>2
<1>6. \A i \in 1..e : RuneAt(p, i) = RuneAt(t, i)
    BY <1>1, <1>3 DEF RuneAt
<1>7. \A i \in Starts(t) : i \in Nat /\ i >= 1 /\ (i <= e => i \in 1..e)
    BY <1>1, StartsFacts
<1>8. ASSUME NEW i, i \in Starts(t) => i <= e PROVE Bad(p, i) <=> Bad(t, i)
    BY <1>5, <1>6, <1>7, <1>8 DEF Bad
<1>9. ASSUME NEW i \in Starts(t), i <= e
      PROVE  /\ i \in VisibleAt(p) <=> i \in VisibleAt(t)
             /\ RuneAt(p, i) = RuneAt(t, i)
    <2>1. RuneAt(p, i) = RuneAt(t, i) /\ i \in Starts(p)
        BY <1>5, <1>6, <1>7, <1>9
    <2>2. i - 1 <= e
        BY <1>1, <1>7, <1>9
    <2>3. (Bad(p, i) <=> Bad(t, i)) /\ (Bad(p, i - 1) <=> Bad(t, i - 1))
        BY <1>8, <1>9, <2>2
    <2> QED
        BY <2>1, <2>3 DEF VisibleAt, Valid
<1>10. VisibleAt(p) = {i \in VisibleAt(t) : i <= e}
    <2>1. VisibleAt(p) \in SUBSET Starts(p) /\ VisibleAt(t) \in SUBSET Starts(t)
        BY VisibleFacts
    <2> QED
        BY <1>5, <1>9, <2>1
<1> DEFINE atp == Sorted(VisibleAt(p))
           att == Sorted(VisibleAt(t))
           np == Cardinality(VisibleAt(p))
           nt == Cardinality(VisibleAt(t))
<1>11. /\ atp \in [1..np -> VisibleAt(p)] /\ np \in Nat /\ nt \in Nat
       /\ Len(Visible(p)) = np /\ Len(Visible(t)) = nt
       /\ \A k \in 1..np : Visible(p)[k] = ShownAs(p, atp[k])
       /\ \A k \in 1..nt : Visible(t)[k] = ShownAs(t, att[k])
    BY VisibleFacts
<1>12. np <= nt /\ \A k \in 1..np : atp[k] = att[k]
    <2>1. VisibleAt(t) \in SUBSET Nat /\ IsFiniteSet(VisibleAt(t))
        BY VisibleFacts
    <2> QED
        BY <1>1, <1>10, <2>1, SortedBelow
<1> HIDE DEF atp, att, np, nt
<1>13. ASSUME NEW k \in 1..np PROVE Visible(p)[k] = Visible(t)[k]
    <2>1. atp[k] \in VisibleAt(p) /\ k \in 1..nt /\ att[k] = atp[k]
        BY <1>11, <1>12
    <2>2. atp[k] \in Starts(t) /\ atp[k] <= e
        BY <1>10, <2>1 DEF VisibleAt, Valid
    <2>3. ShownAs(p, atp[k]) = ShownAs(t, atp[k])
        BY <1>9, <2>2 DEF ShownAs
    <2> QED
        BY <1>11, <2>1, <2>3
<1>14. Begins(Visible(p), Visible(t))
    BY <1>11, <1>12, <1>13 DEF Begins
<1> QED
    BY <1>5, <1>10, <1>14 DEF e

(* Texts whose visible characters match one to one show the same. *)
LEMMA SameShown ==
    ASSUME NEW t \in Texts, NEW q \in Texts, NEW f \in [VisibleAt(t) -> Nat],
           \A x, y \in VisibleAt(t) : x < y => f[x] < f[y],
           VisibleAt(q) = {f[x] : x \in VisibleAt(t)},
           \A x \in VisibleAt(t) : ShownAs(q, f[x]) = ShownAs(t, x)
    PROVE  Visible(q) = Visible(t)
<1> DEFINE atq == Sorted(VisibleAt(q))
           att == Sorted(VisibleAt(t))
           nq == Cardinality(VisibleAt(q))
           nt == Cardinality(VisibleAt(t))
<1>1. /\ Visible(q) \in Seq(ValidRunes) /\ Visible(t) \in Seq(ValidRunes)
      /\ Len(Visible(q)) = nq /\ Len(Visible(t)) = nt /\ nt \in Nat
      /\ \A k \in 1..nq : Visible(q)[k] = ShownAs(q, atq[k])
      /\ \A k \in 1..nt : Visible(t)[k] = ShownAs(t, att[k])
    BY VisibleFacts
<1>2. nq = nt /\ \A k \in 1..nt : att[k] \in VisibleAt(t) /\ atq[k] = f[att[k]]
    <2>1. VisibleAt(t) \in SUBSET Nat /\ IsFiniteSet(VisibleAt(t))
        BY VisibleFacts
    <2> QED
        BY <2>1, SortedImage
<1> HIDE DEF atq, att, nq, nt
<1>3. ASSUME NEW k \in 1..nt PROVE Visible(q)[k] = Visible(t)[k]
    <2>1. att[k] \in VisibleAt(t) /\ atq[k] = f[att[k]] /\ k \in 1..nq
        BY <1>2
    <2>2. ShownAs(q, f[att[k]]) = ShownAs(t, att[k])
        BY <2>1
    <2> QED
        BY <1>1, <2>1, <2>2
<1> QED
    BY <1>1, <1>2, <1>3, SameSequence

(* A text whose characters before place a neither show nor reach it shows  *)
(* what the rest of it shows.                                              *)
LEMMA RestShows ==
    ASSUME NEW t \in Texts, NEW q \in Texts, NEW a \in Starts(t),
           Len(q) = Len(t) - a + 1, \A i \in 1..Len(q) : q[i] = t[a + i - 1],
           ~Bad(t, a - 1), \A i \in VisibleAt(t) : i >= a
    PROVE  /\ Visible(q) = Visible(t)
           /\ a \in VisibleAt(t) => 1 \in VisibleAt(q)
<1> DEFINE n == Len(t)
           m == Len(q)
<1>1. /\ t \in Seq(Bytes) /\ q \in Seq(Bytes) /\ n \in Nat /\ m \in Nat
      /\ DOMAIN t = 1..n /\ DOMAIN q = 1..m
      /\ a \in 1..n /\ ~Covered(t, a) /\ m = n - a + 1
      /\ \A i \in 1..m : q[i] = t[a + i - 1]
    <2>1. t \in Seq(Bytes) /\ q \in Seq(Bytes)
        BY DEF Texts
    <2>2. a \in DOMAIN t /\ ~Covered(t, a)
        BY DEF Starts
    <2> QED
        BY <2>1, <2>2
<1> HIDE DEF n, m
<1> DEFINE to(i) == a + i - 1
<1>2. \A i \in 1..m : to(i) \in 1..n /\ to(i) \in Nat /\ q[i] = t[to(i)]
    BY <1>1
<1>3. ASSUME NEW i \in 1..m PROVE Whole(q, i) <=> Whole(t, to(i))
    <2>1. i + UTFMax - 1 <= m <=> to(i) + UTFMax - 1 <= n
        BY <1>1, Constants
    <2>2. ASSUME i + UTFMax - 1 <= m
          PROVE  (\A j \in (i + 1)..(i + UTFMax - 1) : q[j] = "c")
                    <=> (\A j \in (to(i) + 1)..(to(i) + UTFMax - 1) : t[j] = "c")
        <3>1. ASSUME NEW j \in (i + 1)..(i + UTFMax - 1)
              PROVE  /\ a + j - 1 \in (to(i) + 1)..(to(i) + UTFMax - 1)
                     /\ q[j] = t[a + j - 1]
            <4>1. j \in 1..m /\ a + j - 1 \in (to(i) + 1)..(to(i) + UTFMax - 1)
                BY <1>1, <2>2, Constants
            <4> QED
                BY <1>1, <4>1
        <3>2. ASSUME NEW j \in (to(i) + 1)..(to(i) + UTFMax - 1)
              PROVE  /\ j - a + 1 \in (i + 1)..(i + UTFMax - 1)
                     /\ q[j - a + 1] = t[j]
            <4>1. /\ j - a + 1 \in 1..m /\ j - a + 1 \in (i + 1)..(i + UTFMax - 1)
                  /\ a + (j - a + 1) - 1 = j
                BY <1>1, <2>2, Constants
            <4>2. q[j - a + 1] = t[a + (j - a + 1) - 1]
                BY <1>1, <4>1
            <4> QED
                BY <4>1, <4>2
        <3> HIDE DEF to
        <3> QED
            BY <3>1, <3>2
    <2>3. q[i] = t[to(i)]
        BY <1>2
    <2> HIDE DEF to
    <2> QED
        BY <2>1, <2>2, <2>3 DEF Whole, n, m
<1>4. ASSUME NEW i \in 1..m PROVE Covered(q, i) <=> Covered(t, to(i))
    <2>1. ASSUME Covered(q, i) PROVE Covered(t, to(i))
        <3>1. PICK j \in DOMAIN q : j < i /\ i < j + UTFMax /\ Whole(q, j)
            BY <2>1 DEF Covered
        <3>2. j \in 1..m /\ to(j) \in DOMAIN t /\ to(j) < to(i) /\ to(i) < to(j) + UTFMax
            BY <1>1, <3>1, Constants
        <3>3. Whole(t, to(j))
            BY <1>3, <3>1, <3>2
        <3> HIDE DEF to
        <3> QED
            BY <3>2, <3>3 DEF Covered
    <2>2. ASSUME Covered(t, to(i)) PROVE Covered(q, i)
        <3>1. PICK j \in DOMAIN t : j < to(i) /\ to(i) < j + UTFMax /\ Whole(t, j)
            BY <2>2 DEF Covered
        <3>2. ASSUME j < a PROVE FALSE
            <4>1. a < j + UTFMax
                BY <1>1, <3>1, Constants
            <4> QED
                BY <1>1, <3>1, <3>2, <4>1 DEF Covered
        <3>3. /\ j - a + 1 \in 1..m /\ to(j - a + 1) = j
              /\ j - a + 1 < i /\ i < j - a + 1 + UTFMax
            <4>1. /\ j \in 1..n /\ a \in 1..n /\ i \in 1..m /\ n \in Nat /\ m = n - a + 1
                  /\ UTFMax \in Nat /\ ~(j < a)
                BY <1>1, <3>2, Constants
            <4>2. j < a + i - 1 /\ a + i - 1 < j + UTFMax
                BY <3>1
            <4>3. j - a + 1 \in 1..m /\ a + (j - a + 1) - 1 = j
                BY <4>1
            <4> QED
                BY <4>1, <4>2, <4>3
        <3>4. Whole(q, j - a + 1)
            BY <1>3, <3>1, <3>3
        <3> QED
            BY <1>1, <3>3, <3>4 DEF Covered
    <2> QED
        BY <2>1, <2>2
<1>5. ASSUME NEW i \in 1..m
      PROVE  (i \in Starts(q) <=> to(i) \in Starts(t)) /\ RuneAt(q, i) = RuneAt(t, to(i))
    <2>1. i \in DOMAIN q /\ to(i) \in DOMAIN t /\ q[i] = t[to(i)]
        BY <1>1, <1>2
    <2> HIDE DEF to
    <2> QED
        BY <1>3, <1>4, <2>1 DEF Starts, RuneAt
<1>6. ASSUME NEW i \in 1..m PROVE Bad(q, i) <=> Bad(t, to(i))
    BY <1>5 DEF Bad
<1>7. ASSUME NEW i \in 1..m PROVE Bad(q, i - 1) <=> Bad(t, to(i) - 1)
    <2>1. CASE i = 1
        <3>1. ~Bad(q, 0)
            BY <1>1 DEF Bad, Starts
        <3>2. to(i) - 1 = a - 1 /\ i - 1 = 0
            BY <1>1, <2>1
        <3> QED
            BY <3>1, <3>2
    <2>2. CASE i # 1
        <3>1. i - 1 \in 1..m /\ to(i) - 1 = to(i - 1)
            BY <1>1, <2>2
        <3> QED
            BY <1>6, <3>1
    <2> QED
        BY <2>1, <2>2
<1>8. ASSUME NEW i \in 1..m PROVE i \in VisibleAt(q) <=> to(i) \in VisibleAt(t)
    BY <1>5, <1>6, <1>7 DEF VisibleAt, Valid
<1> DEFINE f == [x \in VisibleAt(t) |-> x - a + 1]
<1>9. ASSUME NEW x \in VisibleAt(t)
      PROVE  x \in Nat /\ x - a + 1 \in 1..m /\ to(x - a + 1) = x
    <2>1. x \in 1..n /\ x >= a
        BY StartsFacts DEF VisibleAt, Valid, n
    <2> QED
        BY <1>1, <2>1
<1>10. f \in [VisibleAt(t) -> Nat] /\ \A x, y \in VisibleAt(t) : x < y => f[x] < f[y]
    <2>1. f \in [VisibleAt(t) -> Nat]
        <3>1. \A x \in VisibleAt(t) : x - a + 1 \in Nat
            BY <1>9
        <3> QED
            BY <3>1
    <2>2. ASSUME NEW x \in VisibleAt(t), NEW y \in VisibleAt(t), x < y PROVE f[x] < f[y]
        <3>1. x \in Nat /\ y \in Nat /\ a \in Nat
            BY <1>1, <1>9
        <3>2. x - a + 1 < y - a + 1
            BY <2>2, <3>1
        <3> QED
            BY <3>2
    <2> QED
        BY <2>1, <2>2
<1>11. VisibleAt(q) = {f[x] : x \in VisibleAt(t)}
    <2>1. ASSUME NEW i \in VisibleAt(q) PROVE to(i) \in VisibleAt(t) /\ f[to(i)] = i
        <3>1. i \in 1..m
            BY StartsFacts DEF VisibleAt, Valid, m
        <3>2. to(i) \in VisibleAt(t)
            BY <1>8, <3>1
        <3>3. to(i) - a + 1 = i
            BY <1>1, <3>1
        <3> HIDE DEF to
        <3> QED
            BY <3>2, <3>3
    <2>2. ASSUME NEW x \in VisibleAt(t) PROVE f[x] \in VisibleAt(q)
        <3>1. x - a + 1 \in VisibleAt(q)
            BY <1>8, <1>9
        <3> QED
            BY <3>1
    <2> HIDE DEF f, to
    <2> QED
        BY <2>1, <2>2
<1>12. \A x \in VisibleAt(t) : ShownAs(q, f[x]) = ShownAs(t, x)
    <2>1. ASSUME NEW x \in VisibleAt(t) PROVE RuneAt(q, x - a + 1) = RuneAt(t, x)
        BY <1>5, <1>9
    <2> QED
        BY <2>1 DEF ShownAs
<1>13. ASSUME a \in VisibleAt(t) PROVE 1 \in VisibleAt(q)
    <2>1. 1 \in 1..m /\ to(1) = a
        BY <1>1
    <2> QED
        BY <1>8, <1>13, <2>1
<1> HIDE DEF f
<1>14. Visible(q) = Visible(t)
    BY <1>10, <1>11, <1>12, SameShown
<1> QED
    BY <1>13, <1>14

(***************************************************************************)
(* What is written shows as it is written.                                 *)
(***************************************************************************)
LEMMA EncodedFacts ==
    ASSUME NEW rune \in SafeRunes
    PROVE  /\ Encode(rune) \in Seq(Bytes) /\ Len(Encode(rune)) = Width(rune)
           /\ Encode(rune)[1] = rune /\ Width(rune) \in Nat /\ Width(rune) >= 1
<1>1. CASE rune \in Leads
    <2> DEFINE b == [i \in 1..UTFMax |-> IF i = 1 THEN rune ELSE "c"]
    <2>1. b \in [1..UTFMax -> Bytes] /\ b[1] = rune
        BY <1>1, Constants DEF Bytes
    <2>2. Encode(rune) = b /\ Width(rune) = UTFMax
        BY <1>1 DEF Encode, Width
    <2> HIDE DEF b
    <2> QED
        BY <2>1, <2>2, Constants, FunctionIsSeq
<1>2. CASE rune \notin Leads
    <2>1. Encode(rune) = <<rune>> /\ Width(rune) = 1 /\ rune \in Bytes
        BY <1>2 DEF Encode, Width, SafeRunes, Bytes, Leads
    <2> QED
        BY <2>1
<1> QED
    BY <1>1, <1>2

Then(a, rune) == a \o Encode(rune)

LEMMA OneMore ==
    ASSUME NEW a \in GoodTexts, NEW rune \in SafeRunes
    PROVE  /\ Then(a, rune) \in GoodTexts
           /\ Starts(Then(a, rune)) = Starts(a) \cup {Len(a) + 1}
           /\ \A i \in 1..Len(a) : Then(a, rune)[i] = a[i]
           /\ Then(a, rune)[Len(a) + 1] = rune
<1> DEFINE m == Len(a)
           w == Width(rune)
           u == Then(a, rune)
<1>1. a \in Texts /\ a \in Seq(Bytes) /\ m \in Nat /\ DOMAIN a = 1..m
    BY GoodIsText DEF Texts
<1>2. /\ Encode(rune) \in Seq(Bytes) /\ Len(Encode(rune)) = w
      /\ Encode(rune)[1] = rune /\ w \in Nat /\ w >= 1
    BY EncodedFacts
<1>3. u \in GoodTexts /\ u \in Texts
    BY EncodedIsGood, JoinedIsGood, GoodIsText DEF Then
<1> HIDE DEF m, w, u
<1>4. /\ Len(u) = m + w /\ DOMAIN u = 1..(m + w)
      /\ \A i \in 1..m : u[i] = a[i]
      /\ \A i \in (m + 1)..(m + w) : u[i] = Encode(rune)[i - m]
    <2> DEFINE b == Encode(rune)
    <2>1. a \in Seq(Bytes) /\ b \in Seq(Bytes) /\ u = a \o b
        BY <1>1, <1>2 DEF Then, u
    <2>2. Len(b) = w
        BY <1>2
    <2> HIDE DEF b
    <2>3. /\ Len(u) = Len(a) + Len(b) /\ DOMAIN u = 1..(Len(a) + Len(b))
          /\ \A i \in 1..Len(a) : u[i] = a[i]
          /\ \A i \in (Len(a) + 1)..(Len(a) + Len(b)) : u[i] = b[i - Len(a)]
        BY <2>1, ConcatFacts
    <2> QED
        BY <2>2, <2>3 DEF b, m
<1>5. u[m + 1] = rune
    <2>1. m + 1 \in (m + 1)..(m + w) /\ (m + 1) - m = 1
        BY <1>1, <1>2
    <2> QED
        BY <1>2, <1>4, <2>1
<1>6. ASSUME NEW j \in 1..m, Whole(u, j) PROVE j + UTFMax - 1 <= m
    <2>1. u[j] \in Leads /\ u[j] = a[j] /\ j \in DOMAIN a
        BY <1>1, <1>4, <1>6 DEF Whole
    <2>2. Whole(a, j)
        BY <2>1 DEF GoodTexts, Good
    <2> QED
        BY <2>2 DEF Whole, m
<1>7. Starts(a) = {i \in Starts(u) : i <= m}
    <2>1. Begins(a, u)
        BY <1>1, <1>2, <1>4 DEF Begins, m
    <2>2. Parts(u, m)
        BY <1>6 DEF Parts
    <2> QED
        BY <1>1, <1>3, <2>1, <2>2, BeginningShows DEF m
<1>8. m + 1 \in Starts(u)
    <2>1. m + 1 \in DOMAIN u
        BY <1>1, <1>2, <1>4
    <2>2. ASSUME Covered(u, m + 1) PROVE FALSE
        <3>1. PICK j \in DOMAIN u : j < m + 1 /\ m + 1 < j + UTFMax /\ Whole(u, j)
            BY <2>2 DEF Covered
        <3>2. j \in 1..m
            BY <1>1, <1>2, <1>4, <3>1
        <3>3. j + UTFMax - 1 <= m
            BY <1>6, <3>1, <3>2
        <3> QED
            BY <1>1, <3>1, <3>2, <3>3, Constants
    <2> QED
        BY <2>1, <2>2 DEF Starts
<1>9. ASSUME NEW i \in Starts(u), i > m PROVE i = m + 1
    <2>1. i \in 1..(m + w) /\ ~Covered(u, i)
        BY <1>4 DEF Starts
    <2> SUFFICES ASSUME i > m + 1 PROVE FALSE
        BY <1>1, <1>9, <2>1
    <2>2. rune \in Leads /\ w = UTFMax
        <3>1. w # 1
            BY <1>1, <2>1
        <3> QED
            BY <3>1 DEF Width, w
    <2>3. m + 1 \in DOMAIN u /\ Whole(u, m + 1)
        BY <1>3, <1>5, <1>8, <2>2 DEF Starts, GoodTexts, Good
    <2>4. m + 1 < i /\ i < m + 1 + UTFMax
        BY <1>1, <1>2, <2>1, <2>2
    <2> QED
        BY <2>1, <2>3, <2>4 DEF Covered
<1>10. Starts(u) = Starts(a) \cup {m + 1}
    <2>1. \A i \in Starts(u) : i <= m \/ i > m
        BY <1>1, <1>3, StartsFacts
    <2> QED
        BY <1>7, <1>8, <1>9, <2>1
<1> QED
    BY <1>3, <1>4, <1>5, <1>10 DEF m, u

(* The characters of t are the first n of runes, and begin at places pos. *)
Spells(t, n, runes, pos) ==
    /\ t \in GoodTexts /\ pos \in [1..n -> Starts(t)]
    /\ \A i, j \in 1..n : i < j => pos[i] < pos[j]
    /\ \A x \in Starts(t) : \E k \in 1..n : pos[k] = x
    /\ \A k \in 1..n : t[pos[k]] = runes[k]

LEMMA SpellsOneMore ==
    ASSUME NEW t, NEW n \in Nat, NEW runes, NEW pos, Spells(t, n, runes, pos),
           runes[n + 1] \in SafeRunes
    PROVE  \E next : Spells(Then(t, runes[n + 1]), n + 1, runes, next)
<1> DEFINE u == Then(t, runes[n + 1])
           m == Len(t)
           next == [k \in 1..(n + 1) |-> IF k = n + 1 THEN m + 1 ELSE pos[k]]
<1>1. /\ t \in GoodTexts /\ pos \in [1..n -> Starts(t)]
      /\ \A i, j \in 1..n : i < j => pos[i] < pos[j]
      /\ \A x \in Starts(t) : \E k \in 1..n : pos[k] = x
      /\ \A k \in 1..n : t[pos[k]] = runes[k]
    BY DEF Spells
<1>2. /\ u \in GoodTexts /\ Starts(u) = Starts(t) \cup {m + 1}
      /\ \A i \in 1..m : u[i] = t[i]
      /\ u[m + 1] = runes[n + 1]
    BY <1>1, OneMore
<1>3. /\ m \in Nat /\ Starts(t) \in SUBSET (1..m)
      /\ \A k \in 1..n : pos[k] \in Starts(t) /\ pos[k] \in 1..m
    <2>1. m \in Nat /\ Starts(t) \in SUBSET (1..m)
        BY <1>1, GoodIsText, StartsFacts
    <2> QED
        BY <1>1, <2>1
<1> HIDE DEF u, m
<1>4. \A k \in 1..(n + 1) : k = n + 1 \/ (k \in 1..n /\ k # n + 1)
    OBVIOUS
<1>5. /\ next[n + 1] = m + 1
      /\ \A k \in 1..n : next[k] = pos[k]
      /\ DOMAIN next = 1..(n + 1) /\ next = [k \in 1..(n + 1) |-> next[k]]
    OBVIOUS
<1> HIDE DEF next
<1>6. next \in [1..(n + 1) -> Starts(u)]
    <2>1. \A k \in 1..(n + 1) : next[k] \in Starts(u)
        BY <1>2, <1>3, <1>4, <1>5
    <2> QED
        BY <1>5, <2>1
<1>7. ASSUME NEW i \in 1..(n + 1), NEW j \in 1..(n + 1), i < j PROVE next[i] < next[j]
    <2>1. i \in 1..n
        BY <1>7
    <2>2. CASE j = n + 1
        <3>1. next[i] \in 1..m /\ next[j] = m + 1
            BY <1>3, <1>5, <2>1, <2>2
        <3> QED
            BY <1>3, <3>1
    <2>3. CASE j \in 1..n
        BY <1>1, <1>5, <1>7, <2>1, <2>3
    <2> QED
        BY <1>4, <2>2, <2>3
<1>8. ASSUME NEW x \in Starts(u) PROVE \E k \in 1..(n + 1) : next[k] = x
    <2>1. CASE x = m + 1
        <3>1. n + 1 \in 1..(n + 1)
            OBVIOUS
        <3> QED
            BY <1>5, <2>1, <3>1
    <2>2. CASE x \in Starts(t)
        <3>1. PICK k \in 1..n : pos[k] = x
            BY <1>1, <2>2
        <3>2. k \in 1..(n + 1)
            OBVIOUS
        <3> QED
            BY <1>5, <3>1, <3>2
    <2> QED
        BY <1>2, <2>1, <2>2
<1>9. ASSUME NEW k \in 1..(n + 1) PROVE u[next[k]] = runes[k]
    <2>1. CASE k = n + 1
        BY <1>2, <1>5, <2>1
    <2>2. CASE k \in 1..n
        <3>1. next[k] = pos[k] /\ pos[k] \in 1..m /\ t[pos[k]] = runes[k]
            BY <1>1, <1>3, <1>5, <2>2
        <3> QED
            BY <1>2, <3>1
    <2> QED
        BY <1>4, <2>1, <2>2
<1>10. Spells(u, n + 1, runes, next)
    BY <1>2, <1>6, <1>7, <1>8, <1>9 DEF Spells
<1> QED
    BY <1>10 DEF u

(* Encoded runes joined one to the other are spelt by them. *)
LEMMA JoinedSpells ==
    ASSUME NEW n \in Nat, NEW runes \in [1..n -> SafeRunes]
    PROVE  \E pos : Spells(FlattenSeq([k \in 1..n |-> Encode(runes[k])]), n, runes, pos)
<1> DEFINE parts == [k \in 1..n |-> Encode(runes[k])]
<1>1. parts \in [1..n -> Seq(Bytes)]
    <2>1. \A k \in 1..n : Encode(runes[k]) \in Seq(Bytes)
        BY EncodedFacts
    <2> QED
        BY <2>1
<1>2. \A k \in 1..n : parts[k] = Encode(runes[k])
    OBVIOUS
<1> HIDE DEF parts
<1>3. Len(parts) = n
    BY <1>1, FunctionIsSeq
<1>4. Spells(<<>>, 0, runes, [k \in 1..0 |-> 0])
    <2>1. Starts(<<>>) = {}
        BY DEF Starts
    <2> QED
        BY <2>1, EmptyIsGood DEF Spells
<1>5. CASE n = 0
    <2>1. parts = <<>>
        BY <1>1, <1>5
    <2>2. FlattenSeq(parts) = <<>>
        BY <2>1 DEF FlattenSeq
    <2> QED
        BY <1>4, <1>5, <2>2 DEF parts
<1>6. CASE n # 0
    <2> DEFINE flat == CHOOSE f : Joins(f, n, parts)
               S == {k \in Nat : k + 1 <= n => \E pos : Spells(flat[k + 1], k + 1, runes, pos)}
    <2>1. Joins(flat, n, parts)
        BY JoinsExists
    <2>2. FlattenSeq(parts) = flat[n]
        BY <1>3, <1>6 DEF FlattenSeq, Joins
    <2> HIDE DEF flat
    <2>3. \A i \in 1..n : flat[i] = IF i = 1 THEN parts[i] ELSE flat[i - 1] \o parts[i]
        BY <2>1 DEF Joins
    <2>4. 0 \in S
        <3>1. 1 \in 1..n /\ 0 + 1 = 1
            BY <1>6
        <3>2. flat[1] = Encode(runes[1]) /\ runes[1] \in SafeRunes
            BY <1>2, <2>3, <3>1
        <3>3. Then(<<>>, runes[1]) = Encode(runes[1])
            <4> DEFINE b == Encode(runes[1])
            <4>1. b \in Seq(Bytes)
                BY <3>2, EncodedFacts
            <4> HIDE DEF b
            <4>2. <<>> \o b = b
                BY <4>1
            <4> QED
                BY <4>2 DEF b, Then
        <3>4. \E next : Spells(Then(<<>>, runes[0 + 1]), 0 + 1, runes, next)
            BY <1>4, <3>1, <3>2, SpellsOneMore
        <3> QED
            BY <3>1, <3>2, <3>3, <3>4
    <2>5. ASSUME NEW k \in Nat, k \in S PROVE k + 1 \in S
        <3> SUFFICES ASSUME (k + 1) + 1 <= n
                     PROVE  \E pos : Spells(flat[(k + 1) + 1], (k + 1) + 1, runes, pos)
            OBVIOUS
        <3> DEFINE l == k + 1
        <3>1. l \in Nat /\ l <= n /\ l + 1 \in 1..n /\ l + 1 # 1 /\ (l + 1) - 1 = l
            OBVIOUS
        <3>2. PICK pos : Spells(flat[l], l, runes, pos)
            BY <2>5, <3>1
        <3> HIDE DEF l
        <3>3. flat[l + 1] = Then(flat[l], runes[l + 1]) /\ runes[l + 1] \in SafeRunes
            BY <1>2, <2>3, <3>1 DEF Then
        <3>4. \E next : Spells(Then(flat[l], runes[l + 1]), l + 1, runes, next)
            BY <3>1, <3>2, <3>3, SpellsOneMore
        <3> QED
            BY <3>3, <3>4 DEF l
    <2>6. Nat \subseteq S
        <3> HIDE DEF S
        <3> QED
            BY <2>4, <2>5, SetInduction
    <2>7. n - 1 \in Nat /\ (n - 1) + 1 = n
        BY <1>6
    <2>8. \E pos : Spells(flat[n], n, runes, pos)
        BY <2>6, <2>7
    <2> QED
        BY <2>2, <2>8 DEF parts
<1> QED
    BY <1>5, <1>6

(* Replacing what is invalid or unsafe hides nothing that shows. *)
LEMMA SanitizedShows ==
    ASSUME NEW t \in Texts
    PROVE  LET u == Sanitize(ToValidUTF8(t)) IN
           /\ u \in GoodTexts /\ Visible(u) = Visible(t)
           /\ 1 \in VisibleAt(t) => 1 \in VisibleAt(u)
<1> DEFINE at == Sorted(Valid(t))
           n == Cardinality(Valid(t))
           r == ToValidUTF8(t)
           runes == [k \in 1..n |-> IF isUnsafe(r[k]) THEN "s" ELSE r[k]]
           u == Sanitize(r)
<1>1. /\ n \in Nat /\ at \in [1..n -> Valid(t)]
      /\ r \in [1..n -> ValidRunes]
      /\ \A k \in 1..n : r[k] = ShownAs(t, at[k])
    BY ToValidFacts DEF ShownAs
<1>2. /\ \A i, j \in 1..n : i < j => at[i] < at[j]
      /\ \A x \in Valid(t) : \E k \in 1..n : at[k] = x
    BY ValidFacts, SortedFacts
<1>3. Valid(t) \in SUBSET Nat /\ \A x \in Valid(t) : x >= 1
    <2>1. Valid(t) \in SUBSET Starts(t) /\ Starts(t) \in SUBSET (1..Len(t))
        BY ValidFacts, StartsFacts
    <2> QED
        BY <2>1, ValidFacts
<1> HIDE DEF at, n, r
<1>4. /\ \A k \in 1..n : runes[k] = IF isUnsafe(r[k]) THEN "s" ELSE r[k]
      /\ \A k \in 1..n : runes[k] = "s" <=> isUnsafeOrSpace(r[k])
    BY DEF isUnsafeOrSpace
<1>5. runes \in [1..n -> SafeRunes]
    <2>1. ASSUME NEW k \in 1..n PROVE (IF isUnsafe(r[k]) THEN "s" ELSE r[k]) \in SafeRunes
        <3>1. r[k] \in ValidRunes
            BY <1>1
        <3> QED
            BY <3>1 DEF ValidRunes, SafeRunes, Leads, isUnsafe
    <2> QED
        BY <2>1
<1>6. u = FlattenSeq([k \in 1..n |-> Encode(runes[k])])
    <2>1. DOMAIN r = 1..n
        BY <1>1
    <2>2. [k \in DOMAIN r |-> Encode(IF isUnsafe(r[k]) THEN "s" ELSE r[k])]
            = [k \in 1..n |-> Encode(runes[k])]
        BY <1>4, <2>1
    <2> HIDE DEF runes
    <2> QED
        BY <2>2 DEF Sanitize
<1> HIDE DEF runes, u
<1>7. PICK pos : Spells(u, n, runes, pos)
    BY <1>1, <1>5, <1>6, JoinedSpells
<1>8. /\ u \in GoodTexts /\ u \in Texts /\ pos \in [1..n -> Starts(u)]
      /\ \A i, j \in 1..n : i < j => pos[i] < pos[j]
      /\ \A x \in Starts(u) : \E k \in 1..n : pos[k] = x
      /\ \A k \in 1..n : u[pos[k]] = runes[k]
    BY <1>7, GoodIsText DEF Spells
<1>9. ASSUME NEW k \in 1..n
      PROVE  /\ pos[k] \in VisibleAt(u) <=> runes[k] # "s"
             /\ ShownAs(u, pos[k]) = runes[k]
    <2>1. pos[k] \in Starts(u) /\ pos[k] \in Valid(u)
        BY <1>8, GoodIsValid
    <2>2. RuneAt(u, pos[k]) = runes[k] /\ runes[k] \in SafeRunes
        BY <1>8, <2>1, GoodIsValid
    <2> QED
        BY <2>1, <2>2 DEF VisibleAt, ShownAs, SafeRunes, isUnsafeOrSpace, isUnsafe
<1>10. ASSUME NEW k \in 1..n
       PROVE  /\ at[k] \in VisibleAt(t) <=> runes[k] # "s"
              /\ runes[k] # "s" => ShownAs(t, at[k]) = runes[k]
    <2>1. at[k] \in Valid(t) /\ r[k] = ShownAs(t, at[k])
        BY <1>1
    <2>2. isUnsafeOrSpace(r[k]) <=> isUnsafeOrSpace(RuneAt(t, at[k]))
        BY <2>1 DEF ShownAs, isUnsafeOrSpace, isUnsafe
    <2>3. ASSUME runes[k] # "s" PROVE runes[k] = r[k]
        BY <1>4, <2>3
    <2> QED
        BY <1>4, <2>1, <2>2, <2>3 DEF VisibleAt
<1> DEFINE rank(x) == CHOOSE k \in 1..n : at[k] = x
           f == [x \in VisibleAt(t) |-> pos[rank(x)]]
<1>11. ASSUME NEW x \in VisibleAt(t) PROVE rank(x) \in 1..n /\ at[rank(x)] = x
    <2>1. \E k \in 1..n : at[k] = x
        BY <1>2 DEF VisibleAt
    <2> QED
        BY <2>1
<1>12. ASSUME NEW k \in 1..n, NEW l \in 1..n, at[k] <= at[l] PROVE k <= l
    <2> SUFFICES ASSUME l < k PROVE FALSE
        OBVIOUS
    <2>1. at[l] < at[k]
        BY <1>2
    <2>2. at[l] \in Nat /\ at[k] \in Nat
        BY <1>1, <1>3
    <2> QED
        BY <1>12, <2>1, <2>2
<1> HIDE DEF rank
<1>13. f \in [VisibleAt(t) -> Nat]
    <2>1. \A x \in VisibleAt(t) : pos[rank(x)] \in Nat
        BY <1>8, <1>11, StartsFacts
    <2> QED
        BY <2>1
<1>14. ASSUME NEW x \in VisibleAt(t), NEW y \in VisibleAt(t), x < y PROVE f[x] < f[y]
    <2>1. /\ rank(x) \in 1..n /\ at[rank(x)] = x
          /\ rank(y) \in 1..n /\ at[rank(y)] = y
        BY <1>11
    <2>2. x \in Nat /\ y \in Nat
        BY <1>3 DEF VisibleAt
    <2>3. rank(x) < rank(y)
        <3>1. rank(x) <= rank(y)
            BY <1>12, <1>14, <2>1, <2>2
        <3>2. rank(x) # rank(y)
            BY <1>14, <2>1, <2>2
        <3> QED
            BY <2>1, <3>1, <3>2
    <2>4. pos[rank(x)] < pos[rank(y)]
        BY <1>8, <2>1, <2>3
    <2> QED
        BY <2>4
<1>15. ASSUME NEW k \in 1..n, at[k] \in VisibleAt(t) PROVE f[at[k]] = pos[k]
    <2>1. rank(at[k]) \in 1..n /\ at[rank(at[k])] = at[k]
        BY <1>11, <1>15
    <2>2. at[k] \in Nat
        BY <1>1, <1>3
    <2>3. rank(at[k]) <= k /\ k <= rank(at[k])
        BY <1>12, <2>1, <2>2
    <2>4. rank(at[k]) = k
        BY <2>1, <2>3
    <2> QED
        BY <1>15, <2>4
<1> HIDE DEF f
<1>16. VisibleAt(u) = {f[x] : x \in VisibleAt(t)}
    <2>1. ASSUME NEW y \in VisibleAt(u) PROVE \E x \in VisibleAt(t) : f[x] = y
        <3>1. y \in Starts(u)
            BY DEF VisibleAt, Valid
        <3>2. PICK k \in 1..n : pos[k] = y
            BY <1>8, <3>1
        <3>3. at[k] \in VisibleAt(t)
            BY <1>9, <1>10, <3>2
        <3> QED
            BY <1>15, <3>2, <3>3
    <2>2. ASSUME NEW x \in VisibleAt(t) PROVE f[x] \in VisibleAt(u)
        <3>1. rank(x) \in 1..n /\ at[rank(x)] = x
            BY <1>11
        <3>2. f[x] = pos[rank(x)]
            BY <1>15, <3>1
        <3> QED
            BY <1>9, <1>10, <3>1, <3>2
    <2> QED
        BY <2>1, <2>2
<1>17. ASSUME NEW x \in VisibleAt(t) PROVE ShownAs(u, f[x]) = ShownAs(t, x)
    <2>1. rank(x) \in 1..n /\ at[rank(x)] = x
        BY <1>11
    <2>2. f[x] = pos[rank(x)]
        BY <1>15, <2>1
    <2> QED
        BY <1>9, <1>10, <2>1, <2>2
<1>18. Visible(u) = Visible(t)
    <2>1. \A x, y \in VisibleAt(t) : x < y => f[x] < f[y]
        BY <1>14
    <2>2. \A x \in VisibleAt(t) : ShownAs(u, f[x]) = ShownAs(t, x)
        BY <1>17
    <2> QED
        BY <1>8, <1>13, <1>16, <2>1, <2>2, SameShown
<1>19. ASSUME 1 \in VisibleAt(t) PROVE 1 \in VisibleAt(u)
    <2>1. PICK k \in 1..n : at[k] = 1
        BY <1>2, <1>19 DEF VisibleAt
    <2>2. ASSUME NEW l \in 1..n PROVE k <= l
        <3>1. at[l] \in Nat /\ at[l] >= 1
            BY <1>1, <1>3
        <3>2. at[k] <= at[l]
            BY <2>1, <3>1
        <3> QED
            BY <1>12, <3>2
    <2>3. pos[k] \in VisibleAt(u)
        BY <1>9, <1>10, <1>19, <2>1
    <2>4. Len(u) \in Nat /\ DOMAIN u = 1..Len(u) /\ pos[k] \in 1..Len(u)
        BY <1>8, GoodIsText, StartsFacts
    <2>5. 1 \in Starts(u)
        BY <2>4 DEF Starts, Covered
    <2>6. PICK l \in 1..n : pos[l] = 1
        BY <1>8, <2>5
    <2>7. l = k
        <3>1. k <= l
            BY <2>2
        <3>2. k < l => pos[k] < pos[l]
            BY <1>8
        <3> QED
            BY <1>1, <2>4, <2>6, <3>1, <3>2
    <2> QED
        BY <2>3, <2>6, <2>7
<1> QED
    BY <1>8, <1>18, <1>19 DEF u, r

LEMMA BeginsFacts ==
    ASSUME NEW S, NEW s \in Seq(S), NEW t \in Seq(S), NEW u \in Seq(S)
    PROVE  /\ Begins(s, s)
           /\ Begins(s, t) /\ Begins(t, u) => Begins(s, u)
           /\ Begins(s, t) => IsPrefix(s, t)
<1>1. Len(s) \in Nat /\ Len(t) \in Nat /\ Len(u) \in Nat
    OBVIOUS
<1>2. Begins(s, s)
    BY <1>1 DEF Begins
<1>3. ASSUME Begins(s, t), Begins(t, u) PROVE Begins(s, u)
    <2>1. /\ Len(s) <= Len(t) /\ Len(t) <= Len(u)
          /\ \A i \in 1..Len(s) : s[i] = t[i]
          /\ \A i \in 1..Len(t) : t[i] = u[i]
        BY <1>3 DEF Begins
    <2>2. \A i \in 1..Len(s) : i \in 1..Len(t)
        BY <1>1, <2>1
    <2> QED
        BY <1>1, <2>1, <2>2 DEF Begins
<1>4. ASSUME Begins(s, t) PROVE IsPrefix(s, t)
    <2>1. Len(s) <= Len(t) /\ \A i \in 1..Len(s) : s[i] = t[i]
        BY <1>4 DEF Begins
    <2> DEFINE start == SubSeq(t, 1, Len(s))
    <2>2. start \in Seq(S) /\ Len(start) = Len(s) /\ \A i \in 1..Len(s) : start[i] = t[i]
        BY <2>1
    <2> HIDE DEF start
    <2>3. start = s
        BY <2>1, <2>2, SameSequence
    <2>4. SubSeq(s, 1, Len(s)) = s
        BY WholeSlice
    <2> QED
        BY <2>1, <2>3, <2>4 DEF IsPrefix, start
<1> QED
    BY <1>2, <1>3, <1>4

LEMMA TruncateShows ==
    ASSUME NEW t \in Texts
    PROVE  /\ truncateMessage(t) \in Texts
           /\ Begins(Visible(truncateMessage(t)), Visible(t))
           /\ 1 \in VisibleAt(t) => 1 \in VisibleAt(truncateMessage(t))
<1>1. truncateMessage(t) \in Texts
    BY TruncateTyped
<1>2. t \in Seq(Bytes) /\ Len(t) \in Nat
    BY DEF Texts
<1>3. CASE Len(t) <= maxMessageBytes
    <2>1. truncateMessage(t) = t
        BY <1>3 DEF truncateMessage
    <2>2. Visible(t) \in Seq(ValidRunes)
        BY VisibleFacts
    <2> QED
        BY <1>1, <2>1, <2>2, BeginsFacts
<1>4. CASE Len(t) > maxMessageBytes
    <2> DEFINE e == Cut(t)
               m == maxMessageBytes
               p == SubSeq(t, 1, e)
    <2>1. truncateMessage(t) = p
        BY <1>4, TruncateCuts
    <2>2. e \in 1..m /\ (Ends(t) # {} => e \in Ends(t)) /\ (Ends(t) = {} => e = m)
        BY CutFacts DEF Cut
    <2> HIDE DEF e
    <2>3. ASSUME NEW j \in 1..e, Whole(t, j) PROVE j + UTFMax - 1 <= e
        <3> SUFFICES ASSUME j + UTFMax - 1 > e PROVE FALSE
            BY <2>2, Constants
        <3>1. t[j] # "c" /\ \A k \in (j + 1)..(j + UTFMax - 1) : t[k] = "c"
            BY <2>3 DEF Whole, Leads
        <3>2. CASE Ends(t) # {}
            <4>1. t[e + 1] # "c"
                BY <2>2, <3>2 DEF Ends
            <4>2. e + 1 \in (j + 1)..(j + UTFMax - 1)
                BY <2>2, Constants
            <4> QED
                BY <3>1, <4>1, <4>2
        <3>3. CASE Ends(t) = {}
            <4>1. j - 1 \in (m - UTFMax + 1)..m /\ (j - 1) + 1 = j
                BY <2>2, <3>3, Constants
            <4>2. j - 1 \in Ends(t)
                BY <3>1, <4>1 DEF Ends
            <4> QED
                BY <3>3, <4>2
        <3> QED
            BY <3>2, <3>3
    <2>4. Len(p) = e /\ \A i \in 1..e : p[i] = t[i]
        <3>1. 1 \in 1..Len(t) /\ e \in 0..Len(t) /\ 1 <= e + 1 /\ e - 1 + 1 = e
            BY <1>2, <1>4, <2>2, Constants
        <3>2. Len(p) = e - 1 + 1 /\ \A i \in 1..(e - 1 + 1) : p[i] = t[1 + i - 1]
            BY <1>2, <3>1, SliceFacts
        <3>3. \A i \in 1..e : 1 + i - 1 = i
            OBVIOUS
        <3> HIDE DEF p
        <3> QED
            BY <3>1, <3>2, <3>3
    <2> HIDE DEF p
    <2>5. Begins(p, t) /\ Parts(t, Len(p)) /\ p \in Texts
        <3>1. e <= Len(t)
            BY <1>2, <1>4, <2>2, Constants
        <3> QED
            BY <1>1, <2>1, <2>3, <2>4, <3>1 DEF Begins, Parts
    <2>6. /\ VisibleAt(p) = {i \in VisibleAt(t) : i <= Len(p)}
          /\ Begins(Visible(p), Visible(t))
        BY <2>5, BeginningShows
    <2>7. 1 <= Len(p)
        BY <2>2, <2>4
    <2> QED
        BY <1>1, <2>1, <2>6, <2>7
<1> QED
    BY <1>2, <1>3, <1>4, Constants

LEMMA TrimSpaceShows ==
    ASSUME NEW t \in GoodTexts, 1 \in VisibleAt(t)
    PROVE  /\ TrimSpace(t) \in Texts
           /\ Begins(Visible(TrimSpace(t)), Visible(t))
           /\ 1 \in VisibleAt(TrimSpace(t))
<1> DEFINE kept == {i \in DOMAIN t : t[i] # "s"}
           b == Max(kept)
           p == SubSeq(t, 1, b)
<1>1. /\ t \in Texts /\ t \in Seq(Bytes) /\ Len(t) \in Nat /\ DOMAIN t = 1..Len(t)
    BY GoodIsText DEF Texts
<1>2. 1 \in kept
    <2>1. 1 \in Starts(t) /\ ~isUnsafeOrSpace(RuneAt(t, 1))
        BY DEF VisibleAt, Valid
    <2>2. RuneAt(t, 1) = t[1] /\ 1 \in DOMAIN t
        BY <2>1, GoodIsValid DEF Starts
    <2> QED
        BY <2>1, <2>2 DEF isUnsafeOrSpace
<1>3. kept \in SUBSET Nat /\ kept \in SUBSET (0..Len(t)) /\ \A k \in kept : k \in 1..Len(t)
    BY <1>1
<1>4. TrimSpace(t) = SubSeq(t, Min(kept), b)
    BY <1>2 DEF TrimSpace
<1>5. ASSUME NEW j \in DOMAIN t, Whole(t, j) PROVE j + UTFMax - 1 \in kept
    <2>1. t[j] \in Leads /\ j + UTFMax - 1 <= Len(t) /\ j \in 1..Len(t)
          /\ \A k \in (j + 1)..(j + UTFMax - 1) : t[k] = "c"
        BY <1>1, <1>5 DEF Whole
    <2>2. /\ j + UTFMax - 1 \in 1..Len(t)
          /\ j + UTFMax - 1 = j \/ j + UTFMax - 1 \in (j + 1)..(j + UTFMax - 1)
        BY <1>1, <2>1, Constants
    <2>3. t[j + UTFMax - 1] # "s"
        BY <2>1, <2>2 DEF Leads
    <2> QED
        BY <1>1, <2>2, <2>3
<1> HIDE DEF kept, b
<1>6. Min(kept) = 1
    <2>1. Min(kept) \in kept /\ Min(kept) <= 1
        BY <1>2, <1>3, MinFacts
    <2>2. Min(kept) \in 1..Len(t)
        BY <1>3, <2>1
    <2> QED
        BY <2>1, <2>2
<1>7. b \in 1..Len(t) /\ \A k \in kept : k <= b
    <2>1. b \in kept /\ \A k \in kept : k <= b
        BY <1>1, <1>2, <1>3, MaxFacts DEF b
    <2> QED
        BY <1>3, <2>1
<1>8. p \in Texts /\ Len(p) = b /\ \A i \in 1..b : p[i] = t[i]
    <2>1. 1 \in 1..Len(t) /\ b \in 0..Len(t) /\ 1 <= b + 1 /\ b - 1 + 1 = b
        BY <1>1, <1>7
    <2>2. /\ p \in Seq(Bytes) /\ Len(p) = b - 1 + 1
          /\ \A i \in 1..(b - 1 + 1) : p[i] = t[1 + i - 1]
        BY <1>1, <2>1, SliceFacts
    <2>3. \A i \in 1..b : 1 + i - 1 = i
        OBVIOUS
    <2> HIDE DEF p
    <2> QED
        BY <2>1, <2>2, <2>3 DEF Texts
<1>9. TrimSpace(t) = p
    BY <1>4, <1>6
<1> HIDE DEF p
<1>10. Begins(p, t) /\ Parts(t, Len(p))
    <2>1. b <= Len(t) /\ \A j \in 1..b : j \in DOMAIN t
        BY <1>1, <1>7
    <2>2. \A j \in 1..b : Whole(t, j) => j + UTFMax - 1 <= b
        BY <1>5, <1>7, <2>1
    <2> QED
        BY <1>8, <2>1, <2>2 DEF Begins, Parts
<1>11. /\ VisibleAt(p) = {i \in VisibleAt(t) : i <= Len(p)}
       /\ Begins(Visible(p), Visible(t))
    BY <1>1, <1>8, <1>10, BeginningShows
<1>12. 1 <= Len(p)
    BY <1>7, <1>8
<1> QED
    BY <1>8, <1>9, <1>11, <1>12

LEMMA TrimLeftShows ==
    ASSUME NEW t \in Texts
    PROVE  \/ TrimLeft(t) = <<>> /\ VisibleAt(t) = {}
           \/ /\ Visible(TrimLeft(t)) = Visible(t) /\ VisibleAt(t) # {}
              /\ 1 \in VisibleAt(TrimLeft(t))
<1> DEFINE kept == {i \in Starts(t) : ~isUnsafeOrSpace(RuneAt(t, i))}
           a == Min(kept)
           q == SubSeq(t, a, Len(t))
<1>1. VisibleAt(t) \subseteq kept
    BY DEF VisibleAt, Valid
<1>2. CASE kept = {}
    <2>1. TrimLeft(t) = <<>>
        BY <1>2 DEF TrimLeft
    <2> QED
        BY <1>1, <1>2, <2>1
<1>3. CASE kept # {}
    <2>1. TrimLeft(t) = q
        BY <1>3 DEF TrimLeft
    <2>2. /\ t \in Seq(Bytes) /\ Len(t) \in Nat
          /\ kept \in SUBSET (1..Len(t)) /\ kept \in SUBSET Nat
        BY StartsFacts DEF Texts
    <2>3. a \in kept /\ \A k \in kept : a <= k
        <3> HIDE DEF kept
        <3> QED
            BY <1>3, <2>2, MinFacts
    <2>4. /\ a \in 1..Len(t) /\ a \in Starts(t) /\ ~isUnsafeOrSpace(RuneAt(t, a))
        BY <2>2, <2>3
    <2>5. ASSUME Bad(t, a - 1) PROVE FALSE
        <3>1. a - 1 \in kept
            BY <2>5 DEF Bad, isUnsafeOrSpace, isUnsafe
        <3>2. a <= a - 1
            BY <2>3, <3>1
        <3> QED
            BY <2>4, <3>2
    <2>6. a \in VisibleAt(t)
        BY <2>4, <2>5 DEF VisibleAt, Valid
    <2>7. \A i \in VisibleAt(t) : i >= a
        <3>1. \A i \in kept : i \in Nat /\ a <= i
            BY <2>2, <2>3
        <3>2. a \in Nat
            BY <2>4
        <3> HIDE DEF kept, a
        <3> QED
            BY <1>1, <3>1, <3>2
    <2> HIDE DEF kept, a
    <2>8. /\ q \in Texts /\ Len(q) = Len(t) - a + 1
          /\ \A i \in 1..Len(q) : q[i] = t[a + i - 1]
        <3>1. Len(t) \in 0..Len(t) /\ a <= Len(t) + 1
            BY <2>2, <2>4
        <3>2. /\ q \in Seq(Bytes) /\ Len(q) = Len(t) - a + 1
              /\ \A i \in 1..(Len(t) - a + 1) : q[i] = t[a + i - 1]
            BY <2>2, <2>4, <3>1, SliceFacts
        <3> HIDE DEF q
        <3> QED
            BY <3>2 DEF Texts
    <2> HIDE DEF q
    <2>9. Visible(q) = Visible(t) /\ 1 \in VisibleAt(q)
        BY <2>4, <2>5, <2>6, <2>7, <2>8, RestShows
    <2> QED
        BY <2>1, <2>6, <2>9
<1> QED
    BY <1>2, <1>3

LEMMA NothingShows ==
    ASSUME NEW t \in Texts, VisibleAt(t) = {}
    PROVE  Visible(t) = <<>>
<1>1. Cardinality(VisibleAt(t)) = 0
    BY FS_EmptySet
<1>2. Visible(t) \in Seq(ValidRunes) /\ Len(Visible(t)) = 0
    BY <1>1, VisibleFacts
<1> QED
    BY <1>2

LEMMA EmptyIsClean == TrimLeft(<<>>) = <<>> /\ CleanText(<<>>) = <<>>
<1>1. Starts(<<>>) = {}
    BY DEF Starts
<1>2. TrimLeft(<<>>) = <<>>
    BY <1>1 DEF TrimLeft
<1>3. truncateMessage(<<>>) = <<>>
    BY Constants DEF truncateMessage
<1>4. Sanitize(ToValidUTF8(<<>>)) = <<>>
    BY EmptyIsGood, GoodIsReadBack
<1>5. TrimSpace(<<>>) = <<>>
    BY DEF TrimSpace
<1> QED
    BY <1>2, <1>3, <1>4, <1>5 DEF CleanText, cleanBytes

LEMMA CleanShows ==
    ASSUME NEW t \in Texts
    PROVE  /\ Visible(cleanBytes(t)) = <<>> <=> Visible(t) = <<>>
           /\ IsPrefix(Visible(cleanBytes(t)), Visible(t))
<1> DEFINE t1 == TrimLeft(t)
           t2 == truncateMessage(t1)
           u == Sanitize(ToValidUTF8(t2))
           v == truncateMessage(u)
           w == TrimSpace(v)
<1>1. cleanBytes(t) = w
    BY DEF cleanBytes
<1>2. CASE t1 = <<>> /\ VisibleAt(t) = {}
    <2>1. w = <<>>
        BY <1>2, EmptyIsClean DEF CleanText, cleanBytes
    <2>2. <<>> \in Texts /\ VisibleAt(<<>>) = {}
        BY EmptyIsSafe DEF VisibleAt, Valid, Starts
    <2>3. Visible(<<>>) = <<>> /\ Visible(t) = <<>>
        BY <1>2, <2>2, NothingShows
    <2>4. IsPrefix(<<>>, <<>>)
        BY DEF IsPrefix
    <2> HIDE DEF w
    <2> QED
        BY <1>1, <2>1, <2>3, <2>4
<1>3. CASE Visible(t1) = Visible(t) /\ VisibleAt(t) # {} /\ 1 \in VisibleAt(t1)
    <2>1. t1 \in Texts
        BY TrimLeftTyped
    <2> HIDE DEF t1
    <2>2. t2 \in Texts /\ Begins(Visible(t2), Visible(t1)) /\ 1 \in VisibleAt(t2)
        BY <1>3, <2>1, TruncateShows
    <2> HIDE DEF t2
    <2>3. u \in GoodTexts /\ Visible(u) = Visible(t2) /\ 1 \in VisibleAt(u)
        BY <2>2, SanitizedShows
    <2> HIDE DEF u
    <2>4. /\ v \in GoodTexts /\ v \in Texts /\ Begins(Visible(v), Visible(u))
          /\ 1 \in VisibleAt(v)
        BY <2>3, TruncateIsGood, TruncateShows, GoodIsText
    <2> HIDE DEF v
    <2>5. w \in Texts /\ Begins(Visible(w), Visible(v)) /\ 1 \in VisibleAt(w)
        BY <2>4, TrimSpaceShows
    <2> HIDE DEF w
    <2>6. /\ Visible(w) \in Seq(ValidRunes) /\ Visible(v) \in Seq(ValidRunes)
          /\ Visible(t2) \in Seq(ValidRunes) /\ Visible(t) \in Seq(ValidRunes)
        BY <2>2, <2>4, <2>5, VisibleFacts
    <2>7. Begins(Visible(w), Visible(t2))
        BY <2>3, <2>4, <2>5, <2>6, BeginsFacts
    <2>8. IsPrefix(Visible(w), Visible(t))
        <3>1. Begins(Visible(t2), Visible(t))
            BY <1>3, <2>2
        <3>2. Begins(Visible(w), Visible(t))
            BY <2>6, <2>7, <3>1, BeginsFacts
        <3> QED
            BY <2>6, <3>2, BeginsFacts
    <2>9. Visible(w) # <<>> /\ Visible(t) # <<>>
        BY <1>3, <2>5, VisibleFacts
    <2> QED
        BY <1>1, <2>8, <2>9
<1> QED
    BY <1>2, <1>3, TrimLeftShows

MessagesInv ==
    /\ body \in ErrorBodies /\ ids \in Seq(Texts)
    /\ CleanIsSafe

(* Whatever bytes, fields and headers an error response holds, the message *)
(* and the request id of its APIError are safe to print (CleanText).       *)
THEOREM ReportsAreSafe == Spec => []CleanIsSafe
<1>1. Init => MessagesInv
    BY MessagesAssumption, EmptyIsSafe DEF Init, MessagesInv, CleanIsSafe
<1>2. ASSUME MessagesInv, Report PROVE MessagesInv'
    <2>1. Safe(extractMessage(body))
        <3> DEFINE usable == {k \in DOMAIN body.fields : fieldMessage(body.fields[k]) # <<>>}
        <3>1. body.fields \in Seq(ErrorFields) /\ body.raw \in Texts
            BY <1>2 DEF MessagesInv, ErrorBodies
        <3>2. CASE usable = {}
            BY <3>1, <3>2, CleanFacts DEF extractMessage
        <3>3. CASE usable # {}
            <4>1. usable \in SUBSET Nat /\ usable \subseteq DOMAIN body.fields
                BY <3>1
            <4>2. extractMessage(body) = fieldMessage(body.fields[Min(usable)])
                BY <3>3 DEF extractMessage
            <4> HIDE DEF usable
            <4>3. Min(usable) \in DOMAIN body.fields
                BY <3>3, <4>1, MinFacts
            <4>4. body.fields[Min(usable)] \in ErrorFields
                BY <3>1, <4>3
            <4> QED
                BY <4>2, <4>4, FieldIsSafe
        <3> QED
            BY <3>2, <3>3
    <2>2. Safe(requestID(ids))
        <3> DEFINE usable == {k \in DOMAIN ids : CleanText(ids[k]) # <<>>}
        <3>1. ids \in Seq(Texts)
            BY <1>2 DEF MessagesInv
        <3>2. CASE usable = {}
            BY <3>2, EmptyIsSafe DEF requestID
        <3>3. CASE usable # {}
            <4>1. usable \in SUBSET Nat /\ usable \subseteq DOMAIN ids
                BY <3>1
            <4>2. requestID(ids) = CleanText(ids[Min(usable)])
                BY <3>3 DEF requestID
            <4> HIDE DEF usable
            <4>3. Min(usable) \in DOMAIN ids
                BY <3>3, <4>1, MinFacts
            <4>4. ids[Min(usable)] \in Texts
                BY <3>1, <4>3
            <4> QED
                BY <4>2, <4>4, CleanFacts
        <3> QED
            BY <3>2, <3>3
    <2>3. /\ message' = extractMessage(body) /\ id' = requestID(ids)
          /\ body' = body /\ ids' = ids
        BY <1>2 DEF Report
    <2> QED
        BY <1>2, <2>1, <2>2, <2>3 DEF MessagesInv, CleanIsSafe
<1>3. MessagesInv /\ UNCHANGED vars => MessagesInv'
    BY DEF MessagesInv, CleanIsSafe, vars
<1>4. MessagesInv => CleanIsSafe
    BY DEF MessagesInv
<1> QED
    BY <1>1, <1>2, <1>3, <1>4, PTL DEF Spec

ReportedInv ==
    /\ body \in ErrorBodies
    /\ pc = "reported" => message = extractMessage(body)

(* However long and odd an error type comes with it, the beginning of the  *)
(* first message that cleaning leaves anything of is shown, alone or after *)
(* a colon (fieldMessage, maxErrorTypeBytes).                              *)
THEOREM MessagesSurvive == Spec => []MessageSurvives
<1>1. Init => ReportedInv
    BY MessagesAssumption DEF Init, ReportedInv
<1>2. ReportedInv /\ [Report]_vars => ReportedInv'
    BY DEF ReportedInv, Report, vars
<1>3. ASSUME ReportedInv PROVE MessageSurvives
    <2> DEFINE Cleaned(j) == IF body.fields[j].kind \in {"string", "object"}
                                THEN CleanText(body.fields[j].text) ELSE <<>>
    <2> SUFFICES ASSUME pc = "reported", NEW k \in DOMAIN body.fields, Cleaned(k) # <<>>,
                        \A j \in 1..(k - 1) : Cleaned(j) = <<>>
                 PROVE  Shows(message, Cleaned(k))
        BY DEF MessageSurvives, Shows
    <2> DEFINE usable == {j \in DOMAIN body.fields : fieldMessage(body.fields[j]) # <<>>}
    <2>1. /\ body.fields \in Seq(ErrorFields)
          /\ \A j \in DOMAIN body.fields :
                body.fields[j] \in ErrorFields /\ j \in Nat /\ j >= 1
        <3>1. body.fields \in Seq(ErrorFields)
            BY <1>3 DEF ReportedInv, ErrorBodies
        <3> QED
            BY <3>1
    <2>2. /\ body.fields[k].kind \in {"string", "object"}
          /\ Cleaned(k) = CleanText(body.fields[k].text)
        OBVIOUS
    <2>3. Shows(fieldMessage(body.fields[k]), Cleaned(k)) /\ k \in usable
        BY <2>1, <2>2, FieldShows
    <2>4. ASSUME NEW j \in 1..(k - 1), j \in usable PROVE FALSE
        <3>1. Cleaned(j) = <<>> /\ body.fields[j] \in ErrorFields
            BY <2>1, <2>4
        <3>2. CASE body.fields[j].kind = "string"
            BY <2>4, <3>1, <3>2 DEF fieldMessage
        <3>3. CASE body.fields[j].kind = "object"
            BY <2>4, <3>1, <3>3 DEF fieldMessage
        <3>4. CASE body.fields[j].kind \notin {"string", "object"}
            BY <2>4, <3>4 DEF fieldMessage
        <3> QED
            BY <3>2, <3>3, <3>4
    <2>5. message = fieldMessage(body.fields[Min(usable)])
        BY <1>3, <2>3 DEF ReportedInv, extractMessage
    <2>6. usable \in SUBSET Nat /\ usable \subseteq DOMAIN body.fields
        BY <2>1
    <2> HIDE DEF usable, Cleaned
    <2>7. Min(usable) = k
        <3>1. Min(usable) \in usable /\ Min(usable) <= k
            BY <2>3, <2>6, MinFacts
        <3>2. Min(usable) \in Nat /\ Min(usable) >= 1 /\ k \in Nat
            <4>1. Min(usable) \in DOMAIN body.fields /\ k \in DOMAIN body.fields
                BY <2>6, <3>1
            <4> QED
                BY <2>1, <4>1
        <3>3. ~(Min(usable) \in 1..(k - 1))
            BY <2>4, <3>1
        <3> QED
            BY <3>1, <3>2, <3>3
    <2> QED
        BY <2>3, <2>5, <2>7
<1> QED
    BY <1>1, <1>2, <1>3, PTL DEF Spec

(* However much padding, stray bytes and control characters come with it,  *)
(* a body that is no JSON object is shown from its first visible character *)
(* on, as far as the caps reach (cleanBytes, truncateMessage).             *)
THEOREM TextIsKept == Spec => []CleanKeepsText
<1>1. Init => ReportedInv
    BY MessagesAssumption DEF Init, ReportedInv
<1>2. ReportedInv /\ [Report]_vars => ReportedInv'
    BY DEF ReportedInv, Report, vars
<1>3. ASSUME ReportedInv PROVE CleanKeepsText
    <2> SUFFICES ASSUME pc = "reported", body.fields = <<>>
                 PROVE  /\ Visible(message) = <<>> <=> Visible(body.raw) = <<>>
                        /\ IsPrefix(Visible(message), Visible(body.raw))
        BY DEF CleanKeepsText
    <2>1. body.raw \in Texts /\ message = extractMessage(body)
        BY <1>3 DEF ReportedInv, ErrorBodies
    <2>2. {k \in DOMAIN body.fields : fieldMessage(body.fields[k]) # <<>>} = {}
        OBVIOUS
    <2>3. extractMessage(body) = cleanBytes(body.raw)
        BY <2>2 DEF extractMessage
    <2> QED
        BY <2>1, <2>3, CleanShows
<1> QED
    BY <1>1, <1>2, <1>3, PTL DEF Spec
=============================================================================
