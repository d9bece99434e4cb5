------------------------- MODULE LatencySummaryProofs -------------------------
(***************************************************************************)
(* Proofs about LatencySummary, for any number of calls, any delays and    *)
(* any fraction from a half to one, 99 / 100 among them.                   *)
(***************************************************************************)
EXTENDS LatencySummary, FiniteSetTheorems, WellFoundedInduction, TLAPS

\* What a function makes of an interval is no larger than the interval.
LEMMA ImageBound ==
  ASSUME NEW a \in Int, NEW b \in Int, a <= b + 1, NEW f, NEW T,
         \A t \in T : \E k \in a..b : f[k] = t
  PROVE  IsFiniteSet(T) /\ Cardinality(T) <= b - a + 1
<1> DEFINE U == {f[k] : k \in a..b}
<1> DEFINE g == [k \in a..b |-> f[k]]
<1>1. g \in Surjection(a..b, U)
  BY DEF Surjection
<1>2. IsFiniteSet(a..b) /\ Cardinality(a..b) = b - a + 1
  BY FS_Interval
<1>3. IsFiniteSet(U) /\ Cardinality(U) <= Cardinality(a..b)
  BY <1>1, <1>2, FS_Surjection
<1>4. T \in SUBSET U
  OBVIOUS
<1>5. IsFiniteSet(T) /\ Cardinality(T) <= Cardinality(U)
  BY <1>3, <1>4, FS_Subset
<1>6. Cardinality(T) \in Nat /\ Cardinality(U) \in Nat
  BY <1>3, <1>5, FS_CardinalityType
<1>7. QED
  BY <1>2, <1>3, <1>5, <1>6

\* An error comes through the narrowing as the positive number it stands for;
\* a value that is not negative never becomes one.
LEMMA ErrnoOfError ==
  ASSUME NEW ret \in Rets
  PROVE  /\ ret \in -MaxErrno .. -1 => Errno(ret, Half) > 0
         /\ Errno(ret, Half) > 0 => ret < 0
<1>1. ret \in Int /\ MaxErrno \in Nat /\ Half \in Nat /\ MaxErrno < Half
  BY LatencyAssumption
<1>2. ASSUME ret \in -MaxErrno .. -1 PROVE Errno(ret, Half) > 0
  <2>1. -ret + Half \in 0..(2 * Half - 1) /\ ret < 0
    BY <1>1, <1>2
  <2>2. (-ret + Half) % (2 * Half) = -ret + Half
    BY <1>1, <2>1
  <2>3. QED
    BY <1>1, <2>1, <2>2 DEF Errno, Truncated
<1>3. Errno(ret, Half) > 0 => ret < 0
  BY <1>1 DEF Errno
<1>4. QED
  BY <1>2, <1>3

\* The P99 index is one of a sequence that is not empty; it is not below the
\* middle, and the elements behind it are no more than their share.
LEMMA TailIndexRange ==
  ASSUME NEW n \in Nat, n > 0
  PROVE  /\ TailIndex(n) \in 0..(n - 1)
         /\ TailIndex(n) >= n \div 2
         /\ Whole * (n - 1 - TailIndex(n)) <= (Whole - Part) * n
         /\ (Whole - Part) * n <= Whole => TailIndex(n) = n - 1
<1> DEFINE q == TailIndex(n)
<1>0. /\ Part \in Nat /\ Whole \in Nat /\ Whole > 0 /\ Part < Whole /\ Whole <= 2 * Part
      /\ Part * n \in Nat
  BY LatencyAssumption
<1>1. q \in Nat /\ Whole * q <= Part * n /\ Part * n < Whole * q + Whole
  BY <1>0 DEF TailIndex
<1> HIDE DEF q
<1>2. q < n
  <2>1. Part * n < Whole * n
    BY <1>0
  <2>2. Whole * q < Whole * n
    BY <1>0, <1>1, <2>1
  <2>3. QED
    BY <1>0, <1>1, <2>2
<1>3. q >= n \div 2
  <2>1. SUFFICES ASSUME q + 1 <= n \div 2 PROVE FALSE
    BY <1>1
  <2>2. 2 * (q + 1) <= n
    BY <1>1, <2>1
  <2>3. Whole * (2 * (q + 1)) <= Whole * n
    BY <1>0, <1>1, <2>2
  <2>4. Whole * n <= (2 * Part) * n
    BY <1>0
  <2>5. 2 * (Whole * q + Whole) <= 2 * (Part * n)
    BY <1>0, <1>1, <2>3, <2>4
  <2>6. QED
    BY <1>0, <1>1, <2>5
<1>4. Whole * (n - 1 - q) <= (Whole - Part) * n
  <2>1. Whole * (n - 1 - q) = Whole * n - (Whole * q + Whole)
    BY <1>0, <1>1
  <2>2. (Whole - Part) * n = Whole * n - Part * n
    BY <1>0
  <2>3. QED
    BY <1>0, <1>1, <2>1, <2>2
<1>5. (Whole - Part) * n <= Whole => q = n - 1
  <2>1. SUFFICES ASSUME (Whole - Part) * n <= Whole, q + 2 <= n PROVE FALSE
    BY <1>1, <1>2
  <2>2. Whole * (q + 2) <= Whole * n
    BY <1>0, <1>1, <2>1
  <2>3. (Whole - Part) * n = Whole * n - Part * n
    BY <1>0
  <2>4. QED
    BY <1>0, <1>1, <2>1, <2>2, <2>3
<1>6. QED
  BY <1>1, <1>2, <1>3, <1>4, <1>5 DEF q

\* The rounded mean of two numbers lies between them.
LEMMA MeanRange ==
  ASSUME NEW a \in Nat, NEW b \in Nat, a <= b
  PROVE  (a + b) \div 2 \in Nat /\ a <= (a + b) \div 2 /\ (a + b) \div 2 <= b
  OBVIOUS

\* A sequence of delays is one of numbers.
LEMMA SeqOfNumbers ==
  ASSUME NEW S, NEW T, S \subseteq T, NEW s \in Seq(S)
  PROVE  s \in Seq(T)
<1>1. s \in [1..Len(s) -> S] /\ Len(s) \in Nat
  OBVIOUS
<1>2. s \in [1..Len(s) -> T]
  BY <1>1
<1>3. QED
  BY <1>1, <1>2

\* The middle of a sorted sequence lies between its two middle elements.
LEMMA MiddleRange ==
  ASSUME NEW s \in Seq(Nat), s # <<>>, Sorted(s)
  PROVE  LET n == Len(s)
             h == n \div 2
         IN  /\ Middle(s) \in Nat
             /\ n % 2 = 0 => h \in 1..n /\ h + 1 \in 1..n /\ s[h] <= Middle(s) /\ Middle(s) <= s[h + 1]
             /\ n % 2 # 0 => h + 1 \in 1..n /\ Middle(s) = s[h + 1]
<1> DEFINE n == Len(s)
<1> DEFINE h == n \div 2
<1>1. n \in Nat /\ n > 0 /\ h \in Nat /\ h + 1 <= n + 1
  OBVIOUS
<1>2. CASE n % 2 = 0
  <2>1. n = 2 * h /\ h \in 1..n /\ h + 1 \in 1..n
    BY <1>1, <1>2
  <2>2. s[h] \in Nat /\ s[h + 1] \in Nat /\ s[h] <= s[h + 1]
    BY <2>1 DEF Sorted
  <2>3. Middle(s) = (s[h] + s[h + 1]) \div 2
    <3>1. h - 1 + 1 = h
      BY <2>1
    <3>2. QED
      BY <1>2, <3>1 DEF Middle, At
  <2>4. Middle(s) \in Nat /\ s[h] <= Middle(s) /\ Middle(s) <= s[h + 1]
    <3>1. s[h] \in Nat /\ s[h + 1] \in Nat /\ s[h] <= s[h + 1] =>
            LET m == (s[h] + s[h + 1]) \div 2 IN m \in Nat /\ s[h] <= m /\ m <= s[h + 1]
      BY MeanRange
    <3>2. QED
      BY <2>2, <2>3, <3>1, Zenon
  <2>5. QED
    BY <1>2, <2>1, <2>4
<1>3. CASE n % 2 # 0
  <2>1. h + 1 \in 1..n
    BY <1>1, <1>3
  <2>2. Middle(s) = s[h + 1]
    BY <1>3 DEF Middle, At
  <2>3. QED
    BY <1>3, <2>1, <2>2
<1>4. QED
  BY <1>2, <1>3

\* The moves of n elements, put one after the other, are moves.
LEMMA MovesCompose ==
  ASSUME NEW n \in Nat, NEW f \in Moves(n), NEW g \in Moves(n)
  PROVE  [j \in 1..n |-> f[g[j]]] \in Moves(n)
<1> DEFINE h == [j \in 1..n |-> f[g[j]]]
<1>1. h \in [1..n -> 1..n]
  BY DEF Moves
<1>2. ASSUME NEW k \in 1..n PROVE \E j \in 1..n : h[j] = k
  <2>1. PICK i \in 1..n : f[i] = k
    BY DEF Moves
  <2>2. PICK j \in 1..n : g[j] = i
    BY DEF Moves
  <2>3. h[j] = k
    BY <2>1, <2>2
  <2>4. QED
    BY <2>3
<1>3. QED
  BY <1>1, <1>2 DEF Moves

\* A move takes a sequence to one of the same length over the same elements.
LEMMA MovedType ==
  ASSUME NEW S, NEW s \in Seq(S), NEW f \in Moves(Len(s))
  PROVE  /\ Moved(s, f) \in Seq(S)
         /\ Len(Moved(s, f)) = Len(s)
         /\ \A j \in 1..Len(s) : Moved(s, f)[j] = s[f[j]]
<1>1. f \in [1..Len(s) -> 1..Len(s)] /\ Len(s) \in Nat /\ DOMAIN s = 1..Len(s)
  BY DEF Moves
<1>2. \A j \in 1..Len(s) : s[f[j]] \in S
  BY <1>1
<1>3. Moved(s, f) = [j \in 1..Len(s) |-> s[f[j]]]
  BY <1>1 DEF Moved
<1>4. QED
  BY <1>1, <1>2, <1>3

-----------------------------------------------------------------------------
(***************************************************************************)
(* The sort.  sort.Slice is not stable, and the model lets it leave any    *)
(* order in which no element is before a smaller one: there is such an     *)
(* order of every slice, and only one.                                     *)
(***************************************************************************)

\* A set of numbers that is not empty has a least element.
LEMMA Least ==
  ASSUME NEW T, T \subseteq Nat, T # {}
  PROVE  \E m \in T : \A k \in T : m <= k
<1> DEFINE R == OpToRel(<, Nat)
<1>1. \A x, y \in Nat : x < y => <<x, y>> \in R
  BY DEF OpToRel
<1>2. IsWellFoundedOn(R, Nat)
  BY NatLessThanWellFounded
<1> HIDE DEF R
<1>3. PICK m \in T : \A k \in T : ~(<<k, m>> \in R)
  BY <1>2, WFMin
<1>4. \A k \in T : ~(k < m)
  BY <1>1, <1>3
<1>5. QED
  BY <1>3, <1>4

\* Induction, for a set of numbers.
LEMMA AllNumbers ==
  ASSUME NEW T, 0 \in T, \A n \in Nat : n \in T => n + 1 \in T
  PROVE  \A n \in Nat : n \in T
<1> SUFFICES ASSUME Nat \ T # {} PROVE FALSE
  OBVIOUS
<1>1. PICK m \in Nat \ T : \A k \in Nat \ T : m <= k
  BY Least
<1>2. m # 0
  OBVIOUS
<1>3. m - 1 \in Nat /\ ~(m <= m - 1)
  BY <1>2
<1>4. m - 1 \in T
  BY <1>1, <1>3
<1>5. m - 1 + 1 \in T
  BY <1>3, <1>4
<1>6. QED
  BY <1>5

Sortable(n) ==
  \A s \in [1..n -> Nat] : \E f \in Moves(n) : Sorted([j \in 1..n |-> s[f[j]]])

\* One element more is put before the first that is larger.
LEMMA InsertOne ==
  ASSUME NEW n \in Nat, Sortable(n)
  PROVE  Sortable(n + 1)
<1> SUFFICES ASSUME NEW s \in [1..(n + 1) -> Nat]
             PROVE  \E g \in Moves(n + 1) : Sorted([j \in 1..(n + 1) |-> s[g[j]]])
  BY DEF Sortable
<1> DEFINE first == [j \in 1..n |-> s[j]]
<1>1. PICK f \in Moves(n) : Sorted([j \in 1..n |-> first[f[j]]])
  <2>1. first \in [1..n -> Nat]
    OBVIOUS
  <2>2. QED
    BY <2>1 DEF Sortable
<1> DEFINE r == [j \in 1..n |-> s[f[j]]]
           e == s[n + 1]
           P == {q \in 1..n : r[q] > e} \cup {n + 1}
<1>2. /\ f \in [1..n -> 1..n] /\ \A k \in 1..n : \E j \in 1..n : f[j] = k
      /\ 1..n \subseteq 1..(n + 1)
  <2>1. 1..n \subseteq 1..(n + 1)
    OBVIOUS
  <2>2. QED
    BY <2>1 DEF Moves
<1>3. /\ \A j \in 1..n : r[j] \in Nat
      /\ \A j, k \in 1..n : j <= k => r[j] <= r[k]
      /\ e \in Nat
  <2>1. r = [j \in 1..n |-> first[f[j]]]
    BY <1>2
  <2>2. \A j, k \in 1..n : j <= k => r[j] <= r[k]
    BY <1>1, <2>1 DEF Sorted
  <2>3. \A j \in 1..n : f[j] \in 1..(n + 1)
    <3>1. \A j \in 1..n : f[j] \in 1..n
      BY <1>2
    <3>2. QED
      BY <1>2, <3>1
  <2>4. \A j \in 1..n : r[j] \in Nat
    BY <2>3
  <2>5. QED
    BY <2>2, <2>4
<1> HIDE DEF r, e
<1>4. PICK p \in P : \A q \in P : p <= q
  <2>1. 1..n \subseteq Nat /\ n + 1 \in Nat
    OBVIOUS
  <2>2. P \subseteq Nat /\ P # {}
    BY <2>1
  <2> HIDE DEF P
  <2>3. QED
    BY <2>2, Least
<1>5. p \in 1..(n + 1)
  BY <1>4
<1>6. \A j \in 1..n : j < p => r[j] <= e
  <2> SUFFICES ASSUME NEW j \in 1..n, j < p PROVE r[j] <= e
    OBVIOUS
  <2>1. ~(p <= j)
    BY <1>5
  <2>2. ~(r[j] > e)
    BY <1>4, <2>1
  <2>3. QED
    BY <1>3, <2>2
<1>7. \A j \in 1..n : p <= j => e < r[j]
  BY <1>3, <1>4
<1> DEFINE g == [j \in 1..(n + 1) |-> IF j < p THEN f[j] ELSE IF j = p THEN n + 1 ELSE f[j - 1]]
<1>8. g \in Moves(n + 1)
  <2>1. g \in [1..(n + 1) -> 1..(n + 1)]
    <3>1. ASSUME NEW j \in 1..(n + 1) PROVE g[j] \in 1..(n + 1)
      <4>1. CASE j < p
        <5>1. j \in 1..n /\ g[j] = f[j]
          BY <1>5, <4>1
        <5>2. f[j] \in 1..n
          BY <1>2, <5>1
        <5>3. QED
          BY <1>2, <5>1, <5>2
      <4>2. CASE j = p
        BY <4>2
      <4>3. CASE j > p
        <5>1. j - 1 \in 1..n /\ g[j] = f[j - 1]
          BY <1>5, <4>3
        <5>2. f[j - 1] \in 1..n
          BY <1>2, <5>1
        <5>3. QED
          BY <1>2, <5>1, <5>2
      <4>4. QED
        BY <1>5, <4>1, <4>2, <4>3
    <3>2. QED
      BY <3>1
  <2>2. ASSUME NEW k \in 1..(n + 1) PROVE \E j \in 1..(n + 1) : g[j] = k
    <3>1. CASE k = n + 1
      BY <1>5, <3>1
    <3>2. CASE k \in 1..n
      <4>1. PICK j \in 1..n : f[j] = k
        BY <1>2, <3>2
      <4>2. CASE j < p
        BY <4>1, <4>2
      <4>3. CASE ~(j < p)
        <5>1. j + 1 \in 1..(n + 1) /\ ~(j + 1 < p) /\ j + 1 # p /\ j + 1 - 1 = j
          BY <1>5, <4>3
        <5>2. g[j + 1] = k
          BY <4>1, <5>1
        <5>3. QED
          BY <5>1, <5>2
      <4>4. QED
        BY <4>2, <4>3
    <3>3. QED
      BY <3>1, <3>2
  <2>3. QED
    BY <2>1, <2>2 DEF Moves
<1>9. Sorted([j \in 1..(n + 1) |-> s[g[j]]])
  <2> DEFINE t == [j \in 1..(n + 1) |-> s[g[j]]]
  <2>1. \A j \in 1..(n + 1) : t[j] = IF j < p THEN r[j] ELSE IF j = p THEN e ELSE r[j - 1]
    BY <1>5 DEF r, e
  <2> HIDE DEF t, g, P
  <2>2. ASSUME NEW j \in 1..(n + 1), NEW k \in 1..(n + 1), j <= k
        PROVE  t[j] <= t[k]
    <3>1. CASE k < p
      BY <1>3, <1>5, <2>1, <2>2, <3>1
    <3>2. CASE k = p
      BY <1>3, <1>5, <1>6, <2>1, <2>2, <3>2
    <3>3. CASE k > p
      <4>1. k - 1 \in 1..n /\ t[k] = r[k - 1]
        BY <1>5, <2>1, <3>3
      <4>2. CASE j < p
        BY <1>3, <1>5, <2>1, <3>3, <4>1, <4>2
      <4>3. CASE j = p
        BY <1>3, <1>5, <1>7, <2>1, <3>3, <4>1, <4>3
      <4>4. CASE j > p
        <5>1. j - 1 \in 1..n /\ t[j] = r[j - 1] /\ j - 1 <= k - 1
          BY <1>5, <2>1, <2>2, <4>4
        <5>2. QED
          BY <1>3, <4>1, <5>1
      <4>5. QED
        BY <1>5, <4>2, <4>3, <4>4
    <3>4. QED
      BY <1>5, <3>1, <3>2, <3>3
  <2>3. DOMAIN t = 1..(n + 1)
    BY DEF t
  <2>4. Sorted(t)
    BY <2>2, <2>3 DEF Sorted
  <2>5. QED
    BY <2>4 DEF t
<1>10. QED
  BY <1>8, <1>9

\* Every slice of delays can be sorted.
LEMMA OrderingExists ==
  ASSUME NEW d \in Seq(Nat)
  PROVE  Orderings(d) # {}
<1> DEFINE T == {n \in Nat : Sortable(n)}
<1>1. Sortable(0)
  <2>1. [j \in 1..0 |-> j] \in Moves(0)
    BY DEF Moves
  <2>2. \A s, f : Sorted([j \in 1..0 |-> s[f[j]]])
    BY DEF Sorted
  <2>3. QED
    BY <2>1, <2>2 DEF Sortable
<1>2. \A n \in Nat : n \in T => n + 1 \in T
  BY InsertOne
<1>3. 0 \in T
  BY <1>1
<1> HIDE DEF T
<1>4. \A n \in Nat : n \in T
  BY <1>2, <1>3, AllNumbers
<1>5. PICK n \in Nat : n = Len(d) /\ DOMAIN d = 1..n /\ d \in [1..n -> Nat]
  OBVIOUS
<1>6. PICK f \in Moves(n) : Sorted([j \in 1..n |-> d[f[j]]])
  BY <1>4, <1>5 DEF T, Sortable
<1>7. Moved(d, f) \in Orderings(d)
  BY <1>5, <1>6 DEF Orderings, Moved, InOrder
<1>8. QED
  BY <1>7

Arranged(n, d, f, s) ==
  /\ \A k \in 1..n : s[k] = d[f[k]] /\ s[k] \in Nat
  /\ \A k, l \in 1..n : k <= l => s[k] <= s[l]

\* Of two orders of one slice none is below the other anywhere: the elements up
\* to the place where it is are too many.
LEMMA NotBelow ==
  ASSUME NEW n \in Nat, NEW d \in [1..n -> Nat],
         NEW f \in Moves(n), NEW g \in Moves(n), NEW s, NEW t,
         Arranged(n, d, f, s), Arranged(n, d, g, t), NEW j \in 1..n
  PROVE  ~(t[j] < s[j])
<1> SUFFICES ASSUME t[j] < s[j] PROVE FALSE
  OBVIOUS
<1>1. /\ f \in [1..n -> 1..n] /\ \A i \in 1..n : \E k \in 1..n : f[k] = i
      /\ g \in [1..n -> 1..n] /\ \A i \in 1..n : \E k \in 1..n : g[k] = i
  BY DEF Moves
<1>2. /\ \A k \in 1..n : s[k] = d[f[k]] /\ s[k] \in Nat
      /\ \A k \in 1..n : t[k] = d[g[k]] /\ t[k] \in Nat
  BY DEF Arranged
<1>s. \A k, l \in 1..n : k <= l => s[k] <= s[l]
  BY DEF Arranged
<1>t. \A k, l \in 1..n : k <= l => t[k] <= t[l]
  BY DEF Arranged
<1> DEFINE low == {i \in 1..n : d[i] <= t[j]}
           high == (1..n) \ low
<1>3. Cardinality(low) <= j - 1 /\ IsFiniteSet(low)
  <2>1. ASSUME NEW i \in low PROVE \E k \in 1..(j - 1) : f[k] = i
    <3>1. PICK k \in 1..n : f[k] = i
      BY <1>1
    <3>2. d[i] <= t[j] /\ s[k] = d[i]
      BY <1>2, <3>1
    <3>3. k < j
      <4>1. s[k] \in Nat /\ t[j] \in Nat /\ s[j] \in Nat /\ s[k] <= t[j] /\ t[j] < s[j]
        BY <1>2, <3>1, <3>2
      <4>2. j <= k => s[j] <= s[k]
        BY <1>s, <3>1
      <4>3. ~(s[j] <= s[k])
        BY <4>1
      <4>4. j \in Nat /\ k \in Nat
        BY <3>1
      <4>5. QED
        BY <4>2, <4>3, <4>4
    <3>4. QED
      BY <3>1, <3>3
  <2>2. j - 1 \in Int /\ 1 \in Int /\ 1 <= j - 1 + 1 /\ j - 1 - 1 + 1 = j - 1
    OBVIOUS
  <2> HIDE DEF low
  <2>3. IsFiniteSet(low) /\ Cardinality(low) <= (j - 1) - 1 + 1
    BY <2>1, <2>2, ImageBound
  <2>4. QED
    BY <2>2, <2>3
<1>4. Cardinality(high) <= n - j /\ IsFiniteSet(high)
  <2>1. ASSUME NEW i \in high PROVE \E k \in (j + 1)..n : g[k] = i
    <3>1. PICK k \in 1..n : g[k] = i
      BY <1>1
    <3>2. ~(t[k] <= t[j])
      BY <1>2, <3>1
    <3>3. ~(k <= j)
      BY <1>t, <1>2, <3>1, <3>2
    <3>4. QED
      BY <3>1, <3>3
  <2>2. j + 1 \in Int /\ n \in Int /\ j + 1 <= n + 1 /\ n - (j + 1) + 1 = n - j
    OBVIOUS
  <2> HIDE DEF high
  <2>3. IsFiniteSet(high) /\ Cardinality(high) <= n - (j + 1) + 1
    BY <2>1, <2>2, ImageBound
  <2>4. QED
    BY <2>2, <2>3
<1>5. Cardinality(high) = n - Cardinality(low) /\ Cardinality(low) \in Nat
  <2>1. n \in Int
    OBVIOUS
  <2>2. IsFiniteSet(1..n) /\ Cardinality(1..n) = n
    BY <2>1, FS_Interval
  <2>3. (1..n) \cap low = low
    OBVIOUS
  <2> HIDE DEF low
  <2>4. Cardinality((1..n) \ low) = Cardinality(1..n) - Cardinality((1..n) \cap low)
    BY <2>2, FS_Difference
  <2>5. QED
    BY <1>3, <2>2, <2>3, <2>4, FS_CardinalityType
<1> HIDE DEF low, high
<1>6. QED
  BY <1>3, <1>4, <1>5

\* What the sort leaves does not depend on how it treats equal delays.
LEMMA OrderingUnique ==
  ASSUME NEW d \in Seq(Nat), NEW s \in Orderings(d), NEW t \in Orderings(d)
  PROVE  s = t
<1>1. PICK n \in Nat : n = Len(d) /\ DOMAIN d = 1..n /\ d \in [1..n -> Nat]
  OBVIOUS
<1>2. PICK f \in Moves(n) : s = [k \in 1..n |-> d[f[k]]] /\ Sorted(s)
  BY <1>1 DEF Orderings, Moved, InOrder
<1>3. PICK g \in Moves(n) : t = [k \in 1..n |-> d[g[k]]] /\ Sorted(t)
  BY <1>1 DEF Orderings, Moved, InOrder
<1>4. Arranged(n, d, f, s) /\ Arranged(n, d, g, t)
  <2>1. \A k \in 1..n : f[k] \in 1..n /\ g[k] \in 1..n
    BY DEF Moves
  <2>2. \A k \in 1..n : s[k] = d[f[k]] /\ t[k] = d[g[k]]
    BY <1>2, <1>3
  <2>3. \A k \in 1..n : s[k] \in Nat /\ t[k] \in Nat
    BY <1>1, <2>1, <2>2
  <2>4. DOMAIN s = 1..n /\ DOMAIN t = 1..n
    BY <1>2, <1>3
  <2>5. \A k, l \in 1..n : k <= l => s[k] <= s[l]
    BY <1>2, <2>4 DEF Sorted
  <2>6. \A k, l \in 1..n : k <= l => t[k] <= t[l]
    BY <1>3, <2>4 DEF Sorted
  <2>7. QED
    BY <2>2, <2>3, <2>5, <2>6 DEF Arranged
<1>5. ASSUME NEW j \in 1..n PROVE s[j] = t[j]
  <2>1. ~(t[j] < s[j])
    BY <1>1, <1>4, NotBelow
  <2>2. ~(s[j] < t[j])
    BY <1>1, <1>4, NotBelow
  <2>3. QED
    BY <1>4, <2>1, <2>2 DEF Arranged
<1>6. QED
  BY <1>2, <1>3, <1>5

\* What a summary makes of a slice is determined: there is an order for the sort
\* to leave, and however it treats equal delays there is no second one.
THEOREM LatencySortDetermined ==
  \A d \in Seq(Delays) : \E s : Orderings(d) = {s}
<1> SUFFICES ASSUME NEW d \in Seq(Delays) PROVE \E s : Orderings(d) = {s}
  OBVIOUS
<1>1. d \in Seq(Nat)
  BY SeqOfNumbers, LatencyAssumption
<1>2. PICK s \in Orderings(d) : TRUE
  BY <1>1, OrderingExists
<1>3. \A t \in Orderings(d) : t = s
  BY <1>1, <1>2, OrderingUnique
<1>4. Orderings(d) = {s}
  BY <1>2, <1>3
<1>5. QED
  BY <1>4
-----------------------------------------------------------------------------

LEMMA InitIInv == Init => IInv
<1> SUFFICES ASSUME Init PROVE IInv
  OBVIOUS
<1>1. TypeOK
  BY LatencyAssumption DEF Init, TypeOK
<1>2. OnePerCall
  BY DEF Init, OnePerCall
<1>3. DelaysOfCalls
  <2>1. [k \in 1..0 |-> k] \in Moves(0)
    BY DEF Moves
  <2>2. QED
    BY <2>1 DEF Init, DelaysOfCalls, Rearranged
<1>4. SummaryOfSorted
  BY DEF Init, SummaryOfSorted, Summarized
<1>5. FailedCounted
  <2>1. {j \in DOMAIN calls : Errno(calls[j].ret, Half) > 0} = {}
    BY DEF Init
  <2>2. QED
    BY <2>1, FS_EmptySet DEF Init, FailedCounted
<1>6. QED
  BY <1>1, <1>2, <1>3, <1>4, <1>5 DEF IInv

\* An event is counted.
LEMMA UpdateIInv ==
  ASSUME IInv, NEW ret \in Rets, NEW delay \in Delays, updateStatistics(ret, delay)
  PROVE  IInv'
<1> DEFINE call == [ret |-> ret, delay |-> delay]
<1>t. TypeOK /\ OnePerCall /\ DelaysOfCalls /\ SummaryOfSorted /\ FailedCounted
  BY DEF IInv
<1>c. call \in Call /\ call.ret = ret /\ call.delay = delay
  BY DEF Call
<1>a. /\ called < MaxCalls /\ calls' = Append(calls, call) /\ called' = called + 1
      /\ failed' = (IF Errno(ret, Half) > 0 THEN failed + 1 ELSE failed)
      /\ delays' = Append(delays, delay)
      /\ UNCHANGED <<p50, p99, covered>>
  BY DEF updateStatistics
<1> HIDE DEF call
<1>n. called \in Nat /\ MaxCalls \in Nat /\ failed \in 0..called /\ covered \in 0..called
  BY <1>t, LatencyAssumption DEF TypeOK
<1>1. TypeOK'
  <2>1. calls' \in Seq(Call) /\ delays' \in Seq(Delays)
    BY <1>t, <1>a, <1>c DEF TypeOK
  <2>2. called' \in 0..MaxCalls /\ failed' \in 0..called' /\ covered' \in 0..called'
    BY <1>t, <1>a, <1>n DEF TypeOK
  <2>3. QED
    BY <1>t, <1>a, <2>1, <2>2 DEF TypeOK
<1>2. OnePerCall'
  BY <1>t, <1>a, <1>c, <1>n DEF OnePerCall, TypeOK
<1>k. \A j \in 1..called : calls'[j] = calls[j] /\ delays'[j] = delays[j]
  BY <1>t, <1>a, <1>c DEF OnePerCall, TypeOK
<1>3. Rearranged(called)'
  <2>1. PICK f \in Moves(called) : \A j \in 1..called : delays[j] = calls[f[j]].delay
    BY <1>t DEF DelaysOfCalls, Rearranged
  <2> DEFINE g == [k \in 1..(called + 1) |-> IF k <= called THEN f[k] ELSE called + 1]
  <2>2. f \in [1..called -> 1..called] /\ \A k \in 1..called : \E j \in 1..called : f[j] = k
    BY DEF Moves
  <2>3. g \in Moves(called + 1)
    <3>1. g \in [1..(called + 1) -> 1..(called + 1)]
      <4>1. ASSUME NEW k \in 1..(called + 1)
            PROVE (IF k <= called THEN f[k] ELSE called + 1) \in 1..(called + 1)
        <5>1. CASE k <= called
          <6>1. k \in 1..called /\ f[k] \in 1..called
            BY <1>n, <2>2, <5>1
          <6>2. QED
            BY <1>n, <5>1, <6>1
        <5>2. CASE ~(k <= called)
          BY <1>n, <5>2
        <5>3. QED
          BY <5>1, <5>2
      <4>2. QED
        BY <4>1
    <3>2. ASSUME NEW k \in 1..(called + 1) PROVE \E j \in 1..(called + 1) : g[j] = k
      <4>1. CASE k <= called
        <5>1. PICK j \in 1..called : f[j] = k
          BY <1>n, <2>2, <4>1
        <5>2. j \in 1..(called + 1) /\ g[j] = k
          BY <1>n, <5>1
        <5>3. QED
          BY <5>2
      <4>2. CASE k = called + 1
        <5>1. g[called + 1] = k
          BY <1>n, <4>2
        <5>2. QED
          BY <1>n, <5>1
      <4>3. QED
        BY <1>n, <4>1, <4>2
    <3>3. QED
      BY <3>1, <3>2 DEF Moves
  <2>4. ASSUME NEW j \in 1..(called + 1) PROVE delays'[j] = calls'[g[j]].delay
    <3>1. CASE j <= called
      <4>1. j \in 1..called /\ g[j] = f[j] /\ f[j] \in 1..called
        BY <1>n, <2>2, <3>1
      <4>2. delays'[j] = delays[j] /\ calls'[f[j]] = calls[f[j]]
        BY <1>t, <1>a, <1>c, <4>1 DEF OnePerCall, TypeOK
      <4>3. QED
        BY <2>1, <4>1, <4>2
    <3>2. CASE j = called + 1
      <4>1. delays'[j] = delay /\ calls'[j] = call /\ g[j] = j
        BY <1>t, <1>a, <1>c, <1>n, <3>2 DEF OnePerCall, TypeOK
      <4>2. QED
        BY <1>c, <4>1
    <3>3. QED
      BY <1>n, <3>1, <3>2
  <2>5. QED
    BY <1>a, <2>3, <2>4 DEF Rearranged
<1>r. Rearranged(covered)'
  <2>1. PICK f \in Moves(covered) : \A j \in 1..covered : delays[j] = calls[f[j]].delay
    BY <1>t DEF DelaysOfCalls, Rearranged
  <2>2. ASSUME NEW j \in 1..covered PROVE delays'[j] = calls'[f[j]].delay
    <3>1. j \in 1..called /\ f[j] \in 1..called
      BY <1>n DEF Moves
    <3>2. QED
      BY <1>k, <2>1, <3>1
  <2>3. QED
    BY <1>a, <2>2 DEF Rearranged
<1>4. SummaryOfSorted'
  <2>1. Counted' = Counted
    <3>1. Counted = [j \in 1..covered |-> delays[j]]
      BY <1>t, <1>n DEF Counted, TypeOK, OnePerCall
    <3>c. Counted' = [j \in 1..covered |-> delays'[j]]
      <4>1. delays' \in Seq(Delays) /\ covered \in 0..Len(delays')
        BY <1>1, <1>2, <1>a, <1>n DEF TypeOK, OnePerCall
      <4>2. Counted' = SubSeq(delays', 1, covered)
        BY <1>a DEF Counted
      <4>3. QED
        BY <4>1, <4>2
    <3>2. \A j \in 1..covered : delays'[j] = delays[j]
      BY <1>k, <1>n
    <3>3. QED
      BY <3>1, <3>c, <3>2
  <2>2. QED
    BY <1>t, <1>a, <2>1 DEF SummaryOfSorted, Summarized
<1>5. FailedCounted'
  <2> DEFINE E == {j \in DOMAIN calls : Errno(calls[j].ret, Half) > 0}
  <2>1. DOMAIN calls = 1..called /\ DOMAIN calls' = 1..(called + 1)
    BY <1>t, <1>a, <1>c, <1>n DEF OnePerCall, TypeOK
  <2>2. \A j \in 1..called : calls'[j] = calls[j]
    BY <1>t, <1>a, <1>c, <1>n DEF OnePerCall, TypeOK
  <2>3. calls'[called + 1].ret = ret
    BY <1>t, <1>a, <1>c, <1>n DEF OnePerCall, TypeOK
  <2>4. IsFiniteSet(E) /\ called + 1 \notin E
    <3>1. E \in SUBSET (1..called)
      BY <2>1
    <3>2. IsFiniteSet(1..called)
      BY <1>n, FS_Interval
    <3>3. QED
      BY <1>n, <3>1, <3>2, FS_Subset
  <2>5. failed = Cardinality(E) /\ Cardinality(E) \in Nat
    BY <1>t, <2>4, FS_CardinalityType DEF FailedCounted
  <2>6. CASE Errno(ret, Half) > 0
    <3>1. {j \in DOMAIN calls' : Errno(calls'[j].ret, Half) > 0} = E \cup {called + 1}
      BY <1>n, <2>1, <2>2, <2>3, <2>6
    <3>2. Cardinality(E \cup {called + 1}) = Cardinality(E) + 1
      BY <2>4, FS_AddElement
    <3>3. failed' = failed + 1
      BY <1>a, <2>6
    <3>4. QED
      BY <2>5, <3>1, <3>2, <3>3 DEF FailedCounted
  <2>7. CASE ~(Errno(ret, Half) > 0)
    <3>1. {j \in DOMAIN calls' : Errno(calls'[j].ret, Half) > 0} = E
      BY <1>n, <2>1, <2>2, <2>3, <2>7
    <3>2. failed' = failed
      BY <1>a, <2>7
    <3>3. QED
      BY <2>5, <3>1, <3>2 DEF FailedCounted
  <2>8. QED
    BY <2>6, <2>7
<1>6. QED
  BY <1>1, <1>2, <1>3, <1>r, <1>4, <1>5 DEF IInv, DelaysOfCalls

\* The sort moves the delays, and the percentiles are taken of the result.
LEMMA SummarizeIInv ==
  ASSUME IInv, summarizeOneSyscall
  PROVE  IInv'
<1>t. TypeOK /\ OnePerCall /\ DelaysOfCalls /\ FailedCounted
  BY DEF IInv
<1>1. PICK g \in Moves(Len(delays)) :
        /\ Sorted(Moved(delays, g))
        /\ delays' = Moved(delays, g)
        /\ Percentiles(Moved(delays, g))
  BY DEF summarizeOneSyscall, Orderings, InOrder
<1>2. covered' = called /\ UNCHANGED <<calls, called, failed>>
  BY DEF summarizeOneSyscall
<1>3. /\ called \in Nat /\ Len(delays) = called /\ delays \in Seq(Delays)
      /\ Delays \subseteq Nat
  BY <1>t, LatencyAssumption DEF TypeOK, OnePerCall
<1>4. /\ delays' \in Seq(Delays) /\ Len(delays') = called
      /\ \A j \in 1..called : delays'[j] = delays[g[j]]
  BY <1>1, <1>3, MovedType
<1>5. Sorted(delays') /\ Percentiles(delays')
  BY <1>1
<1>6. TypeOK'
  <2>1. p50' \in Nat /\ p99' \in Nat
    <3>1. CASE delays' = <<>>
      BY <1>t, <1>5, <3>1 DEF Percentiles, TypeOK
    <3>2. CASE delays' # <<>>
      <4>1. called > 0 /\ delays' \in Seq(Nat)
        <5>1. called # 0
          BY <1>4, <3>2
        <5>2. delays' \in Seq(Nat)
          BY <1>3, <1>4, SeqOfNumbers
        <5>3. QED
          BY <1>3, <5>1, <5>2
      <4>2. p50' = Middle(delays') /\ p99' = delays'[TailIndex(called) + 1]
        BY <1>4, <1>5, <3>2 DEF Percentiles, At
      <4>3. Middle(delays') \in Nat
        BY <1>5, <3>2, <4>1, MiddleRange
      <4>4. TailIndex(called) + 1 \in 1..called
        BY <1>3, <4>1, TailIndexRange
      <4>5. delays'[TailIndex(called) + 1] \in Nat
        BY <1>4, <4>1, <4>4
      <4>6. QED
        BY <4>2, <4>3, <4>5
    <3>3. QED
      BY <3>1, <3>2
  <2>2. covered' \in 0..called'
    BY <1>2, <1>3
  <2>3. QED
    BY <1>t, <1>2, <1>4, <2>1, <2>2 DEF TypeOK
<1>7. OnePerCall'
  BY <1>t, <1>2, <1>4 DEF OnePerCall
<1>8. DelaysOfCalls'
  <2>1. PICK f \in Moves(called) : \A j \in 1..called : delays[j] = calls[f[j]].delay
    BY <1>t DEF DelaysOfCalls, Rearranged
  <2> DEFINE h == [j \in 1..called |-> f[g[j]]]
  <2>2. h \in Moves(called)
    BY <1>3, MovesCompose
  <2>3. ASSUME NEW j \in 1..called PROVE delays'[j] = calls[h[j]].delay
    <3>1. g[j] \in 1..called
      BY <1>3 DEF Moves
    <3>2. QED
      BY <1>4, <2>1, <3>1
  <2> HIDE DEF h
  <2>4. QED
    BY <1>2, <2>2, <2>3 DEF DelaysOfCalls, Rearranged
<1>9. SummaryOfSorted'
  <2>c. Counted' = delays'
    BY <1>2, <1>4 DEF Counted
  <2>1. SUFFICES ASSUME called > 0
                 PROVE  Sorted(delays') /\ p50' = Middle(delays') /\ p99' = At(delays', TailIndex(called))
    BY <1>2, <1>3, <2>c DEF SummaryOfSorted, Summarized
  <2>2. delays' # <<>>
    BY <1>4, <2>1
  <2>3. QED
    BY <1>4, <1>5, <2>2 DEF Percentiles
<1>10. FailedCounted'
  BY <1>t, <1>2 DEF FailedCounted
<1>11. QED
  BY <1>6, <1>7, <1>8, <1>9, <1>10 DEF IInv

LEMMA StepIInv == IInv /\ [Next]_vars => IInv'
<1> SUFFICES ASSUME IInv, [Next]_vars PROVE IInv'
  OBVIOUS
<1>1. ASSUME NEW ret \in Rets, NEW delay \in Delays, updateStatistics(ret, delay) PROVE IInv'
  BY <1>1, UpdateIInv
<1>2. CASE summarizeOneSyscall
  BY <1>2, SummarizeIInv
<1>3. CASE UNCHANGED vars
  BY <1>3 DEF IInv, vars, TypeOK, OnePerCall, DelaysOfCalls, Rearranged, SummaryOfSorted, Summarized, Counted, FailedCounted
<1>4. QED
  BY <1>1, <1>2, <1>3 DEF Next

\* The calls a summary is of and their delays have one length, and the delays
\* are numbers.
LEMMA RecordFacts ==
  ASSUME IInv
  PROVE  /\ covered \in Nat /\ 1..covered \subseteq DOMAIN calls
         /\ Counted \in Seq(Nat) /\ Len(Counted) = covered /\ DOMAIN Counted = 1..covered
         /\ \A j \in 1..covered : Counted[j] = delays[j] /\ Counted[j] \in Nat
<1>1. /\ calls \in Seq(Call) /\ delays \in Seq(Delays) /\ called \in 0..MaxCalls
      /\ Len(calls) = called /\ Len(delays) = called /\ covered \in 0..called
  BY DEF IInv, TypeOK, OnePerCall
<1>2. MaxCalls \in Nat /\ Delays \subseteq Nat
  BY LatencyAssumption
<1>3. delays \in Seq(Nat)
  BY <1>1, <1>2, SeqOfNumbers
<1>4. Counted = [j \in 1..covered |-> delays[j]]
  BY <1>1, <1>2 DEF Counted
<1>5. \A j \in 1..covered : delays[j] \in Nat
  BY <1>1, <1>2, <1>3
<1>6. covered \in Nat /\ 1..covered \subseteq DOMAIN calls
  BY <1>1, <1>2
<1>7. QED
  BY <1>4, <1>5, <1>6

\* Behind a place of the sorted delays are the only calls that took longer.
LEMMA AboveBound ==
  ASSUME IInv, Sorted(Counted), NEW b \in 1..covered, NEW d \in Nat, Counted[b] <= d
  PROVE  IsFiniteSet(Above(d)) /\ Cardinality(Above(d)) <= covered - b
<1>1. /\ covered \in Nat /\ DOMAIN Counted = 1..covered
      /\ \A j \in 1..covered : Counted[j] = delays[j] /\ Counted[j] \in Nat
  BY RecordFacts
<1>2. PICK f \in Moves(covered) : \A j \in 1..covered : delays[j] = calls[f[j]].delay
  BY DEF IInv, DelaysOfCalls, Rearranged
<1>3. ASSUME NEW i \in Above(d) PROVE \E k \in (b + 1)..covered : f[k] = i
  <2>1. i \in 1..covered /\ calls[i].delay > d
    BY <1>1 DEF Above
  <2>2. PICK k \in 1..covered : f[k] = i
    BY <2>1 DEF Moves
  <2>3. Counted[k] > d
    BY <1>1, <1>2, <2>1, <2>2
  <2>4. ~(k <= b)
    <3>1. k <= b => Counted[k] <= Counted[b]
      BY <1>1 DEF Sorted
    <3>2. QED
      BY <1>1, <2>3, <3>1
  <2>5. k \in (b + 1)..covered
    BY <1>1, <2>4
  <2>6. QED
    BY <2>2, <2>5
<1>4. b + 1 \in Int /\ covered \in Int /\ b + 1 <= covered + 1
  BY <1>1
<1>5. IsFiniteSet(Above(d)) /\ Cardinality(Above(d)) <= covered - (b + 1) + 1
  BY <1>3, <1>4, ImageBound
<1>6. Cardinality(Above(d)) \in Nat
  BY <1>5, FS_CardinalityType
<1>7. QED
  BY <1>1, <1>5, <1>6

\* Before it are the only calls that took less.
LEMMA BelowBound ==
  ASSUME IInv, Sorted(Counted), NEW b \in 1..covered, NEW d \in Nat, d <= Counted[b]
  PROVE  IsFiniteSet(Below(d)) /\ Cardinality(Below(d)) <= b - 1
<1>1. /\ covered \in Nat /\ DOMAIN Counted = 1..covered
      /\ \A j \in 1..covered : Counted[j] = delays[j] /\ Counted[j] \in Nat
  BY RecordFacts
<1>2. PICK f \in Moves(covered) : \A j \in 1..covered : delays[j] = calls[f[j]].delay
  BY DEF IInv, DelaysOfCalls, Rearranged
<1>3. ASSUME NEW i \in Below(d) PROVE \E k \in 1..(b - 1) : f[k] = i
  <2>1. i \in 1..covered /\ calls[i].delay < d
    BY <1>1 DEF Below
  <2>2. PICK k \in 1..covered : f[k] = i
    BY <2>1 DEF Moves
  <2>3. Counted[k] < d
    BY <1>1, <1>2, <2>1, <2>2
  <2>4. ~(b <= k)
    <3>1. b <= k => Counted[b] <= Counted[k]
      BY <1>1 DEF Sorted
    <3>2. QED
      BY <1>1, <2>3, <3>1
  <2>5. k \in 1..(b - 1)
    BY <1>1, <2>4
  <2>6. QED
    BY <2>2, <2>5
<1>4. 1 \in Int /\ b - 1 \in Int /\ 1 <= b - 1 + 1
  BY <1>1
<1>5. IsFiniteSet(Below(d)) /\ Cardinality(Below(d)) <= b - 1 - 1 + 1
  BY <1>3, <1>4, ImageBound
<1>6. Cardinality(Below(d)) \in Nat
  BY <1>5, FS_CardinalityType
<1>7. QED
  BY <1>1, <1>5, <1>6

\* What a summary says of the sorted delays.
LEMMA SummaryFacts ==
  ASSUME IInv, Summarized
  PROVE  /\ covered \in Nat /\ covered > 0 /\ Sorted(Counted)
         /\ Counted \in Seq(Nat) /\ Counted # <<>> /\ Len(Counted) = covered
         /\ p50 = Middle(Counted) /\ p50 \in Nat /\ p99 \in Nat
         /\ TailIndex(covered) + 1 \in 1..covered
         /\ p99 = Counted[TailIndex(covered) + 1]
<1>1. covered \in Nat /\ p50 \in Nat /\ p99 \in Nat
  BY RecordFacts DEF IInv, TypeOK
<1>2. covered > 0
  BY DEF Summarized
<1>3. Sorted(Counted) /\ p50 = Middle(Counted) /\ p99 = Counted[TailIndex(covered) + 1]
  BY DEF IInv, SummaryOfSorted, At
<1>4. Counted \in Seq(Nat) /\ Len(Counted) = covered
  BY RecordFacts
<1>6. Counted # <<>>
  BY <1>2, <1>4
<1>7. TailIndex(covered) + 1 \in 1..covered
  BY <1>1, <1>2, TailIndexRange
<1>8. QED
  BY <1>1, <1>2, <1>3, <1>4, <1>6, <1>7

LEMMA Median == IInv => MedianInTheMiddle
<1> SUFFICES ASSUME IInv, Summarized
             PROVE  2 * Cardinality(Above(p50)) <= covered /\ 2 * Cardinality(Below(p50)) <= covered
  BY DEF MedianInTheMiddle
<1> DEFINE h == covered \div 2
<1>1. /\ covered \in Nat /\ covered > 0 /\ Sorted(Counted) /\ p50 \in Nat
      /\ Len(Counted) = covered /\ p50 = Middle(Counted)
      /\ Counted \in Seq(Nat) /\ Counted # <<>>
  BY SummaryFacts
<1>2. /\ covered % 2 = 0 => h \in 1..covered /\ h + 1 \in 1..covered /\ Counted[h] <= p50 /\ p50 <= Counted[h + 1]
      /\ covered % 2 # 0 => h + 1 \in 1..covered /\ p50 = Counted[h + 1]
  BY <1>1, MiddleRange
<1>3. h \in Nat /\ 2 * h <= covered /\ covered <= 2 * h + 1
  BY <1>1
<1>c. \A S : IsFiniteSet(S) => Cardinality(S) \in Nat
  BY FS_CardinalityType
<1>4. CASE covered % 2 = 0
  <2>1. IsFiniteSet(Above(p50)) /\ Cardinality(Above(p50)) <= covered - h
    BY <1>1, <1>2, <1>4, AboveBound
  <2>2. IsFiniteSet(Below(p50)) /\ Cardinality(Below(p50)) <= (h + 1) - 1
    BY <1>1, <1>2, <1>4, BelowBound
  <2>3. covered = 2 * h
    BY <1>1, <1>4
  <2>4. Cardinality(Above(p50)) \in Nat /\ Cardinality(Below(p50)) \in Nat
    BY <1>c, <2>1, <2>2
  <2> HIDE DEF h
  <2>5. QED
    BY <1>1, <1>3, <2>1, <2>2, <2>3, <2>4
<1>5. CASE covered % 2 # 0
  <2>1. h + 1 \in 1..covered /\ Counted[h + 1] <= p50 /\ p50 <= Counted[h + 1]
    BY <1>1, <1>2, <1>5
  <2>2. IsFiniteSet(Above(p50)) /\ Cardinality(Above(p50)) <= covered - (h + 1)
    BY <1>1, <2>1, AboveBound
  <2>3. IsFiniteSet(Below(p50)) /\ Cardinality(Below(p50)) <= (h + 1) - 1
    BY <1>1, <2>1, BelowBound
  <2>4. Cardinality(Above(p50)) \in Nat /\ Cardinality(Below(p50)) \in Nat
    BY <1>c, <2>2, <2>3
  <2> HIDE DEF h
  <2>5. QED
    BY <1>1, <1>3, <2>2, <2>3, <2>4
<1>6. QED
  BY <1>4, <1>5

LEMMA FewAbove == IInv => FewAboveTail
<1> SUFFICES ASSUME IInv, Summarized
             PROVE  Whole * Cardinality(Above(p99)) <= (Whole - Part) * covered
  BY DEF FewAboveTail
<1> DEFINE q == TailIndex(covered)
<1> DEFINE c == Cardinality(Above(p99))
<1>1. /\ covered \in Nat /\ covered > 0 /\ Sorted(Counted) /\ p99 \in Nat
      /\ q + 1 \in 1..covered /\ p99 = Counted[q + 1]
  BY SummaryFacts
<1>2. IsFiniteSet(Above(p99)) /\ c <= covered - (q + 1)
  BY <1>1, AboveBound
<1>3. c \in Nat
  BY <1>2, FS_CardinalityType
<1>4. Whole * (covered - 1 - q) <= (Whole - Part) * covered /\ q \in Nat
  BY <1>1, TailIndexRange
<1>5. Whole \in Nat /\ Part \in Nat
  BY LatencyAssumption
<1> HIDE DEF q, c
<1>6. Whole * c <= Whole * (covered - 1 - q)
  <2>1. c <= covered - 1 - q /\ covered - 1 - q \in Int
    BY <1>1, <1>2, <1>3, <1>4
  <2>2. QED
    BY <1>3, <1>5, <2>1
<1>7. Whole * c \in Int /\ Whole * (covered - 1 - q) \in Int /\ (Whole - Part) * covered \in Int
  BY <1>1, <1>3, <1>4, <1>5
<1>8. QED
  BY <1>4, <1>6, <1>7 DEF c

LEMMA BelowTail == IInv => MedianBelowTail
<1> SUFFICES ASSUME IInv, Summarized PROVE p50 <= p99
  BY DEF MedianBelowTail
<1> DEFINE h == covered \div 2
<1> DEFINE q == TailIndex(covered)
<1>1. /\ covered \in Nat /\ covered > 0 /\ Sorted(Counted)
      /\ Counted \in Seq(Nat) /\ Counted # <<>> /\ Len(Counted) = covered
      /\ p50 = Middle(Counted) /\ p50 \in Nat /\ p99 \in Nat
      /\ q + 1 \in 1..covered /\ p99 = Counted[q + 1]
  BY SummaryFacts
<1>2. q >= h /\ q \in Nat /\ h \in Nat
  BY <1>1, TailIndexRange
<1>3. h + 1 \in 1..covered /\ p50 <= Counted[h + 1]
  <2>1. /\ covered % 2 = 0 => h + 1 \in 1..covered /\ p50 <= Counted[h + 1]
        /\ covered % 2 # 0 => h + 1 \in 1..covered /\ p50 = Counted[h + 1]
    BY <1>1, MiddleRange
  <2>2. QED
    BY <1>1, <2>1
<1>4. Counted[h + 1] <= Counted[q + 1]
  <2>1. h + 1 <= q + 1
    BY <1>2
  <2>2. h + 1 \in DOMAIN Counted /\ q + 1 \in DOMAIN Counted
    BY <1>1, <1>3
  <2> HIDE DEF h, q
  <2>3. QED
    BY <1>1, <2>1, <2>2 DEF Sorted
<1>5. Counted[h + 1] \in Nat
  BY <1>1, <1>3
<1>6. QED
  BY <1>1, <1>3, <1>4, <1>5

LEMMA Longest == IInv => TailIsLongest
<1> SUFFICES ASSUME IInv, Summarized, covered * (Whole - Part) <= Whole
             PROVE  Above(p99) = {} /\ \E j \in 1..covered : calls[j].delay = p99
  BY DEF TailIsLongest
<1>1. /\ covered \in Nat /\ covered > 0 /\ Sorted(Counted) /\ p99 \in Nat
      /\ p99 = Counted[TailIndex(covered) + 1]
  BY SummaryFacts
<1>2. TailIndex(covered) = covered - 1
  <2>1. Whole \in Nat /\ Part \in Nat
    BY LatencyAssumption
  <2>2. (Whole - Part) * covered <= Whole
    BY <1>1, <2>1
  <2>3. QED
    BY <1>1, <2>2, TailIndexRange
<1>3. p99 = Counted[covered]
  BY <1>1, <1>2
<1>4. covered \in 1..covered /\ Counted[covered] <= p99
  BY <1>1, <1>3
<1>5. IsFiniteSet(Above(p99)) /\ Cardinality(Above(p99)) <= covered - covered
  BY <1>1, <1>4, AboveBound
<1>6. Cardinality(Above(p99)) = 0
  <2>1. Cardinality(Above(p99)) \in Nat
    BY <1>5, FS_CardinalityType
  <2>2. QED
    BY <1>1, <1>5, <2>1
<1>7. Above(p99) = {}
  BY <1>5, <1>6, FS_EmptySet
<1>8. PICK f \in Moves(covered) : \A j \in 1..covered : delays[j] = calls[f[j]].delay
  BY DEF IInv, DelaysOfCalls, Rearranged
<1>9. f[covered] \in 1..covered /\ calls[f[covered]].delay = p99
  BY <1>3, <1>4, <1>8, RecordFacts DEF Moves
<1>10. QED
  BY <1>7, <1>9

\* Every error is among the failed calls, and every failed call returned a
\* negative value.
LEMMA Failures == IInv => FailedAreErrors
<1> SUFFICES ASSUME IInv PROVE FailedAreErrors
  OBVIOUS
<1> DEFINE E == {j \in DOMAIN calls : calls[j].ret \in -MaxErrno .. -1}
           F == {j \in DOMAIN calls : Errno(calls[j].ret, Half) > 0}
           N == {j \in DOMAIN calls : calls[j].ret < 0}
<1>1. IsFiniteSet(DOMAIN calls) /\ \A j \in DOMAIN calls : calls[j].ret \in Rets
  <2>1. calls \in Seq(Call)
    BY DEF IInv, TypeOK
  <2>2. DOMAIN calls = 1..Len(calls) /\ Len(calls) \in Nat
    BY <2>1
  <2>3. \A j \in DOMAIN calls : calls[j] \in Call
    BY <2>1
  <2>4. QED
    BY <2>2, <2>3, FS_Interval DEF Call
<1>2. E \in SUBSET F /\ F \in SUBSET N /\ N \in SUBSET DOMAIN calls
  BY <1>1, ErrnoOfError
<1> HIDE DEF E, F, N
<1>3. IsFiniteSet(N)
  BY <1>1, <1>2, FS_Subset
<1>4. IsFiniteSet(F) /\ Cardinality(F) <= Cardinality(N)
  BY <1>2, <1>3, FS_Subset
<1>5. Cardinality(E) <= Cardinality(F)
  BY <1>2, <1>4, FS_Subset
<1>6. failed = Cardinality(F)
  BY DEF IInv, FailedCounted, F
<1>7. QED
  BY <1>4, <1>5, <1>6 DEF FailedAreErrors, E, N

\* The record holds the delays of the calls; the percentiles are of those that
\* were counted when they were made, sorted.
THEOREM LatencyInvariant == Spec => []IInv
<1>1. Init => IInv
  BY InitIInv
<1>2. IInv /\ [Next]_vars => IInv'
  BY StepIInv
<1>3. QED
  BY <1>1, <1>2, PTL DEF Spec

\* Every variable keeps its type: the indices never leave the slice.
THEOREM LatencyTypeCorrect == Spec => []TypeOK
<1>1. IInv => TypeOK
  BY DEF IInv
<1>2. QED
  BY <1>1, LatencyInvariant, PTL

\* P50 has at most half of the calls it is of on either side.
THEOREM LatencyMedian == Spec => []MedianInTheMiddle
<1>1. IInv => MedianInTheMiddle
  BY Median
<1>2. QED
  BY <1>1, LatencyInvariant, PTL

\* P99 has at most a hundredth of the calls it is of above it.
THEOREM LatencyFewAbove == Spec => []FewAboveTail
<1>1. IInv => FewAboveTail
  BY FewAbove
<1>2. QED
  BY <1>1, LatencyInvariant, PTL

\* P50 is never above P99.
THEOREM LatencyOrder == Spec => []MedianBelowTail
<1>1. IInv => MedianBelowTail
  BY BelowTail
<1>2. QED
  BY <1>1, LatencyInvariant, PTL

\* With up to a hundred calls P99 is the longest of them.
THEOREM LatencyLongest == Spec => []TailIsLongest
<1>1. IInv => TailIsLongest
  BY Longest
<1>2. QED
  BY <1>1, LatencyInvariant, PTL

\* Whatever the return values are, every error is counted as a failed call, and
\* nothing is whose return value is not negative.
THEOREM LatencyFailed == Spec => []FailedAreErrors
<1>1. IInv => FailedAreErrors
  BY Failures
<1>2. QED
  BY <1>1, LatencyInvariant, PTL
=============================================================================
