---------------------------- MODULE NumberFacts ----------------------------
(***************************************************************************)
(* Facts about whole numbers that the proofs rest on: remainders for an    *)
(* arbitrary modulus (sequence numbers are taken modulo 2^32, the slots of *)
(* a ring modulo its capacity), products, least numbers, sets listed in    *)
(* ascending order, the loops that folds over 1 .. n are, and sequences.   *)
(*                                                                         *)
(* LeastExists is how these proofs do induction: if a statement failed for *)
(* some numbers it would fail for a least one.                             *)
(***************************************************************************)
EXTENDS Integers, Sequences, AscendingOrder, FiniteSetsExt, FiniteSetTheorems,
        WellFoundedInduction, SequenceTheorems, TLAPS

\* Euclidean division: the remainder is the only number of its range that
\* differs from the dividend by a multiple of the divisor.
LEMMA ModUnique ==
  ASSUME NEW m \in Nat \ {0}, NEW q \in Int, NEW r \in 0 .. m-1
  PROVE  (q * m + r) % m = r
  BY SMT

\* Every integer is a multiple of the modulus plus its remainder.
LEMMA ModSplit ==
  ASSUME NEW m \in Nat \ {0}, NEW a \in Int
  PROVE  /\ a % m \in 0 .. m-1
         /\ \E q \in Int : a = q * m + (a % m)
<1>1. a = (a \div m) * m + (a % m)  BY SMT
<1>2. a % m \in 0 .. m-1  BY SMT
<1>3. a \div m \in Int  BY SMT
<1> QED  BY <1>1, <1>2, <1>3

\* Adding a multiple of the modulus, inside a sum, does not change it.
LEMMA ModShift ==
  ASSUME NEW m \in Nat \ {0}, NEW a \in Int, NEW q \in Int
  PROVE  (q * m + a) % m = a % m
<1>1. PICK p \in Int : a = p * m + (a % m)  BY ModSplit
<1>2. a % m \in 0 .. m-1  BY ModSplit
<1>3. q * m + a = (q + p) * m + (a % m)  BY <1>1, <1>2, SMT
<1>4. ((q + p) * m + (a % m)) % m = a % m  BY <1>2, ModUnique
<1> QED  BY <1>3, <1>4

LEMMA ModShiftOnce ==
  ASSUME NEW m \in Nat \ {0}, NEW a \in Int
  PROVE  (m + a) % m = a % m
<1>1. \A q \in Int : (q * m + a) % m = a % m  BY ModShift
<1>2. 1 \in Int  OBVIOUS
<1>3. (1 * m + a) % m = a % m  BY <1>1, <1>2, Zenon
<1> QED  BY <1>3, SMT

\* The remainder of a difference is that of the difference of remainders.
LEMMA ModDifference ==
  ASSUME NEW m \in Nat \ {0}, NEW a \in Int, NEW b \in Int
  PROVE  ((a % m) - (b % m)) % m = (a - b) % m
<1> DEFINE r == a % m
           s == b % m
<1>1. r \in Int /\ s \in Int  BY ModSplit
<1>2. PICK p \in Int : a = p * m + r  BY ModSplit
<1>3. PICK q \in Int : b = q * m + s  BY ModSplit
<1> HIDE DEF r, s
<1>4. r - s = (q - p) * m + (a - b)  BY <1>1, <1>2, <1>3, SMT
<1>5. q - p \in Int /\ a - b \in Int  BY SMT
<1> DEFINE x == q - p
           y == a - b
           z == x * m + y
<1>6. x \in Int /\ y \in Int  BY <1>5
<1>7. r - s = z  BY <1>4
<1> HIDE DEF x, y
<1>8. z % m = y % m  BY <1>6, ModShift
<1> HIDE DEF z
<1>9. (r - s) % m = y % m  BY <1>7, <1>8, Zenon
<1> QED  BY <1>9 DEF r, s, y

\* Numbers less than a modulus apart have different remainders: distinct
\* cursors of a ring that are less than a capacity apart use distinct slots.
LEMMA ModInjective ==
  ASSUME NEW m \in Nat \ {0}, NEW a \in Int, NEW b \in Int,
         a > b, a - b < m
  PROVE  a % m # b % m
<1> SUFFICES ASSUME a % m = b % m PROVE FALSE
  OBVIOUS
<1>1. PICK p \in Int : a = p * m + (a % m)  BY ModSplit
<1>2. PICK q \in Int : b = q * m + (b % m)  BY ModSplit
<1>3. a % m \in Int /\ b % m \in Int  BY ModSplit
<1>4. ((a % m) - (b % m)) % m = (a - b) % m  BY ModDifference
<1>5. a - b \in 0 .. m - 1  BY SMT
<1>6. (a - b) % m = a - b
  <2>1. (0 * m + (a - b)) % m = a - b  BY <1>5, ModUnique
  <2> QED  BY <2>1, SMT
<1>7. ((a % m) - (b % m)) % m = 0
  <2>1. (0 * m + 0) % m = 0  BY ModUnique, SMT
  <2>2. (a % m) - (b % m) = 0 * m + 0  BY <1>3, SMT
  <2> QED  BY <2>1, <2>2
<1> QED  BY <1>4, <1>6, <1>7, SMT

\* Multiplication keeps the order.
LEMMA TimesMonotonic ==
  ASSUME NEW m \in Nat, NEW i \in Int, NEW j \in Int, i <= j
  PROVE  i * m <= j * m /\ i * m \in Int
  BY SMT

\* The quotient rounded up: how many blocks of m it takes for t.
LEMMA RoundedUp ==
  ASSUME NEW m \in Nat \ {0}, NEW t \in Nat \ {0},
         NEW c, c = (t + m - 1) \div m
  PROVE  c \in Nat \ {0} /\ (c - 1) * m < t /\ t <= c * m
<1>1. c \in Int  BY SMT
<1>2. t + m - 1 = c * m + ((t + m - 1) % m)  BY SMT
<1>3. (t + m - 1) % m \in 0 .. m - 1  BY SMT
<1>4. (c - 1) * m = c * m - m  BY <1>1, SMT
<1>5. (c - 1) * m < t /\ t <= c * m  BY <1>1, <1>2, <1>3, <1>4, SMT
<1>6. c > 0  
  <2>1. SUFFICES ASSUME c <= 0 PROVE FALSE BY <1>1
  <2>2. c * m <= 0 * m BY <1>1, <2>1, TimesMonotonic
  <2> QED  BY <1>1, <1>5, <2>2
<1> QED  BY <1>1, <1>5, <1>6

\* A set of natural numbers that is not empty has a least element.
LEMMA LeastExists ==
  ASSUME NEW T \in SUBSET Nat, T # {}
  PROVE  \E x \in T : \A y \in T : x <= y
<1>1. IsWellFoundedOn(OpToRel(<, Nat), Nat)  BY NatLessThanWellFounded, Zenon
<1>2. PICK x \in T : \A y \in T : ~(<<y, x>> \in OpToRel(<, Nat))
  BY <1>1, WFMin, Zenon
<1>3. \A y \in T : ~(y < x)  BY <1>2 DEF OpToRel
<1> QED  BY <1>3

-----------------------------------------------------------------------------
\* at lists a finite set of numbers in ascending order.
IsAscending(at, I) ==
  /\ at \in [1 .. Cardinality(I) -> I]
  /\ \A j, k \in 1 .. Cardinality(I) : j < k => at[j] < at[k]

\* A set of numbers up to n can be listed in ascending order.
LEMMA AscendingExists ==
  ASSUME NEW n \in Nat, NEW I \in SUBSET (1 .. n)
  PROVE  Cardinality(I) \in Nat /\ \E at : IsAscending(at, I)
<1> DEFINE P(k) == \A T \in SUBSET (1 .. k) : \E at : IsAscending(at, T)
           Fails == {k \in Nat : ~P(k)}
<1>1. ASSUME NEW k \in Nat, NEW T \in SUBSET (1 .. k)
      PROVE  IsFiniteSet(T) /\ Cardinality(T) \in Nat
  <2>1. IsFiniteSet(1 .. k)  BY FS_Interval
  <2>2. IsFiniteSet(T)  BY <2>1, FS_Subset
  <2> QED  BY <2>2, FS_CardinalityType
<1> HIDE DEF P
<1>2. Fails = {}
  <2> SUFFICES ASSUME Fails # {} PROVE FALSE  OBVIOUS
  <2>1. PICK k \in Fails : \A j \in Fails : k <= j  BY LeastExists
  <2>2. k # 0
    <3> SUFFICES ASSUME k = 0 PROVE FALSE  OBVIOUS
    <3>1. \A T \in SUBSET (1 .. k) : T = {}  OBVIOUS
    <3>2. Cardinality({}) = 0 /\ 1 .. 0 = {}  BY FS_EmptySet
    <3>3. IsAscending([j \in {} |-> j], {})  BY <3>2 DEF IsAscending
    <3> QED  BY <3>1, <3>3 DEF P
  <2>3. k - 1 \in Nat /\ ~(k <= k - 1)  BY <2>2
  <2>4. P(k - 1)
    <3>1. k - 1 \notin Fails  BY <2>1, <2>3
    <3> QED  BY <3>1, <2>3
  <2>5. ASSUME NEW T \in SUBSET (1 .. k) PROVE \E at : IsAscending(at, T)
    <3>1. CASE k \notin T
      <4>1. T \in SUBSET (1 .. k - 1)  BY <3>1, <2>3
      <4> QED  BY <2>4, <4>1 DEF P
    <3>2. CASE k \in T
      <4> DEFINE U == T \ {k}
                 c == Cardinality(U)
      <4>1. U \in SUBSET (1 .. k - 1)  BY <2>3
      <4>2. PICK f : IsAscending(f, U)  BY <2>4, <4>1 DEF P
      <4>3. c \in Nat /\ Cardinality(T) = c + 1
        <5>1. c \in Nat  BY <1>1, <2>3, <4>1
        <5>2. c = Cardinality(T) - 1 /\ Cardinality(T) \in Nat
          BY <1>1, <3>2, FS_RemoveElement
        <5> QED  BY <5>1, <5>2
      <4> DEFINE at == [j \in 1 .. c + 1 |-> IF j = c + 1 THEN k ELSE f[j]]
      <4>4. f \in [1 .. c -> U] /\ \A i, j \in 1 .. c : i < j => f[i] < f[j]
        BY <4>2 DEF IsAscending
      <4> HIDE DEF c
      <4>5. \A j \in 1 .. c : f[j] \in U /\ f[j] < k
        <5> TAKE j \in 1 .. c
        <5>1. f[j] \in U  BY <4>4
        <5>2. f[j] \in 1 .. k - 1  BY <4>1, <5>1
        <5> QED  BY <5>1, <5>2
      <4>6. at \in [1 .. c + 1 -> T]
        <5>1. \A j \in 1 .. c + 1 : j = c + 1 \/ j \in 1 .. c  BY <4>3
        <5> QED  BY <3>2, <4>5, <5>1
      <4>7. \A i, j \in 1 .. c + 1 : i < j => at[i] < at[j]
        <5> TAKE i, j \in 1 .. c + 1
        <5> HAVE i < j
        <5>1. i \in 1 .. c /\ (j = c + 1 \/ j \in 1 .. c)  BY <4>3
        <5>2. at[i] = f[i]  BY <4>3, <5>1
        <5>3. CASE j = c + 1  BY <4>5, <5>1, <5>2, <5>3
        <5>4. CASE j \in 1 .. c
          <6>1. at[j] = f[j]  BY <4>3, <5>4
          <6> QED  BY <4>4, <5>1, <5>2, <5>4, <6>1
        <5> QED  BY <5>1, <5>3, <5>4
      <4> HIDE DEF at, U
      <4> QED  BY <4>3, <4>6, <4>7 DEF IsAscending
    <3> QED  BY <3>1, <3>2
  <2> QED  BY <2>1, <2>5 DEF P
<1> QED
  <2>1. P(n)  BY <1>2
  <2> QED  BY <1>1, <2>1 DEF P

\* Ascending is such a list.
LEMMA AscendingLists ==
  ASSUME NEW n \in Nat, NEW I \in SUBSET (1 .. n)
  PROVE  IsAscending(Ascending(I), I) /\ Cardinality(I) \in Nat
<1> DEFINE c == Cardinality(I)
           Fits(f) == \A j, k \in DOMAIN f : j < k => f[j] < f[k]
<1>1. c \in Nat /\ \E f : IsAscending(f, I)  BY AscendingExists
<1>2. \E f \in [1 .. c -> I] : Fits(f)  BY <1>1 DEF IsAscending
<1>3. Ascending(I) = CHOOSE f \in [1 .. c -> I] : Fits(f)  BY DEF Ascending
<1>4. Ascending(I) \in [1 .. c -> I] /\ Fits(Ascending(I))  BY <1>2, <1>3
<1> QED  BY <1>1, <1>4 DEF IsAscending

\* An ascending list names each number once ...
LEMMA AscendingIsInjective ==
  ASSUME NEW I \in SUBSET Int, Cardinality(I) \in Nat, NEW at, IsAscending(at, I)
  PROVE  \A j, k \in 1 .. Cardinality(I) : at[j] = at[k] => j = k
<1> DEFINE c == Cardinality(I)
<1>1. at \in [1 .. c -> I] /\ \A j, k \in 1 .. c : j < k => at[j] < at[k]
  BY DEF IsAscending
<1>2. c \in Nat  OBVIOUS
<1> HIDE DEF c
<1> SUFFICES ASSUME NEW j \in 1 .. c, NEW k \in 1 .. c, at[j] = at[k] PROVE j = k
  BY DEF c
<1>3. at[j] \in Int  BY <1>1
<1>4. ~(at[j] < at[k]) /\ ~(at[k] < at[j])  BY <1>3
<1>5. ~(j < k) /\ ~(k < j)  BY <1>1, <1>4
<1> QED  BY <1>2, <1>5

\* ... and all of them.
LEMMA AscendingIsOnto ==
  ASSUME NEW I \in SUBSET Int, IsFiniteSet(I), NEW at, IsAscending(at, I)
  PROVE  \A x \in I : \E j \in 1 .. Cardinality(I) : at[j] = x
<1>1. Cardinality(I) \in Nat  BY FS_CardinalityType
<1>2. at \in Injection(1 .. Cardinality(I), I)
  BY <1>1, AscendingIsInjective DEF Injection, IsInjective, IsAscending
<1>3. Cardinality(1 .. Cardinality(I)) = Cardinality(I)  BY <1>1, FS_Interval
<1>4. at \in Surjection(1 .. Cardinality(I), I)  BY <1>2, <1>3, FS_Injection
<1> QED  BY <1>4 DEF Surjection

-----------------------------------------------------------------------------
\* A bounded set of natural numbers that is not empty has a greatest element.
LEMMA GreatestExists ==
  ASSUME NEW n \in Nat, NEW T \in SUBSET (0 .. n), T # {}
  PROVE  \E x \in T : \A y \in T : y <= x
<1> DEFINE D == {n - x : x \in T}
<1>1. D \in SUBSET Nat /\ D # {}
  <2>1. \A x \in T : n - x \in Nat  OBVIOUS
  <2> QED  BY <2>1
<1>2. PICK d \in D : \A e \in D : d <= e  BY <1>1, LeastExists
<1>3. PICK x \in T : d = n - x  OBVIOUS
<1>4. \A y \in T : n - x <= n - y  BY <1>2, <1>3
<1>5. \A y \in T : y <= x
  <2> TAKE y \in T
  <2>1. n - x <= n - y /\ x \in Int /\ y \in Int  BY <1>4
  <2> QED  BY <2>1
<1> QED  BY <1>5

\* Max of a bounded set is its greatest element.
LEMMA MaxIsGreatest ==
  ASSUME NEW n \in Nat, NEW T \in SUBSET (1 .. n), T # {}
  PROVE  Max(T) \in T /\ \A x \in T : x <= Max(T)
<1>1. T \in SUBSET (0 .. n)  OBVIOUS
<1>2. PICK m \in T : \A x \in T : x <= m  BY <1>1, GreatestExists
<1>3. \A x \in T : m >= x
   <2> TAKE x \in T
   <2>1. x <= m BY <1>2
   <2> QED BY <2>1
<1>4. Max(T) \in T /\ \A x \in T : Max(T) >= x  BY <1>3, Zenon DEF Max
<1>5. \A x \in T : x <= Max(T)
  <2> TAKE x \in T
  <2> DEFINE m2 == Max(T)
  <2>1. m2 >= x  BY <1>4
  <2>2. m2 \in T BY <1>4
  <2> HIDE DEF m2
  <2>3. x <= m2  BY <2>1, <2>2
  <2> QED  BY <2>3 DEF m2
<1> QED  BY <1>4, <1>5

\* The recursion over the subsets of 1 .. n that the folds of the community
\* modules are made of: its value on a set is step applied to its greatest element
\* and the value on the rest.
IsIteration(n, V, base, step, g) ==
  /\ g[{}] = base
  /\ \A s \in SUBSET (1 .. n) : \A m \in s :
       (\A x \in s : x <= m) /\ g[s \ {m}] \in V => g[s] = step[m, g[s \ {m}]]

\* Such a recursion has a solution.
LEMMA IterationExists ==
  ASSUME NEW n \in Nat, NEW V, NEW base \in V, NEW step \in [(1 .. n) \X V -> V]
  PROVE  \E g \in [SUBSET (1 .. n) -> V] : IsIteration(n, V, base, step, g)
<1> DEFINE P(k) == \E g \in [SUBSET (1 .. k) -> V] : IsIteration(k, V, base, step, g)
           T == {k \in Nat : k <= n /\ ~P(k)}
<1> SUFFICES P(n)  OBVIOUS
<1> HIDE DEF P
<1> SUFFICES ASSUME ~P(n) PROVE FALSE  OBVIOUS
<1>1. n \in T  OBVIOUS
<1>2. PICK k \in T : \A j \in T : k <= j  BY <1>1, LeastExists
<1>3. k # 0
  <2> SUFFICES ASSUME k = 0 PROVE FALSE  OBVIOUS
  <2> DEFINE g == [s \in SUBSET (1 .. k) |-> base]
  <2>1. g \in [SUBSET (1 .. k) -> V]  OBVIOUS
  <2>2. 1 .. k = {}  OBVIOUS
  <2>3. IsIteration(k, V, base, step, g)  BY <2>2 DEF IsIteration
  <2> QED  BY <1>2, <2>1, <2>3 DEF P
<1>4. k - 1 \in Nat /\ k \in 1 .. n /\ k - 1 <= n  BY <1>2, <1>3
<1>5. P(k - 1)
  <2>1. k - 1 \notin T
    <3> SUFFICES ASSUME k - 1 \in T PROVE FALSE  OBVIOUS
    <3>1. k <= k - 1  BY <1>2
    <3> QED  BY <1>4, <3>1
  <2> QED  BY <1>4, <2>1
<1>6. PICK h \in [SUBSET (1 .. k - 1) -> V] : IsIteration(k - 1, V, base, step, h)
  BY <1>5 DEF P
<1>7. ASSUME NEW s \in SUBSET (1 .. k)
      PROVE  /\ s \ {k} \in SUBSET (1 .. k - 1)
             /\ (k \notin s => s \in SUBSET (1 .. k - 1))
             /\ h[s \ {k}] \in V /\ (k \notin s => h[s] \in V)
  <2>1. s \ {k} \in SUBSET (1 .. k - 1)  BY <1>4
  <2>2. k \notin s => s \in SUBSET (1 .. k - 1)  BY <1>4
  <2> QED  BY <2>1, <2>2
<1> DEFINE g == [s \in SUBSET (1 .. k) |-> IF k \in s THEN step[k, h[s \ {k}]] ELSE h[s]]
<1>8. g \in [SUBSET (1 .. k) -> V]
  <2>1. ASSUME NEW s \in SUBSET (1 .. k)
        PROVE  (IF k \in s THEN step[k, h[s \ {k}]] ELSE h[s]) \in V
    <3>1. step[k, h[s \ {k}]] \in V  BY <1>4, <1>7
    <3> QED  BY <1>7, <3>1
  <2> QED  BY <2>1
<1>9. \A s \in SUBSET (1 .. k) : k \notin s => g[s] = h[s]  OBVIOUS
<1>10. \A s \in SUBSET (1 .. k) : k \in s => g[s] = step[k, h[s \ {k}]]  OBVIOUS
<1> HIDE DEF g
<1>11. g[{}] = base
  <2>1. {} \in SUBSET (1 .. k) /\ k \notin {}  OBVIOUS
  <2> QED  BY <1>6, <1>9, <2>1 DEF IsIteration
<1>12. ASSUME NEW s \in SUBSET (1 .. k), NEW m \in s, \A x \in s : x <= m
       PROVE  g[s] = step[m, g[s \ {m}]]
  <2>1. CASE k \in s
    <3>1. m = k  BY <1>4, <1>12, <2>1
    <3>2. g[s \ {k}] = h[s \ {k}]
      <4>1. s \ {k} \in SUBSET (1 .. k) /\ k \notin s \ {k}  OBVIOUS
      <4> QED  BY <1>9, <4>1
    <3> QED  BY <1>10, <2>1, <3>1, <3>2
  <2>2. CASE k \notin s
    <3>1. s \in SUBSET (1 .. k - 1) /\ s \ {m} \in SUBSET (1 .. k)  BY <1>7, <2>2
    <3>2. h[s] = step[m, h[s \ {m}]]  BY <1>6, <1>12, <3>1 DEF IsIteration
    <3>3. g[s] = h[s] /\ g[s \ {m}] = h[s \ {m}]  BY <1>9, <2>2, <3>1
    <3> QED  BY <3>2, <3>3
  <2> QED  BY <2>1, <2>2
<1>13. IsIteration(k, V, base, step, g)  BY <1>11, <1>12 DEF IsIteration
<1> QED  BY <1>2, <1>8, <1>13 DEF P

\* A loop from 1 to n, with the values before and after each round.
IsLoop(n, V, base, step, f, result) ==
  /\ f \in [0 .. n -> V] /\ f[0] = base /\ f[n] = result
  /\ \A k \in 1 .. n : f[k] = step[k, f[k - 1]]

\* Whatever satisfies such a recursion as far as the values of step go is, on the
\* initial segments, the loop that runs from 1 to n.
LEMMA IterationIsLoop ==
  ASSUME NEW n \in Nat, NEW V, NEW base \in V, NEW step \in [(1 .. n) \X V -> V],
         NEW g, IsIteration(n, V, base, step, g)
  PROVE  \E f : IsLoop(n, V, base, step, f, g[1 .. n])
<1> DEFINE f == [k \in 0 .. n |-> g[1 .. k]]
<1>1. f[0] = base
  <2>1. 1 .. 0 = {} /\ 0 \in 0 .. n  OBVIOUS
  <2> QED  BY <2>1 DEF IsIteration
<1>2. ASSUME NEW k \in 1 .. n, f[k - 1] \in V PROVE f[k] = step[k, f[k - 1]]
  <2>1. 1 .. k \in SUBSET (1 .. n) /\ k \in 1 .. k /\ \A x \in 1 .. k : x <= k
    OBVIOUS
  <2>2. (1 .. k) \ {k} = 1 .. k - 1  OBVIOUS
  <2>3. k \in 0 .. n /\ k - 1 \in 0 .. n  OBVIOUS
  <2>4. g[1 .. k - 1] \in V  BY <1>2, <2>3
  <2>5. g[1 .. k] = step[k, g[1 .. k - 1]]  BY <2>1, <2>2, <2>4 DEF IsIteration
  <2> QED  BY <2>3, <2>5
<1>3. f[n] = g[1 .. n]  OBVIOUS
<1> HIDE DEF f
<1>4. \A k \in 0 .. n : f[k] \in V
  <2> DEFINE T == {k \in Nat : k <= n /\ f[k] \notin V}
  <2> SUFFICES ASSUME T # {} PROVE FALSE  OBVIOUS
  <2>1. PICK k \in T : \A j \in T : k <= j  BY LeastExists
  <2>2. k # 0  BY <1>1
  <2>3. k - 1 \in Nat /\ k \in 1 .. n /\ k - 1 <= n /\ ~(k <= k - 1)  BY <2>1, <2>2
  <2>4. f[k - 1] \in V  BY <2>1, <2>3
  <2>5. f[k] = step[k, f[k - 1]]  BY <1>2, <2>3, <2>4
  <2>6. step[k, f[k - 1]] \in V  BY <2>3, <2>4
  <2> QED  BY <2>5, <2>6
<1>5. f \in [0 .. n -> V]  BY <1>4 DEF f
<1>6. \A k \in 1 .. n : f[k] = step[k, f[k - 1]]
  <2> TAKE k \in 1 .. n
  <2>1. k - 1 \in 0 .. n  OBVIOUS
  <2> QED  BY <1>2, <1>4, <2>1
<1> QED  BY <1>1, <1>3, <1>5, <1>6 DEF IsLoop

-----------------------------------------------------------------------------
\* A function from 1 to n is a sequence of length n.
LEMMA FunctionIsSeq ==
  ASSUME NEW T, NEW n \in Nat, NEW f \in [1 .. n -> T]
  PROVE  f \in Seq(T) /\ Len(f) = n
<1>1. f \in Seq(T)  BY SeqDef
<1>2. DOMAIN f = 1 .. n /\ DOMAIN f = 1 .. Len(f) /\ Len(f) \in Nat
  BY <1>1, LenProperties
<1> QED  BY <1>1, <1>2

\* The elements of a concatenation.
LEMMA ConcatIs ==
  ASSUME NEW T, NEW p \in Seq(T), NEW q \in Seq(T), NEW r, r = p \o q
  PROVE  /\ r \in Seq(T) /\ Len(r) = Len(p) + Len(q)
         /\ \A i \in 1 .. Len(p) : r[i] = p[i]
         /\ \A i \in Len(p) + 1 .. Len(p) + Len(q) : r[i] = q[i - Len(p)]
<1>1. Len(p) \in Nat /\ Len(q) \in Nat  BY LenProperties
<1>2. /\ r \in Seq(T) /\ Len(r) = Len(p) + Len(q)
      /\ \A i \in 1 .. Len(p) + Len(q) :
           r[i] = IF i <= Len(p) THEN p[i] ELSE q[i - Len(p)]
  BY ConcatProperties
<1> QED  BY <1>1, <1>2

=============================================================================
