--------------------------- MODULE WorkRangeProofs --------------------------
(***************************************************************************)
(* bm_work_range divides the tasks of a dispatch: for every number of      *)
(* threads and of tasks, each task belongs to exactly one thread.  Also    *)
(* the lemmas about numbers, sums, bounded loops and orders that the other *)
(* proofs share.                                                           *)
(***************************************************************************)
EXTENDS WorkRange, FiniteSets, FiniteSetTheorems, WellFoundedInduction, TLAPS

-----------------------------------------------------------------------------
(* Numbers.  Induction is stated for a set of numbers, which the provers   *)
(* can instantiate, and rests on the theorem that the finite sets are well *)
(* founded under strict inclusion: a number is the set of those below it.  *)

LEMMA LeastNumber ==
  ASSUME NEW T, T \subseteq Nat, T # {}
  PROVE  \E x \in T : \A y \in T : x <= y
<1> DEFINE R        == StrictSubsetOrdering(Nat)
           Below(x) == {i \in Nat : i < x}
           U        == {Below(x) : x \in T}
<1>1. IsWellFoundedOn(R, FiniteSubsetsOf(Nat))
  BY FS_StrictSubsetOrderingWellFounded
<1>2. \A x \in T : Below(x) \in FiniteSubsetsOf(Nat)
  <2> SUFFICES ASSUME NEW x \in T PROVE IsFiniteSet(Below(x))
    BY DEF FiniteSubsetsOf
  <2> QED
    BY FS_BoundedSetOfNaturals
<1>3. U \subseteq FiniteSubsetsOf(Nat) /\ U # {}
  BY <1>2
<1> HIDE DEF R
<1>4. PICK u \in U : \A v \in U : ~ (<<v, u>> \in R)
  BY <1>1, <1>3, WFMin
<1>5. PICK x \in T : u = Below(x)
  BY <1>4
<1>6. ASSUME NEW y \in T, y < x PROVE FALSE
  <2>1. Below(y) \in U
    OBVIOUS
  <2>2. x \in Nat /\ y \in Nat
    OBVIOUS
  <2>3. y \in Below(x) /\ y \notin Below(y) /\ Below(y) \subseteq Below(x)
    BY <1>6, <2>2
  <2>4. Below(x) \in SUBSET Nat /\ Below(y) \in SUBSET Nat
    OBVIOUS
  <2> HIDE DEF Below, U
  <2>5. <<Below(y), Below(x)>> \in R
    BY <2>3, <2>4 DEF R, StrictSubsetOrdering
  <2> QED
    BY <1>4, <1>5, <2>1, <2>5
<1> QED
  BY <1>5, <1>6

LEMMA SetInduction ==
  ASSUME NEW T, 0 \in T, \A k \in Nat : k \in T => k + 1 \in T
  PROVE  Nat \subseteq T
<1> SUFFICES ASSUME Nat \ T # {} PROVE FALSE
  OBVIOUS
<1>1. PICK x \in Nat \ T : \A y \in Nat \ T : x <= y
  BY LeastNumber
<1>2. x - 1 \in Nat /\ x - 1 \in T /\ x = (x - 1) + 1
  BY <1>1
<1> QED
  BY <1>1, <1>2

\* A function of the numbers may be defined by a first value and a step.
Follows(f, V, a, S) ==
  /\ f \in [Nat -> V] /\ f[0] = a
  /\ \A k \in Nat : f[k + 1] = S[k][f[k]]

LEMMA Recursion ==
  ASSUME NEW V, NEW a \in V, NEW S \in [Nat -> [V -> V]]
  PROVE  \E f : Follows(f, V, a, S)
<1> DEFINE Begins(m, f) == /\ f \in [0 .. m -> V] /\ f[0] = a
                           /\ \A k \in 0 .. m - 1 : f[k + 1] = S[k][f[k]]
           Known == {m \in Nat : \E f : Begins(m, f)}
<1>1. Nat \subseteq Known
  <2>1. 0 \in Known
    <3>1. Begins(0, [k \in 0 .. 0 |-> a])
      OBVIOUS
    <3> QED
      BY <3>1
  <2>2. ASSUME NEW m \in Nat, m \in Known PROVE m + 1 \in Known
    <3>1. PICK f : Begins(m, f)
      BY <2>2
    <3> DEFINE g == [k \in 0 .. m + 1 |-> IF k <= m THEN f[k] ELSE S[m][f[m]]]
    <3>2. f[m] \in V /\ S[m] \in [V -> V] /\ S[m][f[m]] \in V
      BY <3>1
    <3>3. g \in [0 .. m + 1 -> V] /\ g[0] = a
      BY <3>1, <3>2
    <3>4. ASSUME NEW k \in 0 .. m PROVE g[k + 1] = S[k][g[k]]
      <4>1. CASE k = m
        BY <3>1, <4>1
      <4>2. CASE k # m
        BY <3>1, <4>2
      <4> QED
        BY <4>1, <4>2
    <3>5. (m + 1) - 1 = m
      OBVIOUS
    <3> HIDE DEF g
    <3>6. Begins(m + 1, g)
      BY <3>3, <3>4, <3>5
    <3> QED
      BY <3>6
  <2> HIDE DEF Known
  <2> QED
    BY <2>1, <2>2, SetInduction
<1>2. ASSUME NEW m \in Nat, NEW n \in Nat, NEW f, NEW g,
             Begins(m, f), Begins(n, g)
      PROVE  \A k \in Nat : k <= m /\ k <= n => f[k] = g[k]
  <2> DEFINE Same == {k \in Nat : k <= m /\ k <= n => f[k] = g[k]}
  <2>1. 0 \in Same
    BY <1>2
  <2>2. ASSUME NEW k \in Nat, k \in Same PROVE k + 1 \in Same
    BY <1>2, <2>2
  <2>3. Nat \subseteq Same
    <3> HIDE DEF Same
    <3> QED
      BY <2>1, <2>2, SetInduction
  <2> QED
    BY <2>3
<1> DEFINE F(m) == CHOOSE f : Begins(m, f)
           h    == [k \in Nat |-> F(k)[k]]
<1>3. \A m \in Nat : Begins(m, F(m))
  BY <1>1
<1> HIDE DEF F
<1>4. h \in [Nat -> V] /\ h[0] = a
  BY <1>3
<1>5. ASSUME NEW k \in Nat PROVE h[k + 1] = S[k][h[k]]
  <2>1. Begins(k, F(k)) /\ Begins(k + 1, F(k + 1)) /\ k + 1 \in Nat
    BY <1>3
  <2> HIDE DEF Begins
  <2>2. F(k)[k] = F(k + 1)[k]
    BY <1>2, <2>1
  <2>3. F(k + 1)[k + 1] = S[k][F(k + 1)[k]]
    BY <2>1 DEF Begins
  <2> QED
    BY <2>2, <2>3
<1> HIDE DEF h
<1>6. Follows(h, V, a, S)
  BY <1>4, <1>5 DEF Follows
<1> QED
  BY <1>6

\* Division with remainder.
LEMMA Division ==
  ASSUME NEW k \in Nat, NEW n \in Nat \ {0}
  PROVE  /\ k \div n \in Nat /\ k % n \in 0 .. n - 1
         /\ k = n * (k \div n) + (k % n)
  OBVIOUS

LEMMA Product ==
  ASSUME NEW a \in Nat, NEW b \in Nat
  PROVE  a * b \in Nat
  OBVIOUS

\* Quotient and remainder are the only two such numbers.
LEMMA Digits ==
  ASSUME NEW n \in Nat \ {0}, NEW k \in Nat, NEW i \in 0 .. n - 1
  PROVE  (k * n + i) \div n = k /\ (k * n + i) % n = i
<1> DEFINE c == k * n + i
           q == c \div n
           r == c % n
<1>1. k * n \in Nat
  BY Product
<1>2. c \in Nat /\ c = k * n + i
  BY <1>1
<1> HIDE DEF c
<1>5. q \in Nat /\ r \in 0 .. n - 1 /\ c = n * q + r
  BY <1>2, Division
<1> HIDE DEF q, r
<1>3. q = k
  <2>1. CASE q > k
    <3>1. (q - k - 1) * n \in Nat
      BY <1>2, <1>5, <2>1, Product
    <3>2. n * q = k * n + (q - k - 1) * n + n
      BY <1>2, <1>5, <2>1
    <3> QED
      BY <1>1, <1>2, <1>5, <3>1, <3>2
  <2>2. CASE q < k
    <3>1. (k - q - 1) * n \in Nat
      BY <1>2, <1>5, <2>2, Product
    <3>2. k * n = n * q + (k - q - 1) * n + n
      BY <1>2, <1>5, <2>2
    <3>3. n * q \in Nat
      BY <1>2, <1>5, Product
    <3> QED
      BY <1>1, <1>2, <1>5, <3>1, <3>2, <3>3
  <2> QED
    BY <1>2, <1>5, <2>1, <2>2
<1>4. r = i
  <2>1. n * q = k * n
    BY <1>2, <1>5, <1>3
  <2> QED
    BY <1>1, <1>2, <1>5, <2>1
<1> QED
  BY <1>3, <1>4 DEF q, r, c

\* A finite set of numbers has a largest.
LEMMA LargestNumber ==
  ASSUME NEW T, T \subseteq Nat, T # {}, IsFiniteSet(T)
  PROVE  \E x \in T : \A y \in T : x >= y
<1> DEFINE Bounded == {k \in Nat : \A f \in [1 .. k -> Nat] :
                         \E m \in Nat : \A i \in 1 .. k : f[i] <= m}
           Bounds  == {m \in Nat : \A y \in T : y <= m}
<1>1. Nat \subseteq Bounded
  <2>1. 0 \in Bounded
    OBVIOUS
  <2>2. ASSUME NEW k \in Nat, k \in Bounded PROVE k + 1 \in Bounded
    <3>5. k + 1 \in Nat
      OBVIOUS
    <3> SUFFICES ASSUME NEW f \in [1 .. k + 1 -> Nat]
                 PROVE  \E m \in Nat : \A i \in 1 .. k + 1 : f[i] <= m
      BY <3>5, Zenon
    <3> DEFINE g == [i \in 1 .. k |-> f[i]]
    <3>1. g \in [1 .. k -> Nat]
      <4>1. \A i \in 1 .. k : i \in 1 .. k + 1
        OBVIOUS
      <4> QED
        BY <4>1
    <3>2. PICK m \in Nat : \A i \in 1 .. k : g[i] <= m
      BY <2>2, <3>1
    <3>3. \A i \in 1 .. k + 1 : f[i] <= m + f[k + 1]
      <4> SUFFICES ASSUME NEW i \in 1 .. k + 1 PROVE f[i] <= m + f[k + 1]
        OBVIOUS
      <4>1. f[i] \in Nat /\ f[k + 1] \in Nat
        OBVIOUS
      <4>2. CASE i = k + 1
        BY <4>1, <4>2
      <4>3. CASE i \in 1 .. k
        BY <3>2, <4>1, <4>3
      <4> QED
        BY <4>2, <4>3
    <3>4. m + f[k + 1] \in Nat
      OBVIOUS
    <3> QED
      BY <3>3, <3>4
  <2> HIDE DEF Bounded
  <2> QED
    BY <2>1, <2>2, SetInduction
<1>2. PICK k \in Nat : ExistsSurjection(1 .. k, T)
  BY FS_NatSurjection
<1>3. PICK f \in [1 .. k -> T] : \A y \in T : \E i \in 1 .. k : f[i] = y
  BY <1>2 DEF ExistsSurjection, Surjection
<1>4. Bounds # {}
  <2>1. f \in [1 .. k -> Nat]
    OBVIOUS
  <2>2. PICK m \in Nat : \A i \in 1 .. k : f[i] <= m
    BY <1>1, <2>1
  <2> QED
    BY <1>3, <2>2
<1>5. PICK m \in Bounds : \A b \in Bounds : m <= b
  <2>1. Bounds \subseteq Nat
    OBVIOUS
  <2> HIDE DEF Bounds
  <2> QED
    BY <1>4, <2>1, LeastNumber
<1>6. m \in T
  <2> SUFFICES ASSUME m \notin T PROVE FALSE
    OBVIOUS
  <2>1. \A y \in T : y < m
    OBVIOUS
  <2>2. m \in Nat /\ \E y \in T : y \in Nat /\ y < m
    BY <2>1
  <2>3. m - 1 \in Nat
    BY <2>2
  <2>4. ASSUME NEW y \in T PROVE y <= m - 1
    <3>1. y \in Nat /\ y < m
      BY <2>1
    <3> HIDE DEF Bounds
    <3> QED
      BY <2>2, <3>1
  <2> QED
    BY <1>5, <2>2, <2>3, <2>4
<1> QED
  BY <1>5, <1>6

\* The two branches of bm_work_range in one form: every thread has base
\* tasks, and the first ones one more.
Extra(t, e) == IF t < e THEN t ELSE e

LEMMA RangeForm ==
  ASSUME NEW n \in Nat \ {0}, NEW m \in Nat, NEW t \in 0 .. n - 1
  PROVE  LET b == m \div n
             e == m % n
         IN  /\ RangeStart(t, n, m) = t * b + Extra(t, e)
             /\ RangeEnd(t, n, m) = (t + 1) * b + Extra(t + 1, e)
<1> DEFINE b == m \div n
           e == m % n
<1>1. b \in Nat /\ e \in 0 .. n - 1
  BY Division
<1> HIDE DEF b, e
<1>2. /\ t * (b + 1) = t * b + t
      /\ e * (b + 1) + (t - e) * b = t * b + e
      /\ (t + 1) * b = t * b + b
  BY <1>1
<1>3. ~(t >= n)
  OBVIOUS
<1>4. RangeStart(t, n, m) = IF t < e THEN t * (b + 1)
                            ELSE e * (b + 1) + (t - e) * b
  BY <1>3 DEF RangeStart, b, e
<1>5. RangeEnd(t, n, m) = RangeStart(t, n, m) + (IF t < e THEN b + 1 ELSE b)
  BY <1>3 DEF RangeEnd, b, e
<1>6. t * b \in Nat
  BY <1>1, Product
<1>7. RangeStart(t, n, m) = t * b + Extra(t, e)
  BY <1>1, <1>2, <1>4 DEF Extra
<1>8. RangeEnd(t, n, m) = (t + 1) * b + Extra(t + 1, e)
  BY <1>1, <1>2, <1>5, <1>6, <1>7 DEF Extra
<1> QED
  BY <1>7, <1>8 DEF b, e

\* Two threads never share a task, whatever the numbers of threads and tasks
\* (rows in the kernels, elements in the scan).
THEOREM SharesDisjoint ==
  ASSUME NEW n \in Nat \ {0}, NEW m \in Nat,
         NEW t \in 0 .. n - 1, NEW u \in 0 .. n - 1, t < u
  PROVE  TaskRange(t, n, m) \cap TaskRange(u, n, m) = {}
<1> DEFINE b == m \div n
           e == m % n
<1>1. b \in Nat /\ e \in 0 .. n - 1
  BY Division
<1>2. /\ RangeEnd(t, n, m) = (t + 1) * b + Extra(t + 1, e)
      /\ RangeStart(u, n, m) = u * b + Extra(u, e)
      /\ RangeStart(t, n, m) = t * b + Extra(t, e)
      /\ RangeEnd(u, n, m) = (u + 1) * b + Extra(u + 1, e)
  BY RangeForm
<1> HIDE DEF b, e
<1>3. (u - (t + 1)) * b \in Nat
  BY <1>1, Product
<1>4. u * b = (t + 1) * b + (u - (t + 1)) * b
  BY <1>1
<1>5. /\ (t + 1) * b \in Nat /\ u * b \in Nat
      /\ t * b \in Nat /\ (u + 1) * b \in Nat
  BY <1>1, Product
<1>6. RangeEnd(t, n, m) <= RangeStart(u, n, m)
  BY <1>1, <1>2, <1>3, <1>4, <1>5 DEF Extra
<1> QED
  BY <1>1, <1>2, <1>5, <1>6 DEF TaskRange, Extra

\* A thread's share is of the dispatch's tasks.
LEMMA ShareWithin ==
  ASSUME NEW n \in Nat \ {0}, NEW m \in Nat, NEW t \in 0 .. n - 1
  PROVE  TaskRange(t, n, m) \subseteq 0 .. m - 1
<1> DEFINE b == m \div n
           e == m % n
<1>1. b \in Nat /\ e \in 0 .. n - 1 /\ m = n * b + e
  BY Division
<1>2. /\ RangeStart(t, n, m) = t * b + Extra(t, e)
      /\ RangeEnd(t, n, m) = (t + 1) * b + Extra(t + 1, e)
  BY RangeForm
<1> HIDE DEF b, e
<1>3. /\ t * b \in Nat /\ (t + 1) * b \in Nat
      /\ (n - (t + 1)) * b \in Nat
  BY <1>1, Product
<1>4. n * b = (t + 1) * b + (n - (t + 1)) * b
  BY <1>1
<1> QED
  BY <1>1, <1>2, <1>3, <1>4 DEF TaskRange, Extra

\* No task is left out.
THEOREM SharesCover ==
  ASSUME NEW n \in Nat \ {0}, NEW m \in Nat, NEW i \in 0 .. m - 1
  PROVE  \E t \in 0 .. n - 1 : i \in TaskRange(t, n, m)
<1> DEFINE b == m \div n
           e == m % n
<1>1. b \in Nat /\ e \in 0 .. n - 1 /\ m = n * b + e
  BY Division
<1>2. \A t \in 0 .. n - 1 :
        /\ RangeStart(t, n, m) = t * b + Extra(t, e)
        /\ RangeEnd(t, n, m) = (t + 1) * b + Extra(t + 1, e)
  BY RangeForm
<1> HIDE DEF b, e
<1>3. CASE i < e * (b + 1)
  <2> DEFINE t == i \div (b + 1)
  <2>1. t \in Nat /\ i = (b + 1) * t + (i % (b + 1)) /\ i % (b + 1) \in 0 .. b
    <3>1. b + 1 \in Nat \ {0} /\ i \in Nat /\ (b + 1) - 1 = b
      BY <1>1
    <3> QED
      BY <3>1, Division
  <2> HIDE DEF t
  <2>2. t < e
    <3> SUFFICES ASSUME t >= e PROVE FALSE
      BY <1>1, <2>1
    <3>1. (t - e) * (b + 1) \in Nat
      BY <1>1, <2>1, Product
    <3>2. (b + 1) * t = e * (b + 1) + (t - e) * (b + 1)
      BY <1>1, <2>1
    <3>3. e * (b + 1) \in Nat
      BY <1>1, Product
    <3> QED
      BY <1>1, <1>3, <2>1, <3>1, <3>2, <3>3
  <2>3. t \in 0 .. n - 1
    BY <1>1, <2>1, <2>2
  <2>4. (b + 1) * t = t * b + t /\ (t + 1) * b = t * b + b /\ t * b \in Nat
    BY <1>1, <2>1, Product
  <2>5. RangeStart(t, n, m) = t * b + t /\ RangeEnd(t, n, m) = t * b + b + t + 1
    BY <1>1, <1>2, <2>1, <2>2, <2>3, <2>4 DEF Extra
  <2> QED
    BY <1>1, <2>1, <2>3, <2>4, <2>5 DEF TaskRange
<1>4. CASE i >= e * (b + 1)
  <2>1. e * (b + 1) = e * b + e /\ e * b \in Nat /\ e * (b + 1) \in Nat
    BY <1>1, Product
  <2>2. b \in Nat \ {0}
    <3> SUFFICES ASSUME b = 0 PROVE FALSE
      BY <1>1
    <3>1. n * b = 0 /\ e * (b + 1) = e
      BY <1>1
    <3> QED
      BY <1>1, <1>4, <3>1
  <2> DEFINE r == i - e * (b + 1)
             q == r \div b
             t == e + q
  <2>3. r \in Nat
    BY <1>4, <2>1
  <2> HIDE DEF r
  <2>4. q \in Nat /\ r = b * q + (r % b) /\ r % b \in 0 .. b - 1
    BY <2>2, <2>3, Division
  <2> HIDE DEF q
  <2>5. b * q = q * b /\ q * b \in Nat
    BY <2>2, <2>4, Product
  <2>6. t * b = e * b + q * b /\ (t + 1) * b = t * b + b /\ t * b \in Nat
    BY <1>1, <2>4, Product
  <2>7. t < n
    <3> SUFFICES ASSUME t >= n PROVE FALSE
      BY <1>1, <2>4
    <3>1. (t - n) * b \in Nat
      BY <1>1, <2>4, Product
    <3>2. t * b = n * b + (t - n) * b
      BY <1>1, <2>4
    <3>3. n * b \in Nat
      BY <1>1, Product
    <3> QED
      BY <1>1, <2>1, <2>3, <2>4, <2>5, <2>6, <3>1, <3>2, <3>3 DEF r
  <2>8. RangeStart(t, n, m) = t * b + e /\ RangeEnd(t, n, m) = t * b + b + e
    BY <1>1, <1>2, <2>4, <2>6, <2>7, SMTT(30) DEF Extra
  <2> QED
    BY <1>1, <2>1, <2>3, <2>4, <2>5, <2>6, <2>7, <2>8 DEF TaskRange, r
<1>5. e * (b + 1) \in Nat
  BY <1>1, Product
<1> QED
  BY <1>3, <1>4, <1>5
\* Work stealing hands out the chunks 0, 1, ... below TotalChunks, each once:
\* every row lies in one of them, and in no other.
THEOREM ChunksPartition ==
  ASSUME NEW rows \in Nat, NEW cs \in Nat \ {0}, NEW r \in 0 .. rows - 1
  PROVE  /\ \E c \in 0 .. TotalChunks(rows, cs) - 1 : r \in ChunkRows(c, rows, cs)
         /\ \A c, d \in Nat : r \in ChunkRows(c, rows, cs)
                                 /\ r \in ChunkRows(d, rows, cs) => c = d
<1>1. ASSUME NEW c \in Nat, NEW d \in Nat, c < d,
             r \in ChunkRows(c, rows, cs), r \in ChunkRows(d, rows, cs)
      PROVE  FALSE
  <2>1. (d - (c + 1)) * cs \in Nat
    BY <1>1, Product
  <2>2. d * cs = (c + 1) * cs + (d - (c + 1)) * cs
    BY <1>1
  <2>3. d * cs \in Nat /\ c * cs \in Nat /\ (c + 1) * cs \in Nat
    BY <1>1, Product
  <2> QED
    BY <1>1, <2>1, <2>2, <2>3 DEF ChunkRows
<1>2. \E c \in 0 .. TotalChunks(rows, cs) - 1 : r \in ChunkRows(c, rows, cs)
  <2> DEFINE c == r \div cs
             k == TotalChunks(rows, cs)
  <2>1. c \in Nat /\ r = cs * c + (r % cs) /\ r % cs \in 0 .. cs - 1
    <3>1. r \in Nat
      OBVIOUS
    <3> QED
      BY <3>1, Division
  <2>2. rows + cs - 1 \in Nat
    OBVIOUS
  <2>3. /\ k \in Nat
        /\ rows + cs - 1 = cs * k + ((rows + cs - 1) % cs)
        /\ (rows + cs - 1) % cs \in 0 .. cs - 1
    BY <2>2, Division DEF TotalChunks
  <2> HIDE DEF c, k
  <2>4. cs * c = c * cs /\ c * cs \in Nat /\ (c + 1) * cs = c * cs + cs
    BY <2>1, Product
  <2>5. c < k
    <3> SUFFICES ASSUME c >= k PROVE FALSE
      BY <2>1, <2>3
    <3>1. (c - k) * cs \in Nat
      BY <2>1, <2>3, Product
    <3>2. cs * c = cs * k + (c - k) * cs
      BY <2>1, <2>3
    <3>3. cs * k \in Nat
      BY <2>3, Product
    <3> QED
      BY <2>1, <2>3, <3>1, <3>2, <3>3
  <2>6. r \in ChunkRows(c, rows, cs)
    BY <2>1, <2>4 DEF ChunkRows
  <2> QED
    BY <2>1, <2>3, <2>5, <2>6 DEF k
<1> QED
  BY <1>1, <1>2

-----------------------------------------------------------------------------
(* Sums.  SumFunction takes the elements of a domain in an order of its    *)
(* choice; what it returns does not depend on that order.                  *)

FirstOf(s) == CHOOSE x \in s : TRUE

\* g sums f over the subsets of D.
Sums(g, f, D) ==
  /\ g \in [SUBSET D -> Int]
  /\ \A s \in SUBSET D :
       g[s] = IF s = {} THEN 0 ELSE f[FirstOf(s)] + g[s \ {FirstOf(s)}]

LEMMA SmallerSet ==
  ASSUME NEW s, IsFiniteSet(s), NEW m \in Nat, Cardinality(s) = m + 1
  PROVE  /\ s # {} /\ FirstOf(s) \in s
         /\ \A x \in s : IsFiniteSet(s \ {x}) /\ Cardinality(s \ {x}) = m
<1>1. s # {}
  BY FS_EmptySet
<1>2. FirstOf(s) \in s
  BY <1>1 DEF FirstOf
<1>3. ASSUME NEW x \in s
      PROVE  IsFiniteSet(s \ {x}) /\ Cardinality(s \ {x}) = m
  BY FS_RemoveElement
<1> QED
  BY <1>1, <1>2, <1>3

\* The function SumFunction chooses exists.
LEMMA SumsExist ==
  ASSUME NEW D, IsFiniteSet(D), NEW f \in [D -> Int]
  PROVE  \E g : Sums(g, f, D)
<1> DEFINE V == [SUBSET D -> Int]
           a == [s \in SUBSET D |-> 0]
           Up(g) == [s \in SUBSET D |-> IF s = {} THEN 0
                                        ELSE f[FirstOf(s)] + g[s \ {FirstOf(s)}]]
           S == [m \in Nat |-> [g \in V |-> Up(g)]]
<1>1. ASSUME NEW g \in V PROVE Up(g) \in V
  <2> SUFFICES ASSUME NEW s \in SUBSET D, s # {}
               PROVE  f[FirstOf(s)] + g[s \ {FirstOf(s)}] \in Int
    OBVIOUS
  <2>1. FirstOf(s) \in D /\ s \ {FirstOf(s)} \in SUBSET D
    BY DEF FirstOf
  <2> QED
    BY <2>1
<1>2. a \in V /\ S \in [Nat -> [V -> V]]
  <2>1. a \in V
    OBVIOUS
  <2> HIDE DEF V, Up
  <2> QED
    BY <1>1, <2>1
<1>3. PICK h : Follows(h, V, a, S)
  <2> HIDE DEF V, a, S
  <2> QED
    BY <1>2, Recursion
<1>4. \A m \in Nat : h[m] \in V /\ h[m + 1] = Up(h[m])
  <2> HIDE DEF V, Up
  <2> QED
    BY <1>3 DEF Follows
<1>5. h[0] = a
  BY <1>3 DEF Follows
<1> DEFINE G == [s \in SUBSET D |-> h[Cardinality(s)][s]]
<1>6. \A s \in SUBSET D : IsFiniteSet(s) /\ Cardinality(s) \in Nat
  BY FS_Subset, FS_CardinalityType
<1>7. G \in [SUBSET D -> Int]
  BY <1>4, <1>6
<1>8. ASSUME NEW s \in SUBSET D
      PROVE  G[s] = IF s = {} THEN 0 ELSE f[FirstOf(s)] + G[s \ {FirstOf(s)}]
  <2>1. CASE s = {}
    <3>1. Cardinality(s) = 0
      BY <2>1, FS_EmptySet
    <3> QED
      BY <1>5, <2>1, <3>1
  <2>2. CASE s # {}
    <3> DEFINE m == Cardinality(s) - 1
    <3>1. m \in Nat /\ Cardinality(s) = m + 1
      BY <1>6, <2>2, FS_EmptySet
    <3>2. FirstOf(s) \in s /\ Cardinality(s \ {FirstOf(s)}) = m
      <4> HIDE DEF m
      <4> QED
        BY <1>6, <3>1, SmallerSet
    <3>3. s \ {FirstOf(s)} \in SUBSET D
      OBVIOUS
    <3>4. G[s \ {FirstOf(s)}] = h[m][s \ {FirstOf(s)}]
      BY <3>2, <3>3
    <3>5. G[s] = Up(h[m])[s]
      <4>1. G[s] = h[m + 1][s]
        BY <3>1
      <4> HIDE DEF m, Up
      <4> QED
        BY <1>4, <3>1, <4>1
    <3> QED
      BY <2>2, <3>4, <3>5
  <2> QED
    BY <2>1, <2>2
<1> HIDE DEF G
<1> QED
  BY <1>7, <1>8 DEF Sums

\* The element taken first does not matter.
LEMMA SumsAny ==
  ASSUME NEW D, IsFiniteSet(D), NEW f \in [D -> Int], NEW g, Sums(g, f, D),
         NEW s \in SUBSET D, NEW x \in s
  PROVE  g[s] = f[x] + g[s \ {x}]
<1> DEFINE Good == {m \in Nat : \A u \in SUBSET D : Cardinality(u) = m =>
                      \A y \in u : g[u] = f[y] + g[u \ {y}]}
<1>1. \A u \in SUBSET D : IsFiniteSet(u) /\ Cardinality(u) \in Nat
  BY FS_Subset, FS_CardinalityType
<1>2. 0 \in Good
  BY <1>1, FS_EmptySet
<1>3. ASSUME NEW m \in Nat, m \in Good PROVE m + 1 \in Good
  <2> SUFFICES ASSUME NEW u \in SUBSET D, Cardinality(u) = m + 1, NEW y \in u
               PROVE  g[u] = f[y] + g[u \ {y}]
    OBVIOUS
  <2> DEFINE z == FirstOf(u)
  <2>1. /\ u # {} /\ z \in u /\ IsFiniteSet(u)
        /\ Cardinality(u \ {z}) = m /\ Cardinality(u \ {y}) = m
    BY <1>1, SmallerSet
  <2>2. g[u] = f[z] + g[u \ {z}]
    BY <2>1 DEF Sums
  <2>3. CASE y = z
    BY <2>2, <2>3
  <2>4. CASE y # z
    <3> HIDE DEF z
    <3>1. /\ u \ {z} \in SUBSET D /\ u \ {y} \in SUBSET D
          /\ y \in u \ {z} /\ z \in u \ {y}
      BY <2>1, <2>4
    <3>2. g[u \ {z}] = f[y] + g[(u \ {z}) \ {y}]
      BY <1>3, <2>1, <3>1
    <3>3. g[u \ {y}] = f[z] + g[(u \ {y}) \ {z}]
      BY <1>3, <2>1, <3>1
    <3>4. (u \ {z}) \ {y} = (u \ {y}) \ {z}
      OBVIOUS
    <3>5. (u \ {z}) \ {y} \in SUBSET D
      OBVIOUS
    <3> DEFINE r == g[(u \ {z}) \ {y}]
    <3>6. f[z] \in Int /\ f[y] \in Int /\ r \in Int
      BY <2>1, <3>5 DEF Sums
    <3>7. g[u] = f[z] + (f[y] + r) /\ g[u \ {y}] = f[z] + r
      BY <2>2, <3>2, <3>3, <3>4
    <3> HIDE DEF r
    <3> QED
      BY <3>6, <3>7
  <2> QED
    BY <2>3, <2>4
<1>4. Nat \subseteq Good
  <2> HIDE DEF Good
  <2> QED
    BY <1>2, <1>3, SetInduction
<1> QED
  BY <1>1, <1>4

\* Functions that agree on a set have the same sum over it.
LEMMA SumsAgree ==
  ASSUME NEW D, IsFiniteSet(D), NEW f, NEW g, Sums(g, f, D),
         NEW E, IsFiniteSet(E), NEW e, NEW k, Sums(k, e, E),
         NEW s \in SUBSET D, s \in SUBSET E, \A x \in s : f[x] = e[x]
  PROVE  g[s] = k[s]
<1> DEFINE Good == {m \in Nat : \A u \in SUBSET s : Cardinality(u) = m =>
                      g[u] = k[u]}
<1>1. \A u \in SUBSET s : /\ IsFiniteSet(u) /\ Cardinality(u) \in Nat
                          /\ u \in SUBSET D /\ u \in SUBSET E
  BY FS_Subset, FS_CardinalityType
<1>2. 0 \in Good
  <2> SUFFICES ASSUME NEW u \in SUBSET s, Cardinality(u) = 0
               PROVE  g[u] = k[u]
    OBVIOUS
  <2>1. u = {}
    BY <1>1, FS_EmptySet
  <2> QED
    BY <1>1, <2>1 DEF Sums
<1>3. ASSUME NEW m \in Nat, m \in Good PROVE m + 1 \in Good
  <2> SUFFICES ASSUME NEW u \in SUBSET s, Cardinality(u) = m + 1
               PROVE  g[u] = k[u]
    OBVIOUS
  <2> DEFINE z == FirstOf(u)
  <2>1. u # {} /\ z \in u /\ Cardinality(u \ {z}) = m
    BY <1>1, SmallerSet
  <2> HIDE DEF z
  <2>2. g[u] = f[z] + g[u \ {z}] /\ k[u] = e[z] + k[u \ {z}]
    BY <1>1, <2>1 DEF Sums, z
  <2>3. g[u \ {z}] = k[u \ {z}] /\ f[z] = e[z]
    BY <1>3, <2>1
  <2> QED
    BY <2>2, <2>3
<1>4. Nat \subseteq Good
  <2> HIDE DEF Good
  <2> QED
    BY <1>2, <1>3, SetInduction
<1> QED
  BY <1>1, <1>4

LEMMA SumIs ==
  ASSUME NEW D, IsFiniteSet(D), NEW f \in [D -> Int]
  PROVE  \E g : Sums(g, f, D) /\ SumFunction(f) = g[D]
<1> DEFINE Def(g) == g = [s \in SUBSET D |->
                            IF s = {} THEN 0
                            ELSE f[CHOOSE x \in s : TRUE]
                                 + g[s \ {CHOOSE x \in s : TRUE}]]
           it == CHOOSE g : Def(g)
<1>1. PICK g : Sums(g, f, D)
  BY SumsExist
<1>2. Def(g)
  BY <1>1 DEF Sums, FirstOf
<1>3. Def(it)
  <2> HIDE DEF Def
  <2> QED
    BY <1>2
<1>4. SumFunction(f) = it[D]
  <2>1. DOMAIN f = D
    OBVIOUS
  <2> QED
    BY <2>1 DEF SumFunction, SumFunctionOnSet, FoldFunctionOnSet,
                MapThenFoldSet
<1> HIDE DEF it
<1>5. it = g
  <2> DEFINE Good == {m \in Nat : \A s \in SUBSET D :
                        Cardinality(s) = m => it[s] = g[s]}
  <2>1. \A s \in SUBSET D : IsFiniteSet(s) /\ Cardinality(s) \in Nat
    BY FS_Subset, FS_CardinalityType
  <2>2. 0 \in Good
    BY <1>2, <1>3, <2>1, FS_EmptySet
  <2>3. ASSUME NEW m \in Nat, m \in Good PROVE m + 1 \in Good
    <3> SUFFICES ASSUME NEW u \in SUBSET D, Cardinality(u) = m + 1
                 PROVE  it[u] = g[u]
      OBVIOUS
    <3> DEFINE z == FirstOf(u)
    <3>1. u # {} /\ z \in u /\ Cardinality(u \ {z}) = m
      BY <2>1, SmallerSet
    <3> HIDE DEF z
    <3>2. g[u] = f[z] + g[u \ {z}] /\ it[u] = f[z] + it[u \ {z}]
      BY <1>2, <1>3, <3>1 DEF z, FirstOf
    <3> QED
      BY <2>3, <3>1, <3>2
  <2>4. Nat \subseteq Good
    <3> HIDE DEF Good
    <3> QED
      BY <2>2, <2>3, SetInduction
  <2>5. ASSUME NEW s \in SUBSET D PROVE it[s] = g[s]
    BY <2>1, <2>4
  <2> QED
    BY <1>2, <1>3, <2>5
<1> QED
  BY <1>1, <1>4, <1>5

LEMMA SumEmpty ==
  ASSUME NEW f \in [{} -> Int]
  PROVE  SumFunction(f) = 0
<1>1. PICK g : Sums(g, f, {}) /\ SumFunction(f) = g[{}]
  BY FS_EmptySet, SumIs
<1> QED
  BY <1>1 DEF Sums

\* One element is taken out of a sum.
LEMMA SumSplit ==
  ASSUME NEW D, IsFiniteSet(D), NEW f \in [D -> Int], NEW x \in D
  PROVE  /\ SumFunction(f) \in Int
         /\ SumFunction(f) = f[x] + SumFunction([y \in D \ {x} |-> f[y]])
<1> DEFINE E == D \ {x}
           e == [y \in E |-> f[y]]
<1>1. PICK g : Sums(g, f, D) /\ SumFunction(f) = g[D]
  BY SumIs
<1>2. IsFiniteSet(E) /\ e \in [E -> Int]
  BY FS_RemoveElement
<1> HIDE DEF e, E
<1>3. PICK k : Sums(k, e, E) /\ SumFunction(e) = k[E]
  BY <1>2, SumIs
<1>4. E \in SUBSET D /\ E \in SUBSET E /\ \A y \in E : f[y] = e[y]
  BY DEF E, e
<1>5. g[E] = k[E]
  BY <1>1, <1>2, <1>3, <1>4, SumsAgree
<1>6. g[D] = f[x] + g[E]
  BY <1>1, SumsAny DEF E
<1>7. g[D] \in Int
  BY <1>1 DEF Sums
<1> QED
  BY <1>1, <1>3, <1>5, <1>6, <1>7 DEF e, E

\* The sum of f from a up to b - 1.
SumOf(f, a, b) == SumFunction([i \in a .. b - 1 |-> f[i]])

LEMMA SumNone == ASSUME NEW f, NEW a \in Int PROVE SumOf(f, a, a) = 0
<1>1. a .. a - 1 = {}
  OBVIOUS
<1>2. [i \in a .. a - 1 |-> f[i]] \in [{} -> Int]
  BY <1>1
<1> QED
  BY <1>2, SumEmpty DEF SumOf

LEMMA SumNext ==
  ASSUME NEW a \in Int, NEW b \in Int, a <= b,
         NEW f, \A i \in a .. b : f[i] \in Int
  PROVE  /\ SumOf(f, a, b + 1) \in Int /\ SumOf(f, a, b) \in Int
         /\ SumOf(f, a, b + 1) = SumOf(f, a, b) + f[b]
<1> DEFINE D == a .. b
           e == [i \in D |-> f[i]]
           r == [i \in a .. b - 1 |-> f[i]]
<1>1. (b + 1) - 1 = b
  OBVIOUS
<1>2. IsFiniteSet(D) /\ e \in [D -> Int] /\ b \in D
  BY FS_Interval
<1>3. D \ {b} = a .. b - 1
  OBVIOUS
<1>4. [i \in D \ {b} |-> e[i]] = r
  BY <1>3
<1>5. e[b] = f[b] /\ f[b] \in Int
  BY <1>2
<1>6. SumFunction(e) \in Int /\ SumFunction(e) = f[b] + SumFunction(r)
  <2> HIDE DEF e, r, D
  <2>1. /\ SumFunction(e) \in Int
        /\ SumFunction(e) = e[b] + SumFunction([i \in D \ {b} |-> e[i]])
    BY <1>2, SumSplit, ZenonT(60)
  <2> QED
    BY <1>4, <1>5, <2>1
<1>7. SumFunction(r) \in Int
  <2>1. IsFiniteSet(a .. b - 1) /\ r \in [a .. b - 1 -> Int]
    BY FS_Interval
  <2> HIDE DEF r
  <2>2. PICK g : Sums(g, r, a .. b - 1) /\ SumFunction(r) = g[a .. b - 1]
    BY <2>1, SumIs
  <2> QED
    BY <2>2 DEF Sums
<1>8. SumOf(f, a, b + 1) = SumFunction(e) /\ SumOf(f, a, b) = SumFunction(r)
  BY <1>1 DEF SumOf
<1> HIDE DEF e, r, D
<1> QED
  BY <1>5, <1>6, <1>7, <1>8

LEMMA SumInt ==
  ASSUME NEW a \in Int, NEW b \in Int, a <= b,
         NEW f, \A i \in a .. b - 1 : f[i] \in Int
  PROVE  SumOf(f, a, b) \in Int
<1>1. CASE a = b
  BY <1>1, SumNone
<1>2. CASE a < b
  <2>1. b - 1 \in Int /\ a <= b - 1 /\ (b - 1) + 1 = b
    BY <1>2
  <2> QED
    BY <2>1, SumNext
<1> QED
  BY <1>1, <1>2

LEMMA SumJoin ==
  ASSUME NEW a \in Int, NEW b \in Int, NEW z \in Int, a <= b, b <= z,
         NEW f, \A i \in a .. z - 1 : f[i] \in Int
  PROVE  SumOf(f, a, z) = SumOf(f, a, b) + SumOf(f, b, z)
<1> DEFINE n == z - b
           Good == {m \in Nat : m <= n =>
                      SumOf(f, a, b + m) = SumOf(f, a, b) + SumOf(f, b, b + m)}
<1>1. 0 \in Good
  <2>1. SumOf(f, b, b) = 0
    BY SumNone
  <2>2. SumOf(f, a, b) \in Int
    BY SumInt
  <2>3. b + 0 = b
    OBVIOUS
  <2> QED
    BY <2>1, <2>2, <2>3
<1>2. ASSUME NEW m \in Nat, m \in Good PROVE m + 1 \in Good
  <2> SUFFICES ASSUME m + 1 <= n
               PROVE  SumOf(f, a, b + (m + 1))
                        = SumOf(f, a, b) + SumOf(f, b, b + (m + 1))
    OBVIOUS
  <2>1. /\ b + m \in Int /\ a <= b + m /\ b <= b + m /\ b + (m + 1) = (b + m) + 1
        /\ \A i \in a .. b + m : f[i] \in Int
        /\ \A i \in b .. b + m : f[i] \in Int
        /\ \A i \in a .. b - 1 : f[i] \in Int
    OBVIOUS
  <2>2. /\ SumOf(f, a, (b + m) + 1) = SumOf(f, a, b + m) + f[b + m]
        /\ SumOf(f, b, (b + m) + 1) = SumOf(f, b, b + m) + f[b + m]
        /\ SumOf(f, a, b + m) \in Int /\ SumOf(f, b, b + m) \in Int
    BY <2>1, SumNext
  <2>3. f[b + m] \in Int
    BY <2>1
  <2>4. SumOf(f, a, b + m) = SumOf(f, a, b) + SumOf(f, b, b + m)
    BY <1>2
  <2>5. SumOf(f, a, b) \in Int
    BY <2>1, SumInt
  <2> QED
    BY <2>1, <2>2, <2>3, <2>4, <2>5
<1>3. Nat \subseteq Good
  <2> HIDE DEF Good
  <2> QED
    BY <1>1, <1>2, SetInduction
<1>4. n \in Good /\ b + n = z
  BY <1>3
<1> QED
  BY <1>4

\* Four elements.
LEMMA SumFour ==
  ASSUME NEW a \in Int, NEW f, \A i \in a .. a + 3 : f[i] \in Int
  PROVE  /\ SumOf(f, a, a + 4) \in Int
         /\ SumOf(f, a, a + 4) = f[a] + f[a + 1] + f[a + 2] + f[a + 3]
<1>1. /\ f[a] \in Int /\ f[a + 1] \in Int /\ f[a + 2] \in Int /\ f[a + 3] \in Int
  OBVIOUS
<1>2. SumOf(f, a, a + 1) = f[a]
  <2>1. SumOf(f, a, a + 1) = SumOf(f, a, a) + f[a]
    BY SumNext
  <2> QED
    BY <1>1, <2>1, SumNone
<1>3. SumOf(f, a, (a + 1) + 1) = SumOf(f, a, a + 1) + f[a + 1]
  <2>1. a + 1 \in Int /\ a <= a + 1 /\ \A i \in a .. a + 1 : f[i] \in Int
    OBVIOUS
  <2> QED
    BY <2>1, SumNext
<1>4. SumOf(f, a, (a + 2) + 1) = SumOf(f, a, a + 2) + f[a + 2]
  <2>1. a + 2 \in Int /\ a <= a + 2 /\ \A i \in a .. a + 2 : f[i] \in Int
    OBVIOUS
  <2> QED
    BY <2>1, SumNext
<1>5. SumOf(f, a, (a + 3) + 1) = SumOf(f, a, a + 3) + f[a + 3]
  <2>1. a + 3 \in Int /\ a <= a + 3 /\ \A i \in a .. a + 3 : f[i] \in Int
    OBVIOUS
  <2> QED
    BY <2>1, SumNext
<1>6. (a + 1) + 1 = a + 2 /\ (a + 2) + 1 = a + 3 /\ (a + 3) + 1 = a + 4
  OBVIOUS
<1> QED
  BY <1>1, <1>2, <1>3, <1>4, <1>5, <1>6

\* Sixteen elements.
LEMMA SumSixteen ==
  ASSUME NEW a \in Int, NEW f, \A i \in a .. a + 15 : f[i] \in Int
  PROVE  /\ SumOf(f, a, a + 16) \in Int
         /\ SumOf(f, a, a + 16)
              = f[a] + f[a + 1] + f[a + 2] + f[a + 3]
                + (f[a + 4] + f[a + 5] + f[a + 6] + f[a + 7])
                + (f[a + 8] + f[a + 9] + f[a + 10] + f[a + 11])
                + (f[a + 12] + f[a + 13] + f[a + 14] + f[a + 15])
<1> DEFINE Four(i) == f[i] + f[i + 1] + f[i + 2] + f[i + 3]
<1>1. ASSUME NEW i \in {a, a + 4, a + 8, a + 12}
      PROVE  /\ SumOf(f, i, i + 4) \in Int
             /\ SumOf(f, i, i + 4) = Four(i)
  BY SumFour
<1>2. SumOf(f, a, (a + 4) + 4) = SumOf(f, a, a + 4) + SumOf(f, a + 4, (a + 4) + 4)
  BY SumJoin
<1>3. SumOf(f, a, (a + 8) + 4) = SumOf(f, a, a + 8) + SumOf(f, a + 8, (a + 8) + 4)
  BY SumJoin
<1>4. SumOf(f, a, (a + 12) + 4)
        = SumOf(f, a, a + 12) + SumOf(f, a + 12, (a + 12) + 4)
  BY SumJoin
<1>5. /\ (a + 4) + 4 = a + 8 /\ (a + 8) + 4 = a + 12 /\ (a + 12) + 4 = a + 16
  OBVIOUS
<1> HIDE DEF Four
<1>6. /\ SumOf(f, a, a + 16) \in Int
      /\ SumOf(f, a, a + 16) = Four(a) + Four(a + 4) + Four(a + 8) + Four(a + 12)
  BY <1>1, <1>2, <1>3, <1>4, <1>5
<1>7. /\ Four(a + 4) = f[a + 4] + f[a + 5] + f[a + 6] + f[a + 7]
      /\ Four(a + 8) = f[a + 8] + f[a + 9] + f[a + 10] + f[a + 11]
      /\ Four(a + 12) = f[a + 12] + f[a + 13] + f[a + 14] + f[a + 15]
  BY DEF Four
<1> QED
  BY <1>6, <1>7 DEF Four

\* Thirty-two elements.
LEMMA SumThirtyTwo ==
  ASSUME NEW a \in Int, NEW f, \A i \in a .. a + 31 : f[i] \in Int
  PROVE  SumOf(f, a, a + 32)
           = f[a + 0] + f[a + 1] + f[a + 2] + f[a + 3]
             + (f[a + 4] + f[a + 5] + f[a + 6] + f[a + 7])
             + (f[a + 8] + f[a + 9] + f[a + 10] + f[a + 11])
             + (f[a + 12] + f[a + 13] + f[a + 14] + f[a + 15])
             + (f[a + 16] + f[a + 17] + f[a + 18] + f[a + 19]
                + (f[a + 20] + f[a + 21] + f[a + 22] + f[a + 23])
                + (f[a + 24] + f[a + 25] + f[a + 26] + f[a + 27])
                + (f[a + 28] + f[a + 29] + f[a + 30] + f[a + 31]))
<1> DEFINE b == a + 16
<1>1. /\ b \in Int /\ a <= b /\ b <= b + 16 /\ b + 16 \in Int
      /\ \A i \in b .. b + 15 : f[i] \in Int
      /\ \A i \in a .. a + 15 : f[i] \in Int
      /\ \A i \in a .. (b + 16) - 1 : f[i] \in Int
  OBVIOUS
<1>2. /\ a = a + 0 /\ b = a + 16 /\ b + 1 = a + 17 /\ b + 2 = a + 18
      /\ b + 3 = a + 19 /\ b + 4 = a + 20 /\ b + 5 = a + 21 /\ b + 6 = a + 22
      /\ b + 7 = a + 23 /\ b + 8 = a + 24 /\ b + 9 = a + 25 /\ b + 10 = a + 26
      /\ b + 11 = a + 27 /\ b + 12 = a + 28 /\ b + 13 = a + 29
      /\ b + 14 = a + 30 /\ b + 15 = a + 31 /\ b + 16 = a + 32
  OBVIOUS
<1> HIDE DEF b
<1>3. SumOf(f, a, b + 16) = SumOf(f, a, b) + SumOf(f, b, b + 16)
  BY <1>1, SumJoin
<1>4. SumOf(f, b, b + 16)
        = f[b] + f[b + 1] + f[b + 2] + f[b + 3]
          + (f[b + 4] + f[b + 5] + f[b + 6] + f[b + 7])
          + (f[b + 8] + f[b + 9] + f[b + 10] + f[b + 11])
          + (f[b + 12] + f[b + 13] + f[b + 14] + f[b + 15])
  BY <1>1, SumSixteen
<1>5. SumOf(f, a, a + 16)
        = f[a] + f[a + 1] + f[a + 2] + f[a + 3]
          + (f[a + 4] + f[a + 5] + f[a + 6] + f[a + 7])
          + (f[a + 8] + f[a + 9] + f[a + 10] + f[a + 11])
          + (f[a + 12] + f[a + 13] + f[a + 14] + f[a + 15])
  BY <1>1, SumSixteen
<1> QED
  BY <1>2, <1>3, <1>4, <1>5

\* A sum by groups of four.
LEMMA SumGroups ==
  ASSUME NEW a \in Int, NEW n \in Nat, NEW f,
         \A i \in a .. a + 4 * n - 1 : f[i] \in Int,
         NEW G, \A i \in 1 .. n :
                  G[i] = f[a + 4 * (i - 1)] + f[a + 4 * (i - 1) + 1]
                         + f[a + 4 * (i - 1) + 2] + f[a + 4 * (i - 1) + 3]
  PROVE  SumOf(G, 1, n + 1) = SumOf(f, a, a + 4 * n)
<1> DEFINE Good == {m \in Nat : m <= n =>
                      SumOf(G, 1, m + 1) = SumOf(f, a, a + 4 * m)}
<1>1. 0 \in Good
  <2>1. SumOf(G, 1, 1) = 0 /\ SumOf(f, a, a) = 0
    BY SumNone
  <2>2. 0 + 1 = 1 /\ a + 4 * 0 = a
    OBVIOUS
  <2> QED
    BY <2>1, <2>2
<1>2. ASSUME NEW m \in Nat, m \in Good PROVE m + 1 \in Good
  <2> SUFFICES ASSUME m + 1 <= n
               PROVE  SumOf(G, 1, (m + 1) + 1) = SumOf(f, a, a + 4 * (m + 1))
    OBVIOUS
  <2> DEFINE b == a + 4 * m
  <2>1. /\ b \in Int /\ a <= b /\ b + 4 = a + 4 * (m + 1)
        /\ a + 4 * ((m + 1) - 1) = b
        /\ \A i \in a .. b + 4 - 1 : f[i] \in Int
        /\ \A i \in b .. b + 3 : f[i] \in Int
    OBVIOUS
  <2>2. \A i \in 1 .. m + 1 : G[i] \in Int
    <3> SUFFICES ASSUME NEW i \in 1 .. m + 1 PROVE G[i] \in Int
      OBVIOUS
    <3> DEFINE o == a + 4 * (i - 1)
    <3>1. \A j \in 0 .. 3 : o + j \in a .. a + 4 * n - 1
      OBVIOUS
    <3>2. o = o + 0 /\ o \in Int
      OBVIOUS
    <3> HIDE DEF o
    <3>3. f[o] \in Int /\ f[o + 1] \in Int /\ f[o + 2] \in Int /\ f[o + 3] \in Int
      BY <3>1, <3>2
    <3>4. G[i] = f[o] + f[o + 1] + f[o + 2] + f[o + 3]
      BY DEF o
    <3> QED
      BY <3>3, <3>4
  <2>3. /\ SumOf(G, 1, (m + 1) + 1) = SumOf(G, 1, m + 1) + G[m + 1]
        /\ SumOf(G, 1, m + 1) \in Int
    BY <2>2, SumNext
  <2>4. G[m + 1] = f[b] + f[b + 1] + f[b + 2] + f[b + 3]
    <3>1. m + 1 \in 1 .. n
      OBVIOUS
    <3> QED
      BY <2>1, <3>1
  <2> HIDE DEF b
  <2>5. SumOf(f, a, b + 4) = SumOf(f, a, b) + SumOf(f, b, b + 4)
    <3>1. b + 4 \in Int /\ b <= b + 4
      BY <2>1
    <3> QED
      BY <2>1, <3>1, SumJoin
  <2>6. SumOf(f, b, b + 4) = f[b] + f[b + 1] + f[b + 2] + f[b + 3]
    BY <2>1, SumFour
  <2>7. SumOf(G, 1, m + 1) = SumOf(f, a, b)
    BY <1>2 DEF b
  <2> QED
    BY <2>1, <2>3, <2>4, <2>5, <2>6, <2>7
<1>3. Nat \subseteq Good
  <2> HIDE DEF Good
  <2> QED
    BY <1>1, <1>2, SetInduction
<1> QED
  BY <1>3

-----------------------------------------------------------------------------
(* Finite sets, bounded loops and orders.                                  *)

\* A smaller set has no element the larger one lacks, and one less at least
\* if it lacks one.
LEMMA Fewer ==
  ASSUME NEW T, IsFiniteSet(T), NEW U \in SUBSET T
  PROVE  /\ IsFiniteSet(U) /\ Cardinality(U) \in Nat /\ Cardinality(T) \in Nat
         /\ Cardinality(U) <= Cardinality(T)
         /\ \A x \in T : x \notin U => Cardinality(U) < Cardinality(T)
BY FS_Subset, FS_CardinalityType

\* A function has a largest value on a finite set.
LEMMA LargestValue ==
  ASSUME NEW D, IsFiniteSet(D), D # {}, NEW f \in [D -> Int]
  PROVE  \E x \in D : \A y \in D : f[y] <= f[x]
<1> DEFINE Good == {m \in Nat : \A u \in SUBSET D : Cardinality(u) = m + 1 =>
                      \E x \in u : \A y \in u : f[y] <= f[x]}
<1>1. \A u \in SUBSET D : IsFiniteSet(u) /\ Cardinality(u) \in Nat
  BY FS_Subset, FS_CardinalityType
<1>2. 0 \in Good
  <2> SUFFICES ASSUME NEW u \in SUBSET D, Cardinality(u) = 1
               PROVE  \E x \in u : \A y \in u : f[y] <= f[x]
    OBVIOUS
  <2>1. PICK x : u = {x}
    BY <1>1, FS_Singleton
  <2> QED
    BY <2>1
<1>3. ASSUME NEW m \in Nat, m \in Good PROVE m + 1 \in Good
  <2> SUFFICES ASSUME NEW u \in SUBSET D, Cardinality(u) = (m + 1) + 1
               PROVE  \E x \in u : \A y \in u : f[y] <= f[x]
    OBVIOUS
  <2> DEFINE z == FirstOf(u)
  <2>1. z \in u /\ Cardinality(u \ {z}) = m + 1
    BY <1>1, SmallerSet
  <2> HIDE DEF z
  <2>2. PICK x \in u \ {z} : \A y \in u \ {z} : f[y] <= f[x]
    BY <1>3, <2>1
  <2>3. CASE f[z] <= f[x]
    BY <2>2, <2>3
  <2>4. CASE ~(f[z] <= f[x])
    <3>1. \A y \in u : f[y] <= f[z]
      BY <2>1, <2>2, <2>4
    <3> QED
      BY <2>1, <3>1
  <2> QED
    BY <2>3, <2>4
<1>4. Nat \subseteq Good
  <2> HIDE DEF Good
  <2> QED
    BY <1>2, <1>3, SetInduction
<1>5. Cardinality(D) \in Nat /\ Cardinality(D) # 0
  BY FS_CardinalityType, FS_EmptySet
<1>6. Cardinality(D) - 1 \in Nat /\ Cardinality(D) = (Cardinality(D) - 1) + 1
  BY <1>5
<1> QED
  BY <1>4, <1>6

\* f is v at a, and a step of S from one number to the next, up to b.
LoopIs(f, V, v, a, b, S) ==
  /\ f \in [a .. b -> V] /\ f[a] = v
  /\ \A m \in a + 1 .. b : f[m] = S[m][f[m - 1]]

LEMMA LoopExists ==
  ASSUME NEW V, NEW v \in V, NEW a \in Int, NEW b \in Int, a <= b,
         NEW S \in [a + 1 .. b -> [V -> V]]
  PROVE  \E f : LoopIs(f, V, v, a, b, S)
<1> DEFINE T == [k \in Nat |-> IF a + k + 1 <= b THEN S[a + k + 1]
                               ELSE [x \in V |-> x]]
<1>1. T \in [Nat -> [V -> V]]
  OBVIOUS
<1>2. \A k \in Nat : a + k + 1 <= b => T[k] = S[a + k + 1]
  OBVIOUS
<1> HIDE DEF T
<1>3. PICK g : Follows(g, V, v, T)
  BY <1>1, Recursion
<1>4. g \in [Nat -> V] /\ g[0] = v /\ \A k \in Nat : g[k + 1] = T[k][g[k]]
  BY <1>3 DEF Follows
<1> DEFINE f == [m \in a .. b |-> g[m - a]]
<1>5. f \in [a .. b -> V] /\ f[a] = v
  BY <1>4
<1>6. ASSUME NEW m \in a + 1 .. b PROVE f[m] = S[m][f[m - 1]]
  <2>1. /\ m - 1 - a \in Nat /\ (m - 1 - a) + 1 = m - a
        /\ a + (m - 1 - a) + 1 = m /\ m <= b
        /\ m \in a .. b /\ m - 1 \in a .. b
    OBVIOUS
  <2>2. f[m] = g[m - a] /\ f[m - 1] = g[m - 1 - a]
    BY <2>1
  <2>3. g[m - a] = T[m - 1 - a][g[m - 1 - a]]
    BY <1>4, <2>1
  <2>4. T[m - 1 - a] = S[m]
    BY <1>2, <2>1
  <2> QED
    BY <2>2, <2>3, <2>4
<1> HIDE DEF f
<1> QED
  BY <1>5, <1>6 DEF LoopIs

LEMMA IntervalInduction ==
  ASSUME NEW a \in Int, NEW b \in Int, NEW P, a \in P,
         \A m \in a + 1 .. b : m - 1 \in P => m \in P
  PROVE  a .. b \subseteq P
<1> DEFINE Good == {k \in Nat : a + k <= b => a + k \in P}
<1>1. 0 \in Good
  OBVIOUS
<1>2. ASSUME NEW k \in Nat, k \in Good PROVE k + 1 \in Good
  <2> SUFFICES ASSUME a + (k + 1) <= b PROVE a + (k + 1) \in P
    OBVIOUS
  <2>1. a + (k + 1) \in a + 1 .. b /\ a + (k + 1) - 1 = a + k /\ a + k <= b
    OBVIOUS
  <2> QED
    BY <1>2, <2>1
<1>3. Nat \subseteq Good
  <2> HIDE DEF Good
  <2> QED
    BY <1>1, <1>2, SetInduction
<1> SUFFICES ASSUME NEW m \in a .. b PROVE m \in P
  OBVIOUS
<1>4. m - a \in Nat /\ a + (m - a) = m /\ m <= b
  OBVIOUS
<1> QED
  BY <1>3, <1>4

\* What a bijection is.
LEMMA BijectionIs ==
  ASSUME NEW E, NEW D, NEW p
  PROVE  p \in Bijection(E, D) <=>
           /\ p \in [E -> D]
           /\ \A a, b \in E : p[a] = p[b] => a = b
           /\ \A d \in D : \E e \in E : p[e] = d
BY Zenon DEF Bijection, Injection, Surjection, IsInjective

LEMMA SumTyped ==
  ASSUME NEW D, IsFiniteSet(D), NEW f \in [D -> Int]
  PROVE  SumFunction(f) \in Int
<1>1. PICK g : Sums(g, f, D) /\ SumFunction(f) = g[D]
  BY SumIs
<1> QED
  BY <1>1 DEF Sums

\* A sum does not depend on the order of its terms.
Reindexed(f, p, E) == [e \in E |-> f[p[e]]]

LEMMA SumReindex ==
  ASSUME NEW D, IsFiniteSet(D), NEW E, IsFiniteSet(E),
         NEW p \in Bijection(E, D), NEW f \in [D -> Int]
  PROVE  SumFunction(Reindexed(f, p, E)) = SumFunction(f)
<1> DEFINE Im(u) == {p[e] : e \in u}
           G(u)  == [e \in u |-> f[p[e]]]
           H(u)  == [d \in Im(u) |-> f[d]]
           Good  == {m \in Nat : \A u \in SUBSET E : Cardinality(u) = m =>
                       SumFunction(G(u)) = SumFunction(H(u))}
<1>1. /\ p \in [E -> D] /\ \A a, b \in E : p[a] = p[b] => a = b
      /\ \A d \in D : \E e \in E : p[e] = d
  BY BijectionIs
<1>2. \A u \in SUBSET E : IsFiniteSet(u) /\ Cardinality(u) \in Nat
  BY FS_Subset, FS_CardinalityType
<1>3. \A u \in SUBSET E : Im(u) \in SUBSET D /\ IsFiniteSet(Im(u))
  BY <1>1, FS_Subset
<1>4. \A u \in SUBSET E : G(u) \in [u -> Int] /\ H(u) \in [Im(u) -> Int]
  <2> SUFFICES ASSUME NEW u \in SUBSET E
               PROVE  G(u) \in [u -> Int] /\ H(u) \in [Im(u) -> Int]
    OBVIOUS
  <2>1. \A e \in u : f[p[e]] \in Int
    BY <1>1
  <2>2. \A d \in Im(u) : f[d] \in Int
    BY <1>3
  <2> HIDE DEF Im
  <2> QED
    BY <2>1, <2>2
<1>5. 0 \in Good
  <2> SUFFICES ASSUME NEW u \in SUBSET E, Cardinality(u) = 0
               PROVE  SumFunction(G(u)) = SumFunction(H(u))
    OBVIOUS
  <2>1. u = {}
    BY <1>2, FS_EmptySet
  <2>2. Im(u) = {}
    BY <2>1
  <2>3. G(u) \in [{} -> Int] /\ H(u) \in [{} -> Int]
    <3> HIDE DEF Im, G, H
    <3> QED
      BY <1>4, <2>1, <2>2
  <2> HIDE DEF G, H
  <2> QED
    BY <2>3, SumEmpty
<1>6. ASSUME NEW m \in Nat, m \in Good PROVE m + 1 \in Good
  <2> SUFFICES ASSUME NEW u \in SUBSET E, Cardinality(u) = m + 1
               PROVE  SumFunction(G(u)) = SumFunction(H(u))
    OBVIOUS
  <2> DEFINE z == FirstOf(u)
             v == u \ {z}
  <2>1. z \in u /\ Cardinality(v) = m /\ v \in SUBSET E
    BY <1>2, SmallerSet
  <2> HIDE DEF z
  <2>2. SumFunction(G(v)) = SumFunction(H(v))
    BY <1>6, <2>1
  <2>3. [y \in u \ {z} |-> G(u)[y]] = G(v)
    OBVIOUS
  <2>4. Im(u) \ {p[z]} = Im(v)
    <3>1. \A e \in u : e \in E /\ z \in E
      BY <2>1
    <3> QED
      BY <1>1, <2>1, <3>1
  <2>5. [y \in Im(u) \ {p[z]} |-> H(u)[y]] = H(v)
    <3>1. \A y \in Im(v) : y \in Im(u)
      BY <2>4
    <3> HIDE DEF Im
    <3> QED
      BY <2>4, <3>1
  <2>6. G(u)[z] = f[p[z]] /\ p[z] \in Im(u) /\ H(u)[p[z]] = f[p[z]]
    BY <2>1
  <2> HIDE DEF G, H, Im, v, Good
  <2>7. SumFunction(G(u)) = f[p[z]] + SumFunction(G(v))
    <3>1. IsFiniteSet(u) /\ G(u) \in [u -> Int] /\ z \in u
      BY <1>2, <1>4, <2>1
    <3>2. SumFunction(G(u))
            = G(u)[z] + SumFunction([y \in u \ {z} |-> G(u)[y]])
      BY <3>1, SumSplit, ZenonT(60)
    <3> QED
      BY <2>3, <2>6, <3>2
  <2>8. SumFunction(H(u)) = f[p[z]] + SumFunction(H(v))
    <3>1. IsFiniteSet(Im(u)) /\ H(u) \in [Im(u) -> Int] /\ p[z] \in Im(u)
      BY <1>3, <1>4, <2>6
    <3>2. SumFunction(H(u))
            = H(u)[p[z]] + SumFunction([y \in Im(u) \ {p[z]} |-> H(u)[y]])
      BY <3>1, SumSplit, ZenonT(60)
    <3> QED
      BY <2>5, <2>6, <3>2
  <2> QED
    BY <2>2, <2>7, <2>8
<1>7. Nat \subseteq Good
  <2> HIDE DEF Good
  <2> QED
    BY <1>5, <1>6, SetInduction
<1>8. SumFunction(G(E)) = SumFunction(H(E))
  BY <1>2, <1>7
<1>9. H(E) = f
  <2>1. Im(E) = D
    BY <1>1
  <2> HIDE DEF Im
  <2> QED
    BY <2>1
<1> QED
  BY <1>8, <1>9 DEF Reindexed

\* A finite set can be put in descending order.
LEMMA OrderExists ==
  ASSUME NEW D, IsFiniteSet(D), NEW w \in [D -> Int]
  PROVE  \E o \in Bijection(1 .. Cardinality(D), D) :
           \A j, k \in 1 .. Cardinality(D) : j < k => w[o[j]] >= w[o[k]]
<1> DEFINE Ordered(m, u) ==
             \E o \in Bijection(1 .. m, u) :
               \A j, k \in 1 .. m : j < k => w[o[j]] >= w[o[k]]
           Good == {m \in Nat : \A u \in SUBSET D :
                      Cardinality(u) = m => Ordered(m, u)}
<1>1. \A u \in SUBSET D : IsFiniteSet(u) /\ Cardinality(u) \in Nat
  BY FS_Subset, FS_CardinalityType
<1>2. 0 \in Good
  <2> SUFFICES ASSUME NEW u \in SUBSET D, Cardinality(u) = 0
               PROVE  Ordered(0, u)
    OBVIOUS
  <2>1. u = {}
    BY <1>1, FS_EmptySet
  <2> DEFINE o == [j \in 1 .. 0 |-> j]
  <2>2. o \in [1 .. 0 -> u]
    OBVIOUS
  <2> HIDE DEF o
  <2>3. \A j \in 1 .. 0 : FALSE
    OBVIOUS
  <2>4. o \in Bijection(1 .. 0, u)
    <3>1. \A a, b \in 1 .. 0 : o[a] = o[b] => a = b
      BY <2>3
    <3>2. \A d \in u : \E e \in 1 .. 0 : o[e] = d
      BY <2>1
    <3> QED
      BY <2>2, <3>1, <3>2, BijectionIs, Zenon
  <2> QED
    BY <2>3, <2>4
<1>3. ASSUME NEW m \in Nat, m \in Good PROVE m + 1 \in Good
  <2> SUFFICES ASSUME NEW u \in SUBSET D, Cardinality(u) = m + 1
               PROVE  Ordered(m + 1, u)
    BY DEF Good
  <2> DEFINE f == [x \in u |-> 0 - w[x]]
  <2>1. u # {} /\ IsFiniteSet(u) /\ \A x \in u : w[x] \in Int
    BY <1>1, SmallerSet
  <2>2. f \in [u -> Int] /\ \A x \in u : f[x] = 0 - w[x]
    BY <2>1
  <2> HIDE DEF f
  <2>3. PICK z \in u : \A y \in u : f[y] <= f[z]
    BY <2>1, <2>2, LargestValue
  <2>4. \A y \in u : w[y] >= w[z]
    BY <2>1, <2>2, <2>3
  <2>5. Cardinality(u \ {z}) = m
    BY <2>1, SmallerSet
  <2>6. Ordered(m, u \ {z})
    BY <1>3, <2>5
  <2>7. PICK g \in Bijection(1 .. m, u \ {z}) :
          \A j, k \in 1 .. m : j < k => w[g[j]] >= w[g[k]]
    BY <2>6
  <2> DEFINE v == u \ {z}
  <2>8. g \in Bijection(1 .. m, v)
    BY <2>7
  <2> HIDE DEF v
  <2>9. /\ g \in [1 .. m -> v]
        /\ \A a, b \in 1 .. m : g[a] = g[b] => a = b
        /\ \A d \in v : \E e \in 1 .. m : g[e] = d
    BY <2>8 DEF Bijection, Injection, Surjection, IsInjective
  <2> USE DEF v
  <2> DEFINE o == [j \in 1 .. m + 1 |-> IF j = m + 1 THEN z ELSE g[j]]
  <2>10. \A j \in 1 .. m + 1 : j = m + 1 \/ j \in 1 .. m
    OBVIOUS
  <2>11. /\ \A j \in 1 .. m : j \in 1 .. m + 1 /\ j # m + 1
         /\ m + 1 \in 1 .. m + 1
    OBVIOUS
  <2>12. o[m + 1] = z /\ \A j \in 1 .. m : o[j] = g[j] /\ g[j] \in u \ {z}
    BY <2>9, <2>11
  <2>13. o \in [1 .. m + 1 -> u]
    BY <2>9, <2>10
  <2> HIDE DEF o
  <2>14. \A a, b \in 1 .. m + 1 : o[a] = o[b] => a = b
    BY <2>9, <2>10, <2>12
  <2>15. \A d \in u : \E e \in 1 .. m + 1 : o[e] = d
    BY <2>9, <2>11, <2>12
  <2>16. o \in Bijection(1 .. m + 1, u)
    BY <2>13, <2>14, <2>15, BijectionIs
  <2>17. ASSUME NEW j \in 1 .. m + 1, NEW k \in 1 .. m + 1, j < k
         PROVE  w[o[j]] >= w[o[k]]
    <3>1. j \in 1 .. m
      BY <2>17
    <3>2. CASE k = m + 1
      BY <2>4, <2>12, <3>1, <3>2
    <3>3. CASE k \in 1 .. m
      BY <2>7, <2>12, <2>17, <3>1, <3>3
    <3> QED
      BY <2>10, <3>2, <3>3
  <2> QED
    BY <2>16, <2>17
<1>4. Nat \subseteq Good
  <2> HIDE DEF Good
  <2> QED
    BY <1>2, <1>3, SetInduction
<1> QED
  BY <1>1, <1>4
=============================================================================
