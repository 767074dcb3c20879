--------------------------- MODULE BarrierProofs ----------------------------
(***************************************************************************)
(* Proofs about Barrier and the placement it rests on: for every machine   *)
(* and every number of threads that fits it, bm_barrier_init counts the    *)
(* threads pool_create has placed, and nobody leaves a round of the        *)
(* barrier before everybody has entered it.                                *)
(***************************************************************************)
EXTENDS Barrier, Integers, Sequences, WorkRangeProofs

-----------------------------------------------------------------------------
(* The placement.  A machine is a sequence of positive CPU counts.         *)

Cpus == Nat \ {0}

LEMMA MinOf ==
  ASSUME NEW a \in Int, NEW b \in Int
  PROVE  /\ NP!Min2(a, b) \in Int
         /\ NP!Min2(a, b) = IF a < b THEN a ELSE b
  BY DEF NP!Min2

\* tid_offset exists, starts at 0 and grows by what each node is given.
LEMMA OffsetStep ==
  ASSUME NEW cap \in Seq(Cpus), NEW n \in Nat
  PROVE  LET o == NP!Offset(cap, n)
         IN  /\ o \in [1 .. Len(cap) + 1 -> 0 .. n]
             /\ o[1] = 0
             /\ \A k \in 1 .. Len(cap) :
                  o[k + 1] = IF n - o[k] < cap[k] THEN n ELSE o[k] + cap[k]
<1> DEFINE L       == Len(cap)
           D       == 1 .. L + 1
           V       == 0 .. n
           Up(v, c) == IF n - v < c THEN n ELSE v + c
           Eq(off) == off = [k \in D |->
                        IF k = 1 THEN 0
                        ELSE off[k - 1] + NP!Min2(n - off[k - 1], cap[k - 1])]
           S       == [k \in Nat |-> [v \in V |->
                                        IF k < L THEN Up(v, cap[k + 1]) ELSE v]]
           o       == NP!Offset(cap, n)
<1>1. L \in Nat /\ \A k \in 1 .. L : cap[k] \in Nat
  BY DEF Cpus
<1>2. o = CHOOSE off : Eq(off)
  BY DEF NP!Offset
<1> HIDE DEF L, o
<1>3. ASSUME NEW v \in V, NEW c \in Nat
      PROVE  Up(v, c) \in V /\ v + NP!Min2(n - v, c) = Up(v, c)
  BY DEF NP!Min2
<1> HIDE DEF Up
<1>4. S \in [Nat -> [V -> V]] /\ 0 \in V
  <2>1. ASSUME NEW k \in Nat, NEW v \in V, k < L
        PROVE  Up(v, cap[k + 1]) \in V
    <3>1. k + 1 \in 1 .. L
      BY <1>1, <2>1
    <3> QED
      BY <1>1, <1>3, <3>1
  <2> HIDE DEF V
  <2>2. S \in [Nat -> [V -> V]]
    BY <2>1
  <2> QED
    BY <2>2 DEF V
<1>5. PICK f : Follows(f, V, 0, S)
  <2> HIDE DEF S, V
  <2> QED
    BY <1>4, Recursion
<1>6. ASSUME NEW k \in 1 .. L
      PROVE  f[k] = Up(f[k - 1], cap[k]) /\ f[k - 1] \in V
  <2>1. k - 1 \in Nat /\ k = (k - 1) + 1 /\ k - 1 < L
    BY <1>1
  <2>2. f[k] = S[k - 1][f[k - 1]] /\ f[k - 1] \in V
    BY <1>5, <2>1 DEF Follows
  <2> QED
    BY <2>1, <2>2
<1> DEFINE own == [k \in D |-> f[k - 1]]
<1>7. Eq(own)
  <2> DEFINE e == [k \in D |->
                     IF k = 1 THEN 0
                     ELSE own[k - 1] + NP!Min2(n - own[k - 1], cap[k - 1])]
  <2>1. ASSUME NEW k \in D PROVE own[k] = e[k]
    <3>1. CASE k = 1
      BY <1>5, <3>1 DEF Follows
    <3>2. CASE k # 1
      <4> DEFINE i == k - 1
      <4>1. i \in 1 .. L /\ i \in D /\ k \in D
        BY <1>1, <3>2
      <4>2. own[k] = f[i] /\ own[i] = f[i - 1]
        BY <4>1
      <4>3. f[i] = Up(f[i - 1], cap[i]) /\ f[i - 1] \in V /\ cap[i] \in Nat
        BY <1>1, <1>6, <4>1
      <4> HIDE DEF own
      <4>4. e[k] = own[i] + NP!Min2(n - own[i], cap[i])
        BY <3>2, <4>1
      <4> HIDE DEF i, e, V
      <4>5. f[i - 1] + NP!Min2(n - f[i - 1], cap[i]) = Up(f[i - 1], cap[i])
        BY <1>3, <4>3
      <4> QED
        BY <4>2, <4>3, <4>4, <4>5
    <3> QED
      BY <3>1, <3>2
  <2>2. own = e
    BY <2>1
  <2> QED
    BY <2>2
<1>8. Eq(o)
  <2> HIDE DEF own, Eq
  <2> QED
    BY <1>2, <1>7
<1> HIDE DEF own
<1>9. o[1] = 0
  BY <1>1, <1>8
<1>10. ASSUME NEW k \in 1 .. L, o[k] \in V
       PROVE  o[k + 1] = Up(o[k], cap[k]) /\ o[k + 1] \in V
  <2>1. k + 1 \in D /\ k + 1 # 1 /\ (k + 1) - 1 = k
    BY <1>1
  <2>2. o[k + 1] = o[k] + NP!Min2(n - o[k], cap[k])
    BY <1>8, <2>1
  <2>3. cap[k] \in Nat
    BY <1>1
  <2> HIDE DEF V
  <2> QED
    BY <1>3, <1>10, <2>2, <2>3
<1>11. \A k \in D : o[k] \in V
  <2> DEFINE T == {k \in Nat : k < L + 1 => o[k + 1] \in V}
  <2>1. 0 \in T
    <3>1. 0 + 1 = 1
      OBVIOUS
    <3> QED
      BY <1>4, <1>9, <3>1
  <2>2. ASSUME NEW k \in Nat, k \in T PROVE k + 1 \in T
    <3> HIDE DEF V
    <3> SUFFICES ASSUME k + 1 < L + 1
                 PROVE  o[(k + 1) + 1] \in V
      OBVIOUS
    <3>1. k + 1 \in 1 .. L /\ k < L + 1
      BY <1>1
    <3> QED
      BY <1>10, <2>2, <3>1
  <2>3. Nat \subseteq T
    <3> HIDE DEF T
    <3> QED
      BY <2>1, <2>2, SetInduction
  <2> SUFFICES ASSUME NEW k \in D PROVE o[k] \in V
    OBVIOUS
  <2>4. k - 1 \in Nat /\ k - 1 < L + 1 /\ (k - 1) + 1 = k
    BY <1>1
  <2> HIDE DEF V
  <2> QED
    BY <2>3, <2>4
<1>12. o \in [D -> V]
  <2>1. o = [k \in D |-> o[k]]
    BY <1>8
  <2> HIDE DEF V
  <2> QED
    BY <1>11, <2>1
<1>13. \A k \in 1 .. L : o[k + 1] = Up(o[k], cap[k])
  <2> SUFFICES ASSUME NEW k \in 1 .. L PROVE o[k + 1] = Up(o[k], cap[k])
    OBVIOUS
  <2>1. k \in D
    BY <1>1
  <2> QED
    BY <1>10, <1>11, <2>1
<1> QED
  BY <1>9, <1>12, <1>13 DEF o, L, Up

LEMMA OffsetGrows ==
  ASSUME NEW cap \in Seq(Cpus), NEW n \in Nat,
         NEW i \in 1 .. Len(cap) + 1, NEW j \in 1 .. Len(cap) + 1, i <= j
  PROVE  NP!Offset(cap, n)[i] <= NP!Offset(cap, n)[j]
<1> DEFINE L == Len(cap)
           o == NP!Offset(cap, n)
           T == {d \in Nat : i + d <= L + 1 => o[i] <= o[i + d]}
<1>1. /\ o \in [1 .. L + 1 -> 0 .. n]
      /\ \A k \in 1 .. L :
           o[k + 1] = IF n - o[k] < cap[k] THEN n ELSE o[k] + cap[k]
  BY OffsetStep
<1>2. L \in Nat /\ \A k \in 1 .. L : cap[k] \in Nat
  BY DEF Cpus
<1>3. i \in 1 .. L + 1 /\ j \in 1 .. L + 1
  OBVIOUS
<1> HIDE DEF o, L
<1>4. 0 \in T
  BY <1>1, <1>2, <1>3
<1>5. ASSUME NEW d \in Nat, d \in T PROVE d + 1 \in T
  <2> SUFFICES ASSUME i + (d + 1) <= L + 1
               PROVE  o[i] <= o[i + (d + 1)]
    OBVIOUS
  <2> DEFINE k == i + d
  <2>1. k \in 1 .. L /\ k + 1 = i + (d + 1) /\ k \in 1 .. L + 1
    BY <1>2, <1>3
  <2>2. o[i] <= o[k]
    BY <1>2, <1>5, <2>1
  <2> HIDE DEF k
  <2>3. o[k] \in 0 .. n /\ o[i] \in 0 .. n /\ cap[k] \in Nat
    BY <1>1, <1>2, <1>3, <2>1
  <2>4. o[k + 1] = IF n - o[k] < cap[k] THEN n ELSE o[k] + cap[k]
    BY <1>1, <2>1
  <2>5. o[i] <= o[k + 1]
    BY <2>2, <2>3, <2>4
  <2> QED
    BY <2>1, <2>5
<1>6. Nat \subseteq T
  <2> HIDE DEF T
  <2> QED
    BY <1>4, <1>5, SetInduction
<1>7. j - i \in Nat /\ i + (j - i) = j /\ j <= L + 1
  BY <1>2, <1>3
<1>8. o[i] <= o[i + (j - i)]
  BY <1>6, <1>7
<1> QED
  BY <1>7, <1>8 DEF o

\* The CPUs of the machine are what its nodes sum up to.
LEMMA CapacitySum ==
  ASSUME NEW cap \in Seq(Cpus)
  PROVE  \E sum : /\ NP!Capacity(cap) = sum[Len(cap)]
                  /\ sum[0] = 0
                  /\ \A k \in 1 .. Len(cap) : sum[k] = sum[k - 1] + cap[k]
<1> DEFINE L       == Len(cap)
           D       == 0 .. L
           Eq(sum) == sum = [k \in D |-> IF k = 0 THEN 0 ELSE sum[k - 1] + cap[k]]
           S       == [k \in Nat |-> [v \in Nat |->
                                        IF k < L THEN v + cap[k + 1] ELSE v]]
<1>1. L \in Nat /\ \A k \in 1 .. L : cap[k] \in Nat
  BY DEF Cpus
<1>2. NP!Capacity(cap) = (CHOOSE sum : Eq(sum))[L]
  BY DEF NP!Capacity
<1> HIDE DEF L
<1>3. S \in [Nat -> [Nat -> Nat]]
  <2>1. ASSUME NEW k \in Nat, k < L PROVE cap[k + 1] \in Nat
    <3>1. k + 1 \in 1 .. L
      BY <1>1, <2>1
    <3> QED
      BY <1>1, <3>1
  <2> QED
    BY <2>1
<1>4. PICK f : Follows(f, Nat, 0, S)
  <2> HIDE DEF S
  <2> QED
    BY <1>3, Recursion
<1>5. ASSUME NEW k \in 1 .. L PROVE f[k] = f[k - 1] + cap[k]
  <2>1. k - 1 \in Nat /\ k = (k - 1) + 1 /\ k - 1 < L
    BY <1>1
  <2>2. f[k] = S[k - 1][f[k - 1]] /\ f[k - 1] \in Nat
    BY <1>4, <2>1 DEF Follows
  <2> QED
    BY <2>1, <2>2
<1> DEFINE own == [k \in D |-> f[k]]
<1>6. Eq(own)
  <2> DEFINE e == [k \in D |-> IF k = 0 THEN 0 ELSE own[k - 1] + cap[k]]
  <2>1. ASSUME NEW k \in D PROVE own[k] = e[k]
    <3>1. CASE k = 0
      BY <1>4, <3>1 DEF Follows
    <3>2. CASE k # 0
      <4>1. k \in 1 .. L /\ k - 1 \in D
        BY <1>1, <3>2
      <4> QED
        BY <1>5, <3>2, <4>1
    <3> QED
      BY <3>1, <3>2
  <2>2. own = e
    BY <2>1
  <2> QED
    BY <2>2
<1> DEFINE sum == CHOOSE sum : Eq(sum)
<1>7. Eq(sum)
  <2> HIDE DEF own, Eq
  <2> QED
    BY <1>6
<1> HIDE DEF sum
<1>8. sum[0] = 0 /\ \A k \in 1 .. L : sum[k] = sum[k - 1] + cap[k]
  BY <1>1, <1>7
<1> QED
  BY <1>2, <1>8 DEF L, sum

\* Every thread finds a place if the machine has a CPU for it.
LEMMA AllPlaced ==
  ASSUME NEW cap \in Seq(Cpus), NEW n \in Nat, n <= NP!Capacity(cap)
  PROVE  NP!Offset(cap, n)[Len(cap) + 1] = n
<1> DEFINE L == Len(cap)
           o == NP!Offset(cap, n)
<1>1. PICK sum : /\ NP!Capacity(cap) = sum[L]
                 /\ sum[0] = 0
                 /\ \A k \in 1 .. L : sum[k] = sum[k - 1] + cap[k]
  BY CapacitySum
<1> DEFINE T == {k \in Nat : k <= L =>
                   /\ sum[k] \in Nat
                   /\ o[k + 1] = IF n < sum[k] THEN n ELSE sum[k]}
<1>2. /\ o[1] = 0
      /\ \A k \in 1 .. L :
           o[k + 1] = IF n - o[k] < cap[k] THEN n ELSE o[k] + cap[k]
  BY OffsetStep
<1>3. L \in Nat /\ \A k \in 1 .. L : cap[k] \in Nat
  BY DEF Cpus
<1> HIDE DEF o, L
<1>4. 0 \in T
  <2>1. 0 + 1 = 1
    OBVIOUS
  <2> QED
    BY <1>1, <1>2, <2>1
<1>5. ASSUME NEW k \in Nat, k \in T PROVE k + 1 \in T
  <2> SUFFICES ASSUME k + 1 <= L
               PROVE  /\ sum[k + 1] \in Nat
                      /\ o[(k + 1) + 1] = IF n < sum[k + 1] THEN n ELSE sum[k + 1]
    OBVIOUS
  <2>1. k + 1 \in 1 .. L /\ (k + 1) - 1 = k
    BY <1>3
  <2>2. /\ sum[k + 1] = sum[k] + cap[k + 1] /\ cap[k + 1] \in Nat
        /\ o[(k + 1) + 1] = IF n - o[k + 1] < cap[k + 1] THEN n
                            ELSE o[k + 1] + cap[k + 1]
    BY <1>1, <1>2, <1>3, <2>1
  <2>3. sum[k] \in Nat /\ o[k + 1] = IF n < sum[k] THEN n ELSE sum[k]
    BY <1>3, <1>5
  <2> QED
    BY <2>2, <2>3
<1>6. L \in T
  <2>1. Nat \subseteq T
    <3> HIDE DEF T
    <3> QED
      BY <1>4, <1>5, SetInduction
  <2> QED
    BY <1>3, <2>1
<1> QED
  BY <1>1, <1>3, <1>6 DEF o, L

\* With fewer threads the nodes are filled alike until the threads run out.
LEMMA OffsetFewer ==
  ASSUME NEW cap \in Seq(Cpus), NEW n0 \in Nat, NEW n \in Nat, n <= n0,
         NEW k \in 1 .. Len(cap) + 1
  PROVE  NP!Offset(cap, n)[k] = IF n < NP!Offset(cap, n0)[k]
                                THEN n ELSE NP!Offset(cap, n0)[k]
<1> DEFINE L == Len(cap)
           o == NP!Offset(cap, n)
           p == NP!Offset(cap, n0)
           T == {i \in Nat : i <= L =>
                   o[i + 1] = IF n < p[i + 1] THEN n ELSE p[i + 1]}
<1>1. /\ o \in [1 .. L + 1 -> 0 .. n] /\ o[1] = 0
      /\ \A i \in 1 .. L :
           o[i + 1] = IF n - o[i] < cap[i] THEN n ELSE o[i] + cap[i]
  BY OffsetStep
<1>2. /\ p \in [1 .. L + 1 -> 0 .. n0] /\ p[1] = 0
      /\ \A i \in 1 .. L :
           p[i + 1] = IF n0 - p[i] < cap[i] THEN n0 ELSE p[i] + cap[i]
  BY OffsetStep
<1>3. /\ L \in Nat /\ k \in 1 .. L + 1
      /\ \A i \in 1 .. L : cap[i] \in Nat
  BY DEF Cpus
<1> HIDE DEF o, p, L
<1>4. 0 \in T
  <2>1. 0 + 1 = 1
    OBVIOUS
  <2> QED
    BY <1>1, <1>2, <2>1
<1>5. ASSUME NEW i \in Nat, i \in T PROVE i + 1 \in T
  <2> SUFFICES ASSUME i + 1 <= L
               PROVE  o[(i + 1) + 1] = IF n < p[(i + 1) + 1] THEN n
                                       ELSE p[(i + 1) + 1]
    OBVIOUS
  <2> DEFINE j == i + 1
  <2>1. j \in 1 .. L /\ j \in 1 .. L + 1
    BY <1>3
  <2>2. o[j] = IF n < p[j] THEN n ELSE p[j]
    BY <1>3, <1>5
  <2> HIDE DEF j
  <2>3. /\ o[j + 1] = IF n - o[j] < cap[j] THEN n ELSE o[j] + cap[j]
        /\ p[j + 1] = IF n0 - p[j] < cap[j] THEN n0 ELSE p[j] + cap[j]
        /\ cap[j] \in Nat /\ p[j] \in 0 .. n0
    BY <1>1, <1>2, <1>3, <2>1
  <2>4. o[j + 1] = IF n < p[j + 1] THEN n ELSE p[j + 1]
    BY <2>2, <2>3, SMTT(30)
  <2> QED
    BY <2>4 DEF j
<1>6. Nat \subseteq T
  <2> HIDE DEF T
  <2> QED
    BY <1>4, <1>5, SetInduction
<1>7. k - 1 \in Nat /\ k - 1 <= L /\ (k - 1) + 1 = k
  BY <1>3
<1>8. k - 1 \in T
  <2> HIDE DEF T
  <2> QED
    BY <1>6, <1>7
<1> QED
  BY <1>7, <1>8 DEF o, p

\* A thread is on the one node whose range of tids holds its own.
LEMMA HomeIs ==
  ASSUME NEW cap \in Seq(Cpus), Len(cap) > 1,
         NEW n \in Nat, NP!Offset(cap, n)[Len(cap) + 1] = n,
         NEW t \in 0 .. n - 1
  PROVE  /\ NP!TidNode(cap, n, t) \in 1 .. Len(cap)
         /\ \A k \in 1 .. Len(cap) :
              NP!TidNode(cap, n, t) = k
                <=> t \in NP!Offset(cap, n)[k] .. NP!Offset(cap, n)[k + 1] - 1
<1> DEFINE L    == Len(cap)
           o    == NP!Offset(cap, n)
           home == {k \in 1 .. L : o[k] <= t /\ t < o[k + 1]}
<1>1. o \in [1 .. L + 1 -> 0 .. n] /\ o[1] = 0 /\ o[L + 1] = n
  BY OffsetStep
<1>2. \A i, j \in 1 .. L + 1 : i <= j => o[i] <= o[j]
  BY OffsetGrows
<1>3. L \in Nat /\ L > 1
  OBVIOUS
<1>4. NP!TidNode(cap, n, t) = IF home = {} THEN 1 ELSE CHOOSE k \in home : TRUE
  BY DEF NP!TidNode
<1> HIDE DEF o, L
<1>5. \A k \in 1 .. L : o[k] \in Nat /\ o[k + 1] \in Nat
  <2> SUFFICES ASSUME NEW k \in 1 .. L PROVE o[k] \in Nat /\ o[k + 1] \in Nat
    OBVIOUS
  <2>1. k \in 1 .. L + 1 /\ k + 1 \in 1 .. L + 1
    BY <1>3
  <2> QED
    BY <1>1, <2>1
<1>6. home # {}
  <2> DEFINE T == {k \in 1 .. L : t < o[k + 1]}
  <2>1. T # {} /\ T \subseteq Nat
    <3>1. L \in 1 .. L /\ t < o[L + 1]
      BY <1>1, <1>3
    <3>2. L \in T
      BY <3>1
    <3>3. T \subseteq 1 .. L /\ 1 .. L \subseteq Nat
      BY <1>3
    <3> HIDE DEF T
    <3> QED
      BY <3>2, <3>3
  <2>2. PICK k \in T : \A j \in T : k <= j
    BY <2>1, LeastNumber
  <2>3. CASE k = 1
    BY <1>1, <2>2, <2>3
  <2>4. CASE k # 1
    <3>1. k - 1 \in 1 .. L /\ (k - 1) + 1 = k /\ k - 1 \notin T
      BY <1>3, <2>2, <2>4
    <3> QED
      BY <1>5, <2>2, <3>1
  <2> QED
    BY <2>3, <2>4
<1>7. \A i, j \in home : i = j
  <2> SUFFICES ASSUME NEW i \in home, NEW j \in home, i < j PROVE FALSE
    OBVIOUS
  <2>1. i + 1 \in 1 .. L + 1 /\ j \in 1 .. L + 1 /\ i + 1 <= j
    BY <1>3
  <2>2. o[i + 1] <= o[j]
    BY <1>2, <2>1
  <2> QED
    BY <1>5, <2>2
<1>8. PICK h \in home : home = {h}
  BY <1>6, <1>7
<1>9. NP!TidNode(cap, n, t) = h
  BY <1>4, <1>8
<1>10. ASSUME NEW k \in 1 .. L
       PROVE  h = k <=> t \in o[k] .. o[k + 1] - 1
  <2>1. h = k <=> k \in home
    BY <1>8
  <2>2. o[k] \in Nat /\ o[k + 1] \in Nat /\ t \in Nat
    BY <1>5
  <2>3. t \in o[k] .. o[k + 1] - 1 <=> o[k] <= t /\ t < o[k + 1]
    BY <2>2
  <2> QED
    BY <2>1, <2>3
<1> QED
  BY <1>8, <1>9, <1>10 DEF o, L

\* What the barrier counts on a node.
LEMMA CountIs ==
  ASSUME NEW cap \in Seq(Cpus), Len(cap) > 1,
         NEW n0 \in Nat, NEW n \in Nat, n <= n0, NEW k \in 1 .. Len(cap)
  PROVE  /\ NP!Offset(cap, n)[k] \in Nat
         /\ NP!Offset(cap, n)[k] <= NP!Offset(cap, n)[k + 1]
         /\ NP!Offset(cap, n)[k + 1] \in Nat
         /\ NP!NodeN(cap, n0, n, k)
              = NP!Offset(cap, n)[k + 1] - NP!Offset(cap, n)[k]
<1> DEFINE o == NP!Offset(cap, n)
           p == NP!Offset(cap, n0)
           first == NP!FirstTid(cap, n0, n, k)
           many  == NP!NodeThreads(cap, n0, n, k)
<1>1. /\ k \in 1 .. Len(cap) + 1 /\ k + 1 \in 1 .. Len(cap) + 1
      /\ cap[k] \in Nat \ {0}
  BY DEF Cpus
<1>2. /\ o[k] \in 0 .. n /\ o[k + 1] \in 0 .. n
      /\ o[k + 1] = IF n - o[k] < cap[k] THEN n ELSE o[k] + cap[k]
  BY <1>1, OffsetStep
<1>3. p[k] \in 0 .. n0
  BY <1>1, OffsetStep
<1>4. o[k] = IF n < p[k] THEN n ELSE p[k]
  BY <1>1, OffsetFewer
<1>5. NP!NodeN(cap, n0, n, k)
        = IF (IF first + many < n THEN first + many ELSE n) > first
          THEN (IF first + many < n THEN first + many ELSE n) - first ELSE 0
  BY DEF NP!NodeN, NP!Min2
<1>6. CASE o[k] < n
  <2>1. first = o[k] /\ many = IF n - o[k] < cap[k] THEN n - o[k] ELSE cap[k]
    BY <1>6 DEF NP!FirstTid, NP!NodeThreads, NP!Reached, NP!Min2
  <2> HIDE DEF o, first, many
  <2> QED
    BY <1>1, <1>2, <1>5, <2>1, SMTT(30) DEF o
<1>7. CASE ~ (o[k] < n)
  <2>1. o[k] = n /\ o[k + 1] = n /\ p[k] >= n
    BY <1>1, <1>2, <1>3, <1>4, <1>7
  <2>2. CASE p[k] < n0
    <3>1. first = p[k] /\ many = IF n0 - p[k] < cap[k] THEN n0 - p[k] ELSE cap[k]
      BY <1>7, <2>2 DEF NP!FirstTid, NP!NodeThreads, NP!Reached, NP!Min2
    <3> HIDE DEF o, p, first, many
    <3> QED
      BY <1>1, <1>2, <1>3, <1>5, <2>1, <3>1 DEF o
  <2>3. CASE ~ (p[k] < n0)
    <3>1. first = 0 /\ many = 0
      BY <1>7, <2>3 DEF NP!FirstTid, NP!NodeThreads, NP!Reached
    <3> HIDE DEF o, p, first, many
    <3> QED
      BY <1>2, <1>5, <2>1, <3>1 DEF o
  <2> QED
    BY <2>2, <2>3
<1> QED
  BY <1>6, <1>7

\* The plans of pool_create for a machine with a CPU for every thread it was
\* asked for, or with a single node.
PlanFits(p) ==
  \E cap \in Seq(Cpus), n0 \in Cpus, n \in Cpus :
    /\ Len(cap) >= 1 /\ n <= n0
    /\ Len(cap) = 1 \/ n0 <= NP!Capacity(cap)
    /\ p = NP!Plan(cap, n0, n)

On(p, k) == {t \in 0 .. p.n - 1 : p.node[t] = k}

\* What the barrier needs of a placement, and gets.
Placed(p) ==
  /\ p.n \in Cpus /\ p.nodes \in Cpus /\ p.active \in Nat
  /\ p.node \in [0 .. p.n - 1 -> 1 .. p.nodes]
  /\ p.active > 1 =>
       /\ \A k \in 1 .. p.nodes : p.nodeN[k] = Cardinality(On(p, k))
       /\ p.active = Cardinality({k \in 1 .. p.nodes : On(p, k) # {}})

\* NumaPlan counts with the same operator.
LEMMA SameCardinality == \A S : NP!Cardinality(S) = Cardinality(S)
  BY DEF NP!Cardinality, Cardinality

LEMMA Placement ==
  ASSUME NEW p, PlanFits(p)
  PROVE  Placed(p)
<1>1. PICK cap \in Seq(Cpus), n0 \in Cpus, n \in Cpus :
        /\ Len(cap) >= 1 /\ n <= n0
        /\ Len(cap) = 1 \/ n0 <= NP!Capacity(cap)
        /\ p = NP!Plan(cap, n0, n)
  BY DEF PlanFits
<1> DEFINE L == Len(cap)
           o == NP!Offset(cap, n)
           Node(t) == NP!TidNode(cap, n, t)
           Many(k) == NP!NodeN(cap, n0, n, k)
           Counted == {k \in 1 .. L : Many(k) > 0}
<1>2. /\ p.n = n /\ p.nodes = L
      /\ p.node = [t \in 0 .. n - 1 |-> Node(t)]
      /\ p.nodeN = [k \in 1 .. L |-> Many(k)]
      /\ p.active = IF L <= 1 THEN 1 ELSE Cardinality(Counted)
  <2>1. p = [n      |-> n,
             nodes  |-> L,
             node   |-> [t \in 0 .. n - 1 |-> Node(t)],
             nodeN  |-> [k \in 1 .. L |-> Many(k)],
             active |-> IF L <= 1 THEN 1 ELSE Cardinality(Counted)]
    BY <1>1, SameCardinality, Zenon DEF NP!Plan
  <2> HIDE DEF L, Node, Many, Counted
  <2> QED
    BY <2>1
<1>3. n \in Nat \ {0} /\ n0 \in Nat \ {0} /\ L \in Nat \ {0}
  BY <1>1 DEF Cpus
<1>4. CASE L = 1
  <2>1. \A t \in 0 .. n - 1 : Node(t) = 1
    BY <1>4 DEF NP!TidNode
  <2>2. p.active = 1 /\ p.nodes = 1
    BY <1>2, <1>4
  <2>3. p.node \in [0 .. p.n - 1 -> 1 .. p.nodes]
    <3> HIDE DEF Node
    <3> QED
      BY <1>2, <2>1, <2>2
  <2> HIDE DEF L, Node, Many
  <2> QED
    BY <1>2, <1>3, <2>2, <2>3 DEF Placed, Cpus
<1>5. CASE L > 1
  <2>1. o[L + 1] = n
    <3>1. NP!Offset(cap, n0)[L + 1] = n0
      <4>1. n0 \in Nat /\ Len(cap) # 1
        <5>1. n0 \in Nat
          BY <1>3
        <5>2. Len(cap) # 1
          <6> HIDE DEF L
          <6>1. L # 1
            BY <1>3, <1>5
          <6> QED
            BY <6>1 DEF L
        <5> QED
          BY <5>1, <5>2
      <4>2. n0 <= NP!Capacity(cap)
        BY <1>1, <4>1, Zenon
      <4> QED
        BY <4>1, <4>2, AllPlaced
    <3>2. L + 1 \in 1 .. L + 1
      BY <1>3
    <3>3. o[L + 1] = IF n < n0 THEN n ELSE n0
      BY <1>1, <1>3, <3>1, <3>2, OffsetFewer
    <3> HIDE DEF o
    <3> QED
      BY <1>1, <1>3, <3>3
  <2>2. \A t \in 0 .. n - 1 :
          /\ Node(t) \in 1 .. L
          /\ \A k \in 1 .. L : Node(t) = k <=> t \in o[k] .. o[k + 1] - 1
    BY <1>3, <1>5, <2>1, HomeIs
  <2>3. \A k \in 1 .. L :
          /\ o[k] \in Nat /\ o[k + 1] \in Nat /\ o[k] <= o[k + 1]
          /\ Many(k) = o[k + 1] - o[k]
    BY <1>1, <1>3, <1>5, CountIs
  <2>4. \A k \in 1 .. L : o[k + 1] <= n
    <3> SUFFICES ASSUME NEW k \in 1 .. L PROVE o[k + 1] <= n
      OBVIOUS
    <3>1. k + 1 \in 1 .. L + 1
      BY <1>3
    <3>2. o \in [1 .. L + 1 -> 0 .. n]
      BY <1>3, OffsetStep
    <3> HIDE DEF o, L
    <3> QED
      BY <1>3, <3>1, <3>2
  <2> HIDE DEF o, L, Node, Many
  <2>5. ASSUME NEW k \in 1 .. L
        PROVE  /\ On(p, k) = o[k] .. o[k + 1] - 1
               /\ Many(k) = Cardinality(On(p, k))
               /\ Many(k) > 0 <=> On(p, k) # {}
    <3>1. \A t \in 0 .. n - 1 : p.node[t] = k <=> t \in o[k] .. o[k + 1] - 1
      BY <1>2, <2>2
    <3>2. \A t \in o[k] .. o[k + 1] - 1 : t \in 0 .. n - 1
      BY <1>3, <2>3, <2>4
    <3>3. On(p, k) = o[k] .. o[k + 1] - 1
      BY <1>2, <3>1, <3>2 DEF On
    <3> DEFINE a == o[k]
               b == o[k + 1] - 1
    <3>4. a \in Int /\ b \in Int /\ a <= b + 1 /\ Many(k) = b + 1 - a
      BY <2>3
    <3> HIDE DEF a, b
    <3>5. Cardinality(a .. b) = IF a > b THEN 0 ELSE b - a + 1
      BY <3>4, FS_Interval
    <3>6. Many(k) = Cardinality(a .. b)
      BY <3>4, <3>5
    <3>7. Many(k) > 0 <=> a .. b # {}
      <4>1. CASE a <= b
        <5>1. a \in a .. b
          BY <3>4, <4>1
        <5>2. Many(k) > 0
          BY <3>4, <4>1
        <5> QED
          BY <5>1, <5>2
      <4>2. CASE ~ (a <= b)
        <5>1. a .. b = {}
          BY <3>4, <4>2
        <5> QED
          BY <3>4, <4>2, <5>1
      <4> QED
        BY <4>1, <4>2
    <3> QED
      BY <3>3, <3>6, <3>7 DEF a, b
  <2>6. p.active = Cardinality({k \in 1 .. p.nodes : On(p, k) # {}})
    <3>1. Counted = {k \in 1 .. L : On(p, k) # {}}
      BY <2>5
    <3> HIDE DEF Counted
    <3> QED
      BY <1>2, <1>3, <1>5, <3>1
  <2>7. p.active \in Nat
    <3>1. IsFiniteSet(1 .. L)
      BY <1>3, FS_Interval
    <3>2. Counted \in SUBSET (1 .. L)
      OBVIOUS
    <3>3. IsFiniteSet(Counted)
      BY <3>1, <3>2, FS_Subset
    <3>4. Cardinality(Counted) \in Nat
      BY <3>3, FS_CardinalityType
    <3> HIDE DEF Counted
    <3> QED
      BY <1>2, <1>3, <1>5, <3>4
  <2>8. p.node \in [0 .. p.n - 1 -> 1 .. p.nodes]
    BY <1>2, <2>2
  <2>9. \A k \in 1 .. p.nodes : p.nodeN[k] = Cardinality(On(p, k))
    BY <1>2, <2>5
  <2> QED
    BY <1>2, <1>3, <2>6, <2>7, <2>8, <2>9 DEF Placed, Cpus
<1> QED
  BY <1>3, <1>4, <1>5

-----------------------------------------------------------------------------
(* The invariant.  A node's phase counts the rounds its threads have been  *)
(* released from; the global phase, those all leaders have arrived in.     *)

Pc == {"out", "arrive", "wait", "reset", "gread", "garrive", "gwait", "greset",
       "grelease", "release"}

\* A leader: the last of its node to arrive, on its way to the release.
Leading == {"reset", "gread", "garrive", "gwait", "greset", "grelease",
            "release"}

Counters == Nodes \cup {Global}

\* The threads of a node, and those that have arrived in its open round.
Group(k)  == {t \in Threads : Home(t) = k}
Inside(k) == {t \in Group(k) : /\ bpc[t] \notin {"out", "arrive"}
                               /\ round[t] = phase[k]}

TypeInv ==
  /\ plan \in Plans
  /\ arrived \in [Counters -> Nat] /\ phase \in [Counters -> Nat]
  /\ bpc \in [Threads -> Pc]
  /\ cur \in [Threads -> Nat] /\ gcur \in [Threads -> Nat]
  /\ round \in [Threads -> Nat]

\* Nobody is more than a round behind its node's phase, and a node has a
\* leader only when all its other threads wait for it.
LocalInv ==
  \A t \in Threads :
    /\ bpc[t] # "out" => cur[t] = round[t]
    /\ bpc[t] # "wait" => round[t] = phase[Home(t)]
    /\ bpc[t] = "wait" => round[t] = phase[Home(t)]
                            \/ round[t] + 1 = phase[Home(t)]
    /\ bpc[t] \in Leading =>
         \A u \in Threads : Home(u) = Home(t) /\ u # t =>
                              bpc[u] = "wait" /\ round[u] = phase[Home(t)]

\* A counter has counted those inside, until the leader resets it.
CountInv ==
  \A k \in Nodes : Group(k) # {} =>
    arrived[k] = IF \E t \in Group(k) : bpc[t] \in Leading \ {"reset"}
                 THEN 0 ELSE Cardinality(Inside(k))

\* The nodes whose leader has arrived in the open global round.
InsideNodes ==
  {k \in Nodes : \E t \in Group(k) :
                   /\ bpc[t] \in {"gwait", "greset", "grelease"}
                   /\ round[t] = phase[Global]}

\* A node lags a round behind the global phase only while its leader is on
\* its way out, and the last leader finds every node represented.
LeaderInv ==
  \A t \in Threads :
    /\ bpc[t] \in {"garrive", "gwait", "greset", "grelease"}
         => gcur[t] = round[t]
    /\ \/ phase[Home(t)] = phase[Global]
       \/ /\ phase[Home(t)] + 1 = phase[Global]
          /\ \E u \in Threads : /\ Home(u) = Home(t)
                                /\ bpc[u] \in {"gwait", "release"}
    /\ bpc[t] \in {"reset", "gread", "garrive", "greset", "grelease"}
         => round[t] = phase[Global]
    /\ bpc[t] = "release" => round[t] + 1 = phase[Global]
    /\ bpc[t] \in {"greset", "grelease"} =>
         \A u \in Threads : \E v \in Threads :
           Home(v) = Home(u) /\ round[v] = phase[Global]
             /\ (v = t \/ bpc[v] = "gwait")

GlobalCountInv ==
  arrived[Global] = IF \E t \in Threads : bpc[t] = "grelease"
                    THEN 0 ELSE Cardinality(InsideNodes)

GlobalInv ==
  IF Flat THEN \A t \in Threads :
                 bpc[t] \in {"out", "arrive", "wait", "reset", "release"}
          ELSE LeaderInv /\ GlobalCountInv

\* Only a thread with a round to do arrives.
BoundInv == \A t \in Threads : bpc[t] = "arrive" => round[t] < Rounds

IInv == TypeInv /\ LocalInv /\ CountInv /\ GlobalInv /\ BoundInv

\* The placement never moves, and every thread has a home.
LEMMA HomeIsNode == ASSUME Placed(plan) PROVE \A u \in Threads : Home(u) \in Nodes
  BY DEF Placed, Home, Threads, Nodes, Cpus

LEMMA Frame ==
  ASSUME Placed(plan), plan' = plan
  PROVE  /\ Threads' = Threads /\ Nodes' = Nodes /\ Counters' = Counters
         /\ Flat' = Flat
         /\ \A u \in Threads : Home(u)' = Home(u) /\ Home(u) \in Nodes
         /\ \A k : Group(k)' = Group(k)
         /\ Global \notin Nodes
<1>1. \A u \in Threads : Home(u) \in Nodes
  BY HomeIsNode
<1>2. /\ Threads' = Threads /\ Nodes' = Nodes /\ Counters' = Counters
      /\ Flat' = Flat
  BY DEF Threads, Nodes, Counters, Flat
<1>3. \A u : Home(u)' = Home(u)
  BY <1>2 DEF Home
<1>4. \A k : Group(k)' = Group(k)
  BY <1>2, <1>3 DEF Group
<1> QED
  BY <1>1, <1>2, <1>3, <1>4 DEF Nodes, Global

LEMMA TypeStep ==
  ASSUME TypeInv, Placed(plan), NEW t \in Threads, Step(t)
  PROVE  TypeInv' /\ plan' = plan
<1>1. plan' = plan
  BY DEF Step, ReadPhase, Arrive, Reset, Release, Wait, GlobalRead,
         GlobalArrive, GlobalReset, GlobalRelease, GlobalWait
<1>2. /\ Threads' = Threads /\ Counters' = Counters
      /\ Home(t) \in Counters /\ Global \in Counters
  BY <1>1, Frame DEF Counters
<1>3. /\ arrived' \in [Counters -> Nat] /\ phase' \in [Counters -> Nat]
      /\ cur' \in [Threads -> Nat] /\ gcur' \in [Threads -> Nat]
      /\ round' \in [Threads -> Nat]
  BY <1>2
  DEF TypeInv, Step, ReadPhase, Arrive, Reset, Release, Wait, GlobalRead,
      GlobalArrive, GlobalReset, GlobalRelease, GlobalWait, Leave
<1>4. bpc' \in [Threads -> Pc]
  BY DEF TypeInv, Pc, Step, ReadPhase, Arrive, Reset, Release, Wait, GlobalRead,
         GlobalArrive, GlobalReset, GlobalRelease, GlobalWait, Go
<1> QED
  BY <1>1, <1>2, <1>3, <1>4 DEF TypeInv

\* The counts expected of a node are those of its threads.
LEMMA Expected ==
  ASSUME Placed(plan), NEW t \in Threads
  PROVE  /\ IsFiniteSet(Group(Home(t)))
         /\ Cardinality(Group(Home(t))) = Expect(t)
<1>1. plan.n \in Nat \ {0}
  BY DEF Placed, Cpus
<1>2. IsFiniteSet(Threads) /\ Cardinality(Threads) = plan.n
  <2> DEFINE m == plan.n - 1
  <2>1. m \in Int /\ 0 \in Int /\ ~ (0 > m) /\ m - 0 + 1 = plan.n
    BY <1>1
  <2> HIDE DEF m
  <2>2. IsFiniteSet(0 .. m) /\ Cardinality(0 .. m) = plan.n
    BY <2>1, FS_Interval
  <2> QED
    BY <2>2 DEF Threads, m
<1>3. CASE Flat
  <2>1. Group(Home(t)) = Threads
    BY <1>3 DEF Group, Home
  <2> QED
    BY <1>2, <1>3, <2>1 DEF Expect
<1>4. CASE ~Flat
  <2>1. Group(Home(t)) = On(plan, plan.node[t]) /\ plan.node[t] \in 1 .. plan.nodes
    BY <1>4 DEF Group, Home, On, Threads, Placed
  <2>2. Group(Home(t)) \in SUBSET Threads
    BY DEF Group
  <2>3. plan.active > 1
    BY <1>4 DEF Flat, Placed
  <2> QED
    BY <1>2, <1>4, <2>1, <2>2, <2>3, FS_Subset DEF Expect, Placed
<1> QED
  BY <1>3, <1>4

\* Whoever finds all others of its node arrived is alone not to wait.
LEMMA LastOfNode ==
  ASSUME TypeInv, Placed(plan), LocalInv, CountInv, NEW t \in Threads,
         bpc[t] = "arrive"
  PROVE  /\ IsFiniteSet(Inside(Home(t)))
         /\ arrived[Home(t)] = Cardinality(Inside(Home(t)))
         /\ t \notin Inside(Home(t))
         /\ arrived[Home(t)] = Expect(t) - 1 =>
              \A u \in Threads : Home(u) = Home(t) /\ u # t =>
                                   bpc[u] = "wait" /\ round[u] = phase[Home(t)]
<1> DEFINE k == Home(t)
<1>1. /\ IsFiniteSet(Group(k)) /\ Cardinality(Group(k)) = Expect(t)
      /\ t \in Group(k) /\ k \in Nodes
  <2>1. k \in Nodes
    BY DEF Placed, Home, Threads, Nodes, Cpus
  <2> QED
    BY <2>1, Expected DEF Group
<1>2. \A u \in Group(k) : bpc[u] \notin Leading
  BY DEF LocalInv, Leading, Group
<1>3. arrived[k] = Cardinality(Inside(k))
  BY <1>1, <1>2 DEF CountInv
<1>4. Inside(k) \in SUBSET Group(k) /\ t \notin Inside(k)
  BY DEF Inside
<1>5. IsFiniteSet(Inside(k))
  BY <1>1, <1>4, FS_Subset
<1>6. ASSUME arrived[k] = Expect(t) - 1
      PROVE  Inside(k) \cup {t} = Group(k)
  <2>1. /\ IsFiniteSet(Inside(k) \cup {t})
        /\ Cardinality(Inside(k) \cup {t}) = Cardinality(Inside(k)) + 1
    BY <1>4, <1>5, FS_AddElement
  <2>2. Inside(k) \cup {t} \in SUBSET Group(k)
    BY <1>1, <1>4
  <2>3. Cardinality(Group(k)) \in Nat /\ Cardinality(Inside(k)) \in Nat
    BY <1>1, <1>5, FS_CardinalityType
  <2>4. Cardinality(Inside(k) \cup {t}) = Cardinality(Group(k))
    BY <1>1, <1>3, <1>6, <2>1, <2>3
  <2> QED
    BY <1>1, <2>2, <2>4, FS_Subset
<1>7. ASSUME arrived[k] = Expect(t) - 1,
             NEW u \in Threads, Home(u) = k, u # t
      PROVE  bpc[u] = "wait" /\ round[u] = phase[k]
  <2>1. u \in Inside(k)
    BY <1>6, <1>7 DEF Group
  <2> QED
    BY <1>2, <2>1 DEF Inside, Leading, TypeInv, Pc, Group
<1> QED
  BY <1>3, <1>4, <1>5, <1>7

LEMMA LocalStep ==
  ASSUME TypeInv, Placed(plan), LocalInv, CountInv, GlobalInv,
         NEW t \in Threads, Step(t)
  PROVE  LocalInv'
<1>1. /\ Threads' = Threads /\ Global \notin Nodes
      /\ \A u \in Threads : Home(u)' = Home(u) /\ Home(u) \in Nodes
  BY TypeStep, Frame
<1> SUFFICES ASSUME NEW s \in Threads
             PROVE  /\ bpc'[s] # "out" => cur'[s] = round'[s]
                    /\ bpc'[s] # "wait" => round'[s] = phase'[Home(s)]
                    /\ bpc'[s] = "wait" => round'[s] = phase'[Home(s)]
                                             \/ round'[s] + 1 = phase'[Home(s)]
                    /\ bpc'[s] \in Leading =>
                         \A u \in Threads : Home(u) = Home(s) /\ u # s =>
                           bpc'[u] = "wait" /\ round'[u] = phase'[Home(s)]
  BY <1>1 DEF LocalInv
<1> USE <1>1 DEF TypeInv, LocalInv, Counters, Leading, Go
<1>2. CASE ReadPhase(t)
  BY <1>2 DEF ReadPhase
<1>3. CASE Arrive(t)
  BY <1>3, LastOfNode DEF Arrive
<1>4. CASE Reset(t) \/ GlobalRead(t) \/ GlobalArrive(t) \/ GlobalReset(t)
  BY <1>4 DEF Reset, GlobalRead, GlobalArrive, GlobalReset
<1>5. CASE GlobalRelease(t)
  BY <1>5 DEF GlobalRelease, Global
<1>6. CASE GlobalWait(t)
  BY <1>6 DEF GlobalWait
<1>7. CASE Release(t)
  BY <1>7 DEF Release, Leave
<1>8. CASE Wait(t)
  BY <1>8 DEF Wait, Leave
<1> QED
  BY <1>2, <1>3, <1>4, <1>5, <1>6, <1>7, <1>8 DEF Step

\* Only the nodes' own counters and phases matter to what they have counted.
LEMMA CountStep ==
  ASSUME TypeInv, Placed(plan), LocalInv, CountInv, GlobalInv,
         NEW t \in Threads, Step(t)
  PROVE  CountInv'
<1>1. /\ Threads' = Threads /\ Nodes' = Nodes /\ Global \notin Nodes
      /\ \A u \in Threads : Home(u)' = Home(u) /\ Home(u) \in Nodes
      /\ \A k : Group(k)' = Group(k)
  BY TypeStep, Frame
<1> DEFINE Out(k) == \E u \in Group(k) : bpc[u] \in Leading \ {"reset"}
<1> SUFFICES ASSUME NEW k \in Nodes, Group(k) # {}
             PROVE  arrived'[k] = IF \E u \in Group(k) :
                                       bpc'[u] \in Leading \ {"reset"}
                                  THEN 0 ELSE Cardinality(Inside(k)')
  BY <1>1 DEF CountInv
<1>2. arrived[k] = IF Out(k) THEN 0 ELSE Cardinality(Inside(k))
  BY DEF CountInv
<1>3. Inside(k)' = {u \in Group(k) : /\ bpc'[u] \notin {"out", "arrive"}
                                     /\ round'[u] = phase'[k]}
  BY <1>1 DEF Inside
<1>4. \A u \in Group(k) : u \in Threads /\ Home(u) = k
  BY DEF Group
<1> USE <1>1 DEF TypeInv, Counters, Leading, Go
<1>5. CASE ReadPhase(t)
  <2>1. Inside(k)' = Inside(k) /\ arrived'[k] = arrived[k]
    BY <1>3, <1>4, <1>5 DEF Inside, ReadPhase
  <2> QED
    BY <1>2, <1>4, <1>5, <2>1 DEF ReadPhase
<1>6. CASE Arrive(t)
  <2>1. \A u \in Group(k) : bpc'[u] \in Leading \ {"reset"}
                              <=> bpc[u] \in Leading \ {"reset"}
    BY <1>4, <1>6 DEF Arrive
  <2>2. CASE Home(t) # k
    <3>1. Inside(k)' = Inside(k) /\ arrived'[k] = arrived[k]
      BY <1>3, <1>4, <1>6, <2>2 DEF Inside, Arrive
    <3> QED
      BY <1>2, <2>1, <3>1
  <2>3. CASE Home(t) = k
    <3>1. /\ IsFiniteSet(Inside(k)) /\ arrived[k] = Cardinality(Inside(k))
          /\ t \notin Inside(k)
      BY <1>6, <2>3, LastOfNode DEF Arrive
    <3>2. Inside(k)' = Inside(k) \cup {t}
      <4>1. t \in Group(k) /\ round[t] = phase[k]
        BY <1>6, <2>3 DEF Arrive, LocalInv, Group
      <4> QED
        BY <1>3, <1>4, <1>6, <4>1 DEF Inside, Arrive
    <3>3. Cardinality(Inside(k)') = Cardinality(Inside(k)) + 1
      BY <3>1, <3>2, FS_AddElement
    <3>4. ~ Out(k)
      BY <1>4, <1>6, <2>3 DEF Arrive, LocalInv
    <3>5. arrived'[k] = arrived[k] + 1
      BY <1>6, <2>3 DEF Arrive
    <3> QED
      BY <2>1, <3>1, <3>3, <3>4, <3>5
  <2> QED
    BY <2>2, <2>3
<1>7. CASE Reset(t)
  <2>1. CASE Home(t) # k
    <3>1. /\ Inside(k)' = Inside(k) /\ arrived'[k] = arrived[k]
          /\ \A u \in Group(k) : bpc'[u] = bpc[u]
      BY <1>3, <1>4, <1>7, <2>1 DEF Inside, Reset
    <3> QED
      BY <1>2, <3>1
  <2>2. CASE Home(t) = k
    <3>1. /\ t \in Group(k) /\ bpc'[t] \in Leading \ {"reset"}
          /\ arrived'[k] = 0
      BY <1>7, <2>2 DEF Reset, Group
    <3> QED
      BY <3>1
  <2> QED
    BY <2>1, <2>2
<1>8. CASE GlobalRead(t) \/ GlobalArrive(t) \/ GlobalReset(t) \/ GlobalWait(t)
           \/ GlobalRelease(t)
  <2>1. /\ arrived'[k] = arrived[k] /\ phase'[k] = phase[k] /\ round' = round
        /\ bpc[t] \in Leading \ {"reset"} /\ bpc'[t] \in Leading \ {"reset"}
        /\ \A u \in Threads : u # t => bpc'[u] = bpc[u]
    BY <1>8 DEF GlobalRead, GlobalArrive, GlobalReset, GlobalWait, GlobalRelease
  <2>2. Inside(k)' = Inside(k)
    BY <1>3, <1>4, <2>1 DEF Inside
  <2>3. \A u \in Group(k) : bpc'[u] \in Leading \ {"reset"}
                              <=> bpc[u] \in Leading \ {"reset"}
    BY <1>4, <2>1
  <2> QED
    BY <1>2, <2>1, <2>2, <2>3
<1>9. CASE Release(t)
  <2>1. CASE Home(t) # k
    <3>1. /\ Inside(k)' = Inside(k) /\ arrived'[k] = arrived[k]
          /\ \A u \in Group(k) : bpc'[u] = bpc[u]
      BY <1>3, <1>4, <1>9, <2>1 DEF Inside, Release, Leave
    <3> QED
      BY <1>2, <3>1
  <2>2. CASE Home(t) = k
    <3>1. /\ t \in Group(k) /\ bpc[t] = "release"
          /\ arrived'[k] = arrived[k] /\ bpc'[t] = "out"
      BY <1>9, <2>2 DEF Release, Group
    <3>2. \A u \in Group(k) : u # t =>
            /\ bpc'[u] = "wait" /\ round'[u] = phase[k] /\ round'[u] = round[u]
      BY <1>4, <1>9, <2>2, <3>1 DEF Release, Leave, LocalInv
    <3>3. phase'[k] = phase[k] + 1
      BY <1>9, <2>2, <3>1 DEF Release, LocalInv
    <3>4. Inside(k)' = {}
      BY <1>3, <1>4, <3>1, <3>2, <3>3
    <3>5. arrived[k] = 0
      BY <1>2, <3>1
    <3> QED
      BY <3>1, <3>2, <3>4, <3>5, FS_EmptySet
  <2> QED
    BY <2>1, <2>2
<1>10. CASE Wait(t)
  <2>1. /\ arrived'[k] = arrived[k] /\ phase'[k] = phase[k]
        /\ bpc[t] = "wait" /\ bpc'[t] = "out"
        /\ \A u \in Threads : u # t => bpc'[u] = bpc[u] /\ round'[u] = round[u]
    BY <1>10 DEF Wait, Leave
  <2>2. round[t] # phase[Home(t)]
    BY <1>10 DEF Wait, LocalInv
  <2>3. Inside(k)' = Inside(k)
    BY <1>3, <1>4, <2>1, <2>2 DEF Inside
  <2>4. \A u \in Group(k) : bpc'[u] \in Leading \ {"reset"}
                              <=> bpc[u] \in Leading \ {"reset"}
    BY <1>4, <2>1
  <2> QED
    BY <1>2, <2>1, <2>3, <2>4
<1> QED
  BY <1>5, <1>6, <1>7, <1>8, <1>9, <1>10 DEF Step

\* A leader that finds all others arrived completes the set of nodes in use.
LEMMA LastOfNodes ==
  ASSUME TypeInv, Placed(plan), LocalInv, ~Flat, LeaderInv, GlobalCountInv,
         NEW t \in Threads, bpc[t] = "garrive"
  PROVE  /\ IsFiniteSet(InsideNodes)
         /\ arrived[Global] = Cardinality(InsideNodes)
         /\ Home(t) \notin InsideNodes
         /\ arrived[Global] = plan.active - 1 =>
              \A u \in Threads : Home(u) \in InsideNodes \cup {Home(t)}
<1> DEFINE InUse == {k \in Nodes : Group(k) # {}}
<1>1. /\ \A u \in Threads : Home(u) \in Nodes
      /\ IsFiniteSet(Nodes)
  <2>1. plan.nodes \in Int
    BY DEF Placed, Cpus
  <2>2. IsFiniteSet(Nodes)
    BY <2>1, FS_Interval DEF Nodes
  <2> QED
    BY <2>2 DEF Placed, Home, Threads, Nodes, Cpus
<1>2. \A u \in Threads : Home(u) = Home(t) => bpc[u] \notin Leading \/ u = t
  BY DEF LocalInv, Leading
<1>3. \A u \in Threads : bpc[u] # "grelease"
  <2> SUFFICES ASSUME NEW u \in Threads, bpc[u] = "grelease" PROVE FALSE
    OBVIOUS
  <2>1. PICK v \in Threads : Home(v) = Home(t) /\ (v = u \/ bpc[v] = "gwait")
    BY DEF LeaderInv
  <2> QED
    BY <1>2, <2>1 DEF Leading
<1>4. arrived[Global] = Cardinality(InsideNodes)
  BY <1>3 DEF GlobalCountInv
<1>5. Home(t) \notin InsideNodes
  BY <1>2 DEF InsideNodes, Group, Leading
<1>6. InUse \in SUBSET Nodes /\ InsideNodes \in SUBSET Nodes
  BY DEF InsideNodes
<1>7. /\ IsFiniteSet(InsideNodes) /\ IsFiniteSet(InUse)
      /\ Cardinality(InUse) \in Nat /\ Cardinality(InsideNodes) \in Nat
  BY <1>1, <1>6, FS_Subset, FS_CardinalityType
<1>8. Cardinality(InUse) = plan.active
  <2>1. plan.active > 1
    BY DEF Flat, Placed
  <2>2. \A k : Group(k) = On(plan, k)
    BY DEF Group, Home, On, Threads
  <2>3. InUse = {k \in 1 .. plan.nodes : On(plan, k) # {}}
    BY <2>2 DEF Nodes
  <2> HIDE DEF InUse
  <2> QED
    BY <2>1, <2>3 DEF Placed
<1>9. ASSUME arrived[Global] = plan.active - 1
      PROVE  InsideNodes \cup {Home(t)} = InUse
  <2>1. /\ IsFiniteSet(InsideNodes \cup {Home(t)})
        /\ Cardinality(InsideNodes \cup {Home(t)}) = Cardinality(InsideNodes) + 1
    BY <1>5, <1>7, FS_AddElement
  <2>2. InsideNodes \cup {Home(t)} \in SUBSET InUse
    BY <1>1 DEF InsideNodes, Group
  <2> HIDE DEF InUse
  <2>3. Cardinality(InsideNodes \cup {Home(t)}) = Cardinality(InUse)
    BY <1>4, <1>7, <1>8, <1>9, <2>1
  <2> QED
    BY <1>7, <2>2, <2>3, FS_Subset
<1>10. \A u \in Threads : Home(u) \in InUse
  BY <1>1 DEF Group
<1> QED
  BY <1>4, <1>5, <1>7, <1>9, <1>10

LEMMA LeaderStep ==
  ASSUME TypeInv, Placed(plan), LocalInv, ~Flat, LeaderInv, GlobalCountInv,
         NEW t \in Threads, Step(t)
  PROVE  LeaderInv'
<1>1. /\ Threads' = Threads /\ Nodes' = Nodes /\ Global \notin Nodes
      /\ \A u \in Threads : Home(u)' = Home(u) /\ Home(u) \in Nodes
  BY TypeStep, Frame
<1> DEFINE G  == phase[Global]
           G1 == phase'[Global]
<1> SUFFICES ASSUME NEW s \in Threads
             PROVE  /\ bpc'[s] \in {"garrive", "gwait", "greset", "grelease"}
                         => gcur'[s] = round'[s]
                    /\ \/ phase'[Home(s)] = G1
                       \/ /\ phase'[Home(s)] + 1 = G1
                          /\ \E u \in Threads : /\ Home(u) = Home(s)
                                                /\ bpc'[u] \in {"gwait", "release"}
                    /\ bpc'[s] \in {"reset", "gread", "garrive", "greset", "grelease"}
                         => round'[s] = G1
                    /\ bpc'[s] = "release" => round'[s] + 1 = G1
                    /\ bpc'[s] \in {"greset", "grelease"} =>
                         \A u \in Threads : \E v \in Threads :
                           Home(v) = Home(u) /\ round'[v] = G1
                             /\ (v = s \/ bpc'[v] = "gwait")
  BY <1>1 DEF LeaderInv
<1> USE <1>1 DEF TypeInv, LocalInv, LeaderInv, Counters, Leading, Go
<1>2. CASE ReadPhase(t)
  BY <1>2 DEF ReadPhase
<1>3. CASE Arrive(t)
  <2>1. /\ bpc[t] = "arrive" /\ bpc'[t] \in {"reset", "wait"}
        /\ UNCHANGED <<phase, gcur, round>>
        /\ \A u \in Threads : u # t => bpc'[u] = bpc[u]
    BY <1>3 DEF Arrive
  <2>2. \A u \in Threads : Home(u) = Home(t) => bpc[u] \notin Leading
    BY <2>1
  <2>3. phase[Home(t)] = G
    BY <2>2
  <2>4. \A u \in Threads : bpc'[u] \in {"gwait", "greset", "grelease", "release"}
                             <=> bpc[u] \in {"gwait", "greset", "grelease", "release"}
    BY <2>1
  <2> QED
    BY <2>1, <2>2, <2>3, <2>4
<1>4. CASE Reset(t) \/ GlobalRead(t)
  BY <1>4 DEF Reset, GlobalRead
<1>5. CASE GlobalArrive(t)
  <2>1. /\ bpc[t] = "garrive" /\ bpc'[t] \in {"greset", "gwait"}
        /\ bpc'[t] = "greset" => arrived[Global] = plan.active - 1
        /\ UNCHANGED <<phase, gcur, round>>
        /\ \A u \in Threads : u # t => bpc'[u] = bpc[u]
    BY <1>5 DEF GlobalArrive
  <2>2. bpc'[t] = "greset" =>
          \A u \in Threads : Home(u) \in InsideNodes \cup {Home(t)}
    BY <2>1, LastOfNodes
  <2>3. ASSUME NEW r \in Threads, bpc[r] \in {"greset", "grelease"}
        PROVE  FALSE
    <3>1. PICK v \in Threads : Home(v) = Home(t) /\ (v = r \/ bpc[v] = "gwait")
      BY <2>3
    <3> QED
      BY <2>1, <2>3, <3>1
  <2>4. ASSUME bpc'[t] = "greset", NEW u \in Threads
        PROVE  \E v \in Threads : Home(v) = Home(u) /\ round'[v] = G1
                                    /\ (v = t \/ bpc'[v] = "gwait")
    <3>1. CASE Home(u) = Home(t)
      BY <2>1, <3>1
    <3>2. CASE Home(u) # Home(t)
      <4>1. Home(u) \in InsideNodes
        BY <2>2, <2>4, <3>2
      <4>2. PICK v \in Threads : /\ Home(v) = Home(u) /\ round[v] = G
                                 /\ bpc[v] \in {"gwait", "greset", "grelease"}
        BY <4>1 DEF InsideNodes, Group
      <4> QED
        BY <2>1, <2>3, <4>2
    <3> QED
      BY <3>1, <3>2
  <2>5. bpc'[s] \in {"greset", "grelease"} => s = t /\ bpc'[t] = "greset"
    BY <2>1, <2>3
  <2> QED
    BY <2>1, <2>4, <2>5
<1>6. CASE GlobalReset(t)
  <2>1. /\ bpc[t] = "greset" /\ bpc'[t] = "grelease"
        /\ UNCHANGED <<phase, gcur, round>>
        /\ \A u \in Threads : u # t => bpc'[u] = bpc[u]
    BY <1>6 DEF GlobalReset
  <2> QED
    BY <2>1
<1>7. CASE GlobalRelease(t)
  <2>1. /\ bpc[t] = "grelease" /\ bpc'[t] = "release"
        /\ G1 = G + 1 /\ \A u \in Threads : phase'[Home(u)] = phase[Home(u)]
        /\ UNCHANGED <<gcur, round>>
        /\ \A u \in Threads : u # t => bpc'[u] = bpc[u]
    BY <1>7 DEF GlobalRelease, Global
  <2>2. \A u \in Threads : \E v \in Threads :
          Home(v) = Home(u) /\ round[v] = G /\ (v = t \/ bpc[v] = "gwait")
    BY <2>1
  <2>3. \A u \in Threads : u # t =>
          bpc[u] \in {"wait", "gwait"} /\ round[u] = G /\ phase[Home(u)] = G
    BY <2>1, <2>2, SMTT(60)
  <2>4. phase[Home(t)] = G /\ round[t] = G
    BY <2>1
  <2>5. \A u \in Threads : \E v \in Threads :
          Home(v) = Home(u) /\ bpc'[v] \in {"gwait", "release"}
    <3> SUFFICES ASSUME NEW u \in Threads
                 PROVE  \E v \in Threads :
                          Home(v) = Home(u) /\ bpc'[v] \in {"gwait", "release"}
      OBVIOUS
    <3>1. PICK v \in Threads : Home(v) = Home(u) /\ (v = t \/ bpc[v] = "gwait")
      BY <2>2
    <3>2. bpc'[v] \in {"gwait", "release"}
      BY <2>1, <3>1
    <3> QED
      BY <3>1, <3>2
  <2>6. CASE s = t
    BY <2>1, <2>4, <2>5, <2>6
  <2>7. CASE s # t
    <3>1. bpc'[s] \in {"wait", "gwait"} /\ phase'[Home(s)] + 1 = G1
      BY <2>1, <2>3, <2>7
    <3> QED
      BY <2>1, <2>5, <2>7, <3>1
  <2> QED
    BY <2>6, <2>7
<1>8. CASE GlobalWait(t)
  <2>1. /\ bpc[t] = "gwait" /\ bpc'[t] = "release"
        /\ G # gcur[t]
        /\ UNCHANGED <<phase, gcur, round>>
        /\ \A u \in Threads : u # t => bpc'[u] = bpc[u]
    BY <1>8 DEF GlobalWait
  <2>2. round[t] + 1 = G
    BY <2>1
  <2> QED
    BY <2>1, <2>2
<1>9. CASE Release(t)
  <2>1. /\ bpc[t] = "release" /\ bpc'[t] = "out"
        /\ phase'[Home(t)] = round[t] + 1 /\ G1 = G
        /\ \A u \in Threads : Home(u) # Home(t) => phase'[Home(u)] = phase[Home(u)]
        /\ \A u \in Threads : u # t => bpc'[u] = bpc[u] /\ round'[u] = round[u]
        /\ UNCHANGED gcur
    BY <1>9 DEF Release, Leave
  <2>2. round[t] + 1 = G
    BY <2>1
  <2>3. \A u \in Threads : Home(u) = Home(t) => phase'[Home(u)] = G
    BY <2>1, <2>2
  <2>4. \A u \in Threads : bpc[u] = "greset" \/ bpc[u] = "grelease" =>
          \A v \in Threads : bpc[v] # "release"
    BY <2>1
  <2> QED
    BY <2>1, <2>2, <2>3, <2>4
<1>10. CASE Wait(t)
  <2>1. /\ bpc[t] = "wait" /\ bpc'[t] = "out"
        /\ UNCHANGED <<phase, gcur>>
        /\ \A u \in Threads : u # t => bpc'[u] = bpc[u] /\ round'[u] = round[u]
    BY <1>10 DEF Wait, Leave
  <2>2. round[t] # phase[Home(t)]
    BY <1>10 DEF Wait
  <2> QED
    BY <2>1, <2>2
<1> QED
  BY <1>2, <1>3, <1>4, <1>5, <1>6, <1>7, <1>8, <1>9, <1>10 DEF Step

LEMMA GlobalCountStep ==
  ASSUME TypeInv, Placed(plan), LocalInv, ~Flat, LeaderInv, GlobalCountInv,
         NEW t \in Threads, Step(t)
  PROVE  GlobalCountInv'
<1>1. /\ Threads' = Threads /\ Nodes' = Nodes /\ Global \notin Nodes
      /\ \A u \in Threads : Home(u)' = Home(u) /\ Home(u) \in Nodes
      /\ \A k : Group(k)' = Group(k)
  BY TypeStep, Frame
<1> DEFINE P     == {"gwait", "greset", "grelease"}
           In(u) == bpc[u] \in P /\ round[u] = phase[Global]
           Now(u) == bpc'[u] \in P /\ round'[u] = phase'[Global]
<1>2. InsideNodes = {k \in Nodes : \E u \in Group(k) : In(u)}
  BY DEF InsideNodes
<1>3. InsideNodes' = {k \in Nodes : \E u \in Group(k) : Now(u)}
  BY <1>1 DEF InsideNodes
<1>4. \A k \in Nodes : \A u \in Group(k) : u \in Threads /\ Home(u) = k
  BY DEF Group
<1>5. ASSUME arrived'[Global] = arrived[Global],
             \A u \in Threads : /\ Now(u) <=> In(u)
                                /\ bpc'[u] = "grelease" <=> bpc[u] = "grelease"
      PROVE  GlobalCountInv'
  <2>1. InsideNodes' = InsideNodes
    BY <1>2, <1>3, <1>4, <1>5
  <2> QED
    BY <1>1, <1>5, <2>1 DEF GlobalCountInv
<1> USE DEF TypeInv, Counters, Go, Global
<1>6. CASE ReadPhase(t) \/ Arrive(t) \/ Reset(t) \/ GlobalRead(t)
  BY <1>1, <1>5, <1>6 DEF ReadPhase, Arrive, Reset, GlobalRead
<1>7. CASE Release(t) \/ Wait(t)
  BY <1>1, <1>5, <1>7 DEF Release, Wait, Leave
<1>8. CASE GlobalWait(t)
  <2>1. gcur[t] = round[t]
    BY <1>8 DEF GlobalWait, LeaderInv
  <2> QED
    BY <1>1, <1>5, <1>8, <2>1 DEF GlobalWait
<1>9. CASE GlobalArrive(t)
  <2>1. /\ bpc[t] = "garrive" /\ bpc'[t] \in {"greset", "gwait"}
        /\ arrived'[Global] = arrived[Global] + 1
        /\ UNCHANGED <<phase, round>>
        /\ \A u \in Threads : u # t => bpc'[u] = bpc[u]
    BY <1>9 DEF GlobalArrive
  <2>2. /\ IsFiniteSet(InsideNodes) /\ arrived[Global] = Cardinality(InsideNodes)
        /\ Home(t) \notin InsideNodes
    BY <2>1, LastOfNodes
  <2>3. round[t] = phase[Global]
    BY <2>1 DEF LeaderInv
  <2>4. InsideNodes' = InsideNodes \cup {Home(t)}
    <3>1. \A u \in Threads : Now(u) <=> In(u) \/ u = t
      BY <2>1, <2>3
    <3>2. t \in Group(Home(t)) /\ Home(t) \in Nodes
      BY <1>1 DEF Group
    <3> HIDE DEF In, Now
    <3> QED
      BY <1>2, <1>3, <1>4, <3>1, <3>2
  <2>5. Cardinality(InsideNodes') = Cardinality(InsideNodes) + 1
    BY <2>2, <2>4, FS_AddElement
  <2>6. \A u \in Threads : bpc'[u] # "grelease"
    <3> SUFFICES ASSUME NEW u \in Threads, bpc[u] = "grelease" PROVE FALSE
      BY <2>1
    <3>1. PICK v \in Threads : Home(v) = Home(t) /\ (v = u \/ bpc[v] = "gwait")
      BY DEF LeaderInv
    <3> QED
      BY <2>1, <3>1 DEF LocalInv, Leading
  <2> QED
    BY <1>1, <2>1, <2>2, <2>5, <2>6 DEF GlobalCountInv
<1>10. CASE GlobalReset(t)
  <2>1. arrived'[Global] = 0 /\ bpc'[t] = "grelease"
    BY <1>1, <1>10 DEF GlobalReset
  <2> QED
    BY <1>1, <2>1 DEF GlobalCountInv
<1>11. CASE GlobalRelease(t)
  <2>1. /\ bpc[t] = "grelease" /\ bpc'[t] = "release"
        /\ phase'[Global] = phase[Global] + 1 /\ phase[Global] \in Nat
        /\ UNCHANGED <<arrived, round>>
        /\ \A u \in Threads : u # t => bpc'[u] = bpc[u]
    BY <1>1, <1>11 DEF GlobalRelease, LeaderInv
  <2>2. arrived[Global] = 0
    BY <2>1 DEF GlobalCountInv
  <2>3. \A u \in Threads : u # t =>
          bpc[u] \in {"wait", "gwait"} /\ round[u] = phase[Global]
    <3> SUFFICES ASSUME NEW u \in Threads, u # t
                 PROVE  bpc[u] \in {"wait", "gwait"} /\ round[u] = phase[Global]
      OBVIOUS
    <3>1. PICK v \in Threads : /\ Home(v) = Home(u) /\ round[v] = phase[Global]
                               /\ (v = t \/ bpc[v] = "gwait")
      BY <2>1 DEF LeaderInv
    <3> QED
      BY <2>1, <3>1 DEF LocalInv, Leading
  <2>4. \A u \in Threads : ~ Now(u) /\ bpc'[u] # "grelease"
    BY <2>1, <2>3
  <2>5. InsideNodes' = {}
    BY <1>3, <1>4, <2>4
  <2> QED
    BY <1>1, <2>1, <2>2, <2>4, <2>5, FS_EmptySet DEF GlobalCountInv
<1> QED
  BY <1>6, <1>7, <1>8, <1>9, <1>10, <1>11 DEF Step

LEMMA GlobalStep ==
  ASSUME TypeInv, Placed(plan), LocalInv, GlobalInv, NEW t \in Threads, Step(t)
  PROVE  GlobalInv'
<1>1. Threads' = Threads /\ Flat' = Flat
  BY TypeStep, Frame
<1>2. CASE Flat
  <2>1. \A u \in Threads : bpc[u] \in {"out", "arrive", "wait", "reset", "release"}
    BY <1>2 DEF GlobalInv
  <2>2. bpc \in [Threads -> Pc]
    BY DEF TypeInv
  <2>3. \A u \in Threads : bpc'[u] \in {"out", "arrive", "wait", "reset", "release"}
    BY <1>2, <2>1, <2>2
    DEF Step, ReadPhase, Arrive, Reset, Release, Wait, GlobalRead,
        GlobalArrive, GlobalReset, GlobalRelease, GlobalWait, Go
  <2> QED
    BY <1>1, <1>2, <2>3 DEF GlobalInv
<1>3. CASE ~Flat
  BY <1>1, <1>3, LeaderStep, GlobalCountStep DEF GlobalInv
<1> QED
  BY <1>2, <1>3

LEMMA BoundStep ==
  ASSUME TypeInv, Placed(plan), BoundInv, NEW t \in Threads, Step(t)
  PROVE  BoundInv'
<1>1. Threads' = Threads
  BY TypeStep, Frame
<1> QED
  BY <1>1
  DEF TypeInv, BoundInv, Step, ReadPhase, Arrive, Reset, Release, Wait,
      GlobalRead, GlobalArrive, GlobalReset, GlobalRelease, GlobalWait, Go, Leave

\* A barrier that nobody has arrived at yet.
Fresh ==
  /\ TypeInv /\ Placed(plan)
  /\ \A k \in Counters : phase[k] = 0 /\ arrived[k] = 0
  /\ \A u \in Threads : bpc[u] = "out" /\ round[u] = 0

LEMMA FreshInv == Fresh => IInv
<1> SUFFICES ASSUME Fresh PROVE IInv
  OBVIOUS
<1>2. /\ TypeInv
      /\ \A u \in Threads : Home(u) \in Nodes
      /\ \A k \in Nodes \cup {Global} : phase[k] = 0 /\ arrived[k] = 0
      /\ \A u \in Threads : bpc[u] = "out" /\ round[u] = 0
  BY HomeIsNode DEF Fresh, Counters
<1>3. LocalInv /\ BoundInv
  BY <1>2 DEF LocalInv, BoundInv, Leading
<1>4. \A k : Inside(k) = {}
  BY <1>2 DEF Inside, Group
<1>5. CountInv
  BY <1>2, <1>4, FS_EmptySet DEF CountInv, Leading, Group
<1>6. InsideNodes = {}
  BY <1>2 DEF InsideNodes, Group
<1>7. GlobalInv
  BY <1>2, <1>6, FS_EmptySet DEF GlobalInv, LeaderInv, GlobalCountInv
<1> QED
  BY <1>2, <1>3, <1>5, <1>7 DEF IInv

LEMMA InitInv == (\A p \in Plans : Placed(p)) /\ Init => IInv
<1> SUFFICES ASSUME Init, \A p \in Plans : Placed(p) PROVE IInv
  OBVIOUS
<1>1. TypeInv
  BY DEF Init, TypeInv, Counters, Pc
<1>2. Placed(plan)
  BY DEF Init
<1>3. \A k \in Counters : phase[k] = 0 /\ arrived[k] = 0
  BY DEF Init, Counters
<1>4. \A u \in Threads : bpc[u] = "out" /\ round[u] = 0
  BY DEF Init
<1> QED
  BY <1>1, <1>2, <1>3, <1>4, FreshInv DEF Fresh

LEMMA NextStep == [Next]_vars <=> (\E t \in Threads : Step(t)) \/ UNCHANGED vars
  BY DEF Next, Spin

LEMMA InvariantStep ==
  ASSUME \A p \in Plans : Placed(p), IInv, [Next]_vars
  PROVE  IInv'
<1>1. Placed(plan)
  BY DEF IInv, TypeInv
<1>2. CASE UNCHANGED vars
  <2>1. /\ Threads' = Threads /\ Nodes' = Nodes /\ Counters' = Counters
        /\ Flat' = Flat /\ \A u \in Threads : Home(u)' = Home(u)
        /\ \A k : Group(k)' = Group(k)
    BY <1>1, <1>2, Frame DEF vars
  <2>2. (\A k : Inside(k)' = Inside(k)) /\ InsideNodes' = InsideNodes
    BY <1>2, <2>1 DEF vars, Inside, InsideNodes
  <2>3. TypeInv' /\ BoundInv'
    BY <1>2, <2>1 DEF vars, IInv, TypeInv, BoundInv
  <2>4. LocalInv'
    BY <1>2, <2>1 DEF vars, IInv, LocalInv
  <2>5. CountInv'
    BY <1>2, <2>1, <2>2 DEF vars, IInv, CountInv
  <2>6. GlobalInv'
    BY <1>2, <2>1, <2>2 DEF vars, IInv, GlobalInv, LeaderInv, GlobalCountInv
  <2> QED
    BY <2>3, <2>4, <2>5, <2>6 DEF IInv
<1>3. CASE \E t \in Threads : Step(t)
  BY <1>1, <1>3, TypeStep, LocalStep, CountStep, GlobalStep, BoundStep DEF IInv
<1> QED
  BY <1>2, <1>3, NextStep

-----------------------------------------------------------------------------
(* The theorems *)

\* pool_create and bm_barrier_init agree: on each node the barrier expects
\* exactly the threads that were placed there, for every machine with a CPU
\* for every thread asked for, also when fewer threads could be created.
THEOREM BarrierPlanCounted ==
  ASSUME \A p \in Plans : PlanFits(p)
  PROVE  Spec => []PlanCounted
<1>1. Init => plan \in Plans
  BY DEF Init
<1>2. plan \in Plans /\ [Next]_vars => (plan \in Plans)'
  BY DEF Next, vars, Spin, Step, ReadPhase, Arrive, Reset, Release, Wait,
         GlobalRead, GlobalArrive, GlobalReset, GlobalRelease, GlobalWait
<1>3. plan \in Plans => PlanCounted
  <2> SUFFICES ASSUME plan \in Plans PROVE PlanCounted
    OBVIOUS
  <2>1. Placed(plan)
    BY Placement
  <2> QED
    BY <2>1, SameCardinality DEF PlanCounted, NP!WellCounted, Placed, On
<1> QED
  BY <1>1, <1>2, <1>3, PTL DEF Spec

\* The inductive invariant: rounds, phases and counts of nodes and machine.
THEOREM BarrierInvariant ==
  ASSUME \A p \in Plans : PlanFits(p)
  PROVE  Spec => []IInv
<1>1. \A p \in Plans : Placed(p)
  BY Placement
<1>2. Init => IInv
  BY <1>1, InitInv
<1>3. IInv /\ [Next]_vars => IInv'
  BY <1>1, InvariantStep
<1> QED
  BY <1>2, <1>3, PTL DEF Spec

\* When a thread leaves, everybody has entered the round it leaves.
LEMMA NobodyBehind ==
  ASSUME IInv, Placed(plan), NEW t \in Threads, NEW u \in Threads,
         bpc[t] = "release" \/ (bpc[t] = "wait" /\ phase[Home(t)] # cur[t])
  PROVE  Entered(u) >= round[t] + 1
<1>1. Home(t) \in Nodes /\ Home(u) \in Nodes
  BY HomeIsNode
<1> USE DEF IInv, TypeInv, LocalInv, Leading, Counters
<1>2. Entered(u) >= phase[Home(u)] /\ Entered(u) \in Nat
  BY <1>1 DEF Entered
<1>3. CASE Flat
  <2>1. Home(t) = Home(u)
    BY <1>3 DEF Home
  <2> QED
    BY <1>1, <1>2, <2>1 DEF Entered
<1>4. CASE ~Flat
  <2>1. LeaderInv
    BY <1>4 DEF GlobalInv
  <2>2. round[t] + 1 <= phase[Global]
    BY <1>1, <2>1 DEF LeaderInv
  <2>3. CASE phase[Home(u)] = phase[Global]
    BY <1>1, <1>2, <2>2, <2>3
  <2>4. CASE phase[Home(u)] # phase[Global]
    <3>1. PICK v \in Threads : /\ Home(v) = Home(u)
                               /\ bpc[v] \in {"gwait", "release"}
                               /\ phase[Home(u)] + 1 = phase[Global]
      BY <2>1, <2>4 DEF LeaderInv
    <3>2. Entered(u) = phase[Home(u)] + 1
      BY <1>1, <3>1 DEF Entered
    <3> QED
      BY <1>1, <2>2, <3>1, <3>2
  <2> QED
    BY <2>3, <2>4
<1> QED
  BY <1>3, <1>4

\* The barrier, flat or by node, is a barrier: nobody leaves a round before
\* everybody has entered it.
THEOREM BarrierIsRoundBarrier ==
  ASSUME \A p \in Plans : PlanFits(p)
  PROVE  Spec => ImplementsRoundBarrier
<1>1. Init => RB!Init
  BY DEF Init, RB!Init, Entered
<1>2. IInv /\ [Next]_vars => [RB!Next]_RB!vars
  <2> SUFFICES ASSUME IInv, [Next]_vars PROVE [RB!Next]_RB!vars
    OBVIOUS
  <2>1. Placed(plan)
    BY Placement DEF IInv, TypeInv
  <2>2. CASE UNCHANGED vars
    BY <2>2 DEF vars, RB!vars, Entered, Threads
  <2>3. ASSUME NEW t \in Threads, Step(t)
        PROVE  [RB!Next]_RB!vars
    <3> DEFINE E == [u \in Threads |-> Entered(u)]
    <3>1. plan' = plan /\ Threads' = Threads
      BY <2>1, <2>3, TypeStep, Frame DEF IInv
    <3>2. E' = [u \in Threads |-> Entered(u)']
      BY <3>1
    <3>3. DOMAIN round = Threads /\ bpc \in [Threads -> Pc]
          /\ round \in [Threads -> Nat]
      BY DEF IInv, TypeInv
    <3>4. CASE Arrive(t)
      <4>1. /\ bpc[t] = "arrive" /\ bpc'[t] \in {"reset", "wait"}
            /\ round' = round /\ \A u \in Threads : u # t => bpc'[u] = bpc[u]
        BY <3>3, <3>4 DEF Arrive, Go
      <4>2. E[t] = round[t] /\ round[t] < Rounds
        BY <4>1 DEF Entered, IInv, BoundInv
      <4>3. E' = [E EXCEPT ![t] = @ + 1]
        BY <3>2, <3>3, <4>1 DEF Entered
      <4> QED
        BY <3>3, <4>1, <4>2, <4>3 DEF RB!Next, RB!Enter
    <3>5. CASE Release(t) \/ Wait(t)
      <4>1. /\ bpc'[t] = "out" /\ bpc[t] \in {"release", "wait"}
            /\ round' = [round EXCEPT ![t] = @ + 1]
            /\ \A u \in Threads : u # t => bpc'[u] = bpc[u]
        BY <3>3, <3>5 DEF Release, Wait, Go, Leave
      <4>2. \A u \in Threads : Entered(u) >= round[t] + 1
        BY <2>1, <3>5, NobodyBehind DEF Release, Wait, Go
      <4>3. E[t] = round[t] + 1
        BY <4>1 DEF Entered
      <4>4. E' = E
        BY <3>2, <3>3, <4>1 DEF Entered
      <4>5. /\ round[t] < E[t]
            /\ \A u \in DOMAIN E : E[u] >= E[t]
        BY <3>3, <4>2, <4>3
      <4> QED
        BY <3>3, <4>1, <4>4, <4>5 DEF RB!Next, RB!Leave
    <3>6. CASE ReadPhase(t) \/ Reset(t) \/ GlobalRead(t) \/ GlobalArrive(t)
               \/ GlobalReset(t) \/ GlobalRelease(t) \/ GlobalWait(t)
      <4>1. round' = round
        BY <3>6 DEF ReadPhase, Reset, GlobalRead, GlobalArrive, GlobalReset,
                    GlobalRelease, GlobalWait
      <4>2. \A u \in Threads : bpc'[u] \in {"out", "arrive"}
                                 <=> bpc[u] \in {"out", "arrive"}
        BY <3>3, <3>6
        DEF ReadPhase, Reset, GlobalRead, GlobalArrive, GlobalReset,
            GlobalRelease, GlobalWait, Go
      <4>3. E' = E
        BY <3>2, <4>1, <4>2 DEF Entered
      <4> QED
        BY <4>1, <4>3 DEF RB!vars
    <3> QED
      BY <2>3, <3>4, <3>5, <3>6 DEF Step
  <2> QED
    BY <2>2, <2>3, NextStep
<1> QED
  BY <1>1, <1>2, BarrierInvariant, PTL
  DEF Spec, ImplementsRoundBarrier, RB!Spec
=============================================================================
