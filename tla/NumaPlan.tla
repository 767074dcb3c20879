------------------------------ MODULE NumaPlan ------------------------------
(***************************************************************************)
(* Which NUMA node each thread of the pool belongs to (pool_create in      *)
(* src/src/threadpool.c), and the per-node counts bm_barrier_init derives  *)
(* from it.  A machine is its sequence of CPU counts, one entry per node;  *)
(* detect_numa stops at the first node without CPUs, so all are positive.  *)
(* Nodes are numbered from 1 here and from 0 in the code.                  *)
(***************************************************************************)
EXTENDS Integers, Sequences, FiniteSets

Min2(a, b) == IF a < b THEN a ELSE b

\* tid_offset before each node is filled: nodes are packed in order, each up
\* to its capacity, until no thread remains.
Offset(cap, n) ==
  LET off[k \in 1 .. Len(cap) + 1] ==
        IF k = 1 THEN 0
        ELSE off[k - 1] + Min2(n - off[k - 1], cap[k - 1])
  IN  off

\* node_first_tid[k] for a pool planned for n0 threads of which n were
\* created (n = n0 unless pthread_create failed and the plan was redone).  A
\* node the second loop does not reach keeps what the first one gave it, and
\* one that neither reaches the zeroes of the static g_pool.
Reached(cap, n, k) == Offset(cap, n)[k] < n

FirstTid(cap, n0, n, k) ==
  CASE Reached(cap, n, k) -> Offset(cap, n)[k]
    [] Reached(cap, n0, k) /\ ~Reached(cap, n, k) -> Offset(cap, n0)[k]
    [] OTHER -> 0

\* node_threads[k], likewise.
NodeThreads(cap, n0, n, k) ==
  CASE Reached(cap, n, k) -> Min2(n - Offset(cap, n)[k], cap[k])
    [] Reached(cap, n0, k) /\ ~Reached(cap, n, k) ->
         Min2(n0 - Offset(cap, n0)[k], cap[k])
    [] OTHER -> 0

\* tid_node[t]: the node that was given t; a tid beyond every capacity was
\* never assigned and keeps the first node.
TidNode(cap, n, t) ==
  LET home == {k \in 1 .. Len(cap) :
                 Offset(cap, n)[k] <= t /\ t < Offset(cap, n)[k + 1]}
  IN  IF Len(cap) <= 1 \/ home = {} THEN 1 ELSE CHOOSE k \in home : TRUE

\* Mutant: the node's planned count, not clamped to the threads running.
NodeNUnclamped(cap, n0, n, k) ==
  IF Len(cap) <= 1 THEN n ELSE NodeThreads(cap, n0, n, k)

\* bm_barrier_init: how many of the tids 0 .. n-1 fall into node k's range.
NodeN(cap, n0, n, k) ==
  LET first == FirstTid(cap, n0, n, k)
      hi == Min2(first + NodeThreads(cap, n0, n, k), n)
  IN  IF Len(cap) <= 1 THEN n
      ELSE IF hi > first THEN hi - first ELSE 0

\* What the pool and a freshly initialised barrier know of its n threads.
Plan(cap, n0, n) ==
  [n      |-> n,
   nodes  |-> Len(cap),
   node   |-> [t \in 0 .. n - 1 |-> TidNode(cap, n, t)],
   nodeN  |-> [k \in 1 .. Len(cap) |-> NodeN(cap, n0, n, k)],
   active |-> IF Len(cap) <= 1 THEN 1
              ELSE Cardinality({k \in 1 .. Len(cap) :
                                  NodeN(cap, n0, n, k) > 0})]

Capacity(cap) ==
  LET sum[k \in 0 .. Len(cap)] == IF k = 0 THEN 0 ELSE sum[k - 1] + cap[k]
  IN  sum[Len(cap)]

\* The counts of a plan are those of its placement.
WellCounted(p) ==
  p.active > 1 =>
    \A k \in 1 .. p.nodes :
      p.nodeN[k] = Cardinality({t \in 0 .. p.n - 1 : p.node[t] = k})
=============================================================================
