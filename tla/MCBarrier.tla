------------------------------ MODULE MCBarrier -----------------------------
(***************************************************************************)
(* Instances of Barrier: every placement the pool computes on machines of  *)
(* up to three NUMA nodes of one or two CPUs each, with up to four threads *)
(* running of those asked for.                                             *)
(***************************************************************************)
EXTENDS Barrier, Sequences

Machines == UNION {[1 .. k -> 1 .. 2] : k \in 1 .. 3}

\* No more threads than the machine has CPUs (any number on a single node).
FittingPlans ==
  {NP!Plan(r[1], r[2], r[3]) :
     r \in {r \in Machines \X (2 .. 4) \X (2 .. 4) :
              /\ r[3] <= r[2]
              /\ Len(r[1]) = 1 \/ r[2] <= NP!Capacity(r[1])}}
=============================================================================
