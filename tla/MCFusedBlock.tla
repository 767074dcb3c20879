---------------------------- MODULE MCFusedBlock ----------------------------
(***************************************************************************)
(* Instances of FusedBlock: a single-node pool that steals chunks, a       *)
(* two-node pool with static ranges, one thread, and a pool with more      *)
(* threads than the two nodes have CPUs.                                   *)
(***************************************************************************)
EXTENDS FusedBlock

NP == INSTANCE NumaPlan

StealPlans   == {NP!Plan(<<4>>, 2, 2),
                 NP!Plan(<<4>>, 3, 3)}
NumaPlans    == {NP!Plan(<<2, 2>>, 3, 3), NP!Plan(<<1, 1>>, 2, 2)}
CrowdedPlans == {NP!Plan(<<1, 1>>, 3, 3)}
AllPlans     == StealPlans \cup NumaPlans \cup {NP!Plan(<<4>>, 1, 1)}

BothKernels  == {"vector", "scalar"}
VectorOnly   == {"vector"}
=============================================================================
