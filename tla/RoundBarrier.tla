---------------------------- MODULE RoundBarrier ----------------------------
(***************************************************************************)
(* What bm_barrier_wait promises: a group of threads goes through a        *)
(* sequence of rounds, and nobody leaves a round before everybody has      *)
(* entered it.                                                             *)
(***************************************************************************)
EXTENDS Naturals

CONSTANT Rounds

VARIABLES
  entered,  \* how many rounds each thread has entered
  left      \* how many it has left

vars == <<entered, left>>

Init ==
  /\ entered = left
  /\ \A t \in DOMAIN left : left[t] = 0

Enter(t) ==
  /\ entered[t] = left[t] /\ entered[t] < Rounds
  /\ entered' = [entered EXCEPT ![t] = @ + 1]
  /\ UNCHANGED left

Leave(t) ==
  /\ left[t] < entered[t]
  /\ \A u \in DOMAIN entered : entered[u] >= entered[t]
  /\ left' = [left EXCEPT ![t] = @ + 1]
  /\ UNCHANGED entered

Next == \E t \in DOMAIN left : Enter(t) \/ Leave(t)

Spec == Init /\ [][Next]_vars
=============================================================================
