------------------------------- MODULE Barrier ------------------------------
(***************************************************************************)
(* The in-dispatch barrier of src/src/threadpool.c (bm_barrier_init,       *)
(* bm_barrier_wait): one flat phase counter when all threads share a NUMA  *)
(* node, otherwise one counter per node and a global one among the last    *)
(* arrivals.  Every atomic access is a step of its own, in program order.  *)
(***************************************************************************)
EXTENDS Naturals, FiniteSets

CONSTANTS
  Plans,       \* thread placements (NumaPlan!Plan) to consider
  MaxThreads,  \* BM_MAX_CPUS
  Rounds       \* waits each thread performs on one barrier; 3 in block_step

ASSUME PlansAssumption ==
  /\ Rounds \in Nat
  /\ MaxThreads \in Nat
  /\ \A p \in Plans : p.n \in 1 .. MaxThreads /\ p.nodes \in Nat \ {0}

VARIABLES
  plan,     \* the placement of this barrier's threads; never changes
  arrived,  \* bm_phase_ctr_t.arrived, one per node and one for "global"
  phase,    \* bm_phase_ctr_t.phase, likewise
  bpc,      \* where each thread is in bm_barrier_wait
  cur,      \* its local_cur (cur in the flat case)
  gcur,     \* its global_cur
  round     \* history: barriers each thread has completed

vars == <<plan, arrived, phase, bpc, cur, gcur, round>>

Threads == 0 .. plan.n - 1
Nodes   == 1 .. plan.nodes
Global  == 0

\* The flat barrier uses local[0] and expects all threads on it.
Flat      == plan.active <= 1
Home(t)   == IF Flat THEN 1 ELSE plan.node[t]
Expect(t) == IF Flat THEN plan.n ELSE plan.nodeN[plan.node[t]]

Init ==
  /\ plan \in Plans
  /\ arrived = [k \in Nodes \cup {Global} |-> 0]
  /\ phase = [k \in Nodes \cup {Global} |-> 0]
  /\ bpc = [t \in Threads |-> "out"]
  /\ cur = [t \in Threads |-> 0]
  /\ gcur = [t \in Threads |-> 0]
  /\ round = [t \in Threads |-> 0]

Go(t, from, to) ==
  /\ bpc[t] = from
  /\ bpc' = [bpc EXCEPT ![t] = to]

\* Read the counter's phase before arriving on it.
ReadPhase(t) ==
  /\ round[t] < Rounds
  /\ Go(t, "out", "arrive")
  /\ cur' = [cur EXCEPT ![t] = phase[Home(t)]]
  /\ UNCHANGED <<plan, arrived, phase, gcur, round>>

\* fetch_add on the node's counter: the last of the node becomes its leader.
Arrive(t) ==
  /\ Go(t, "arrive", IF arrived[Home(t)] = Expect(t) - 1
                     THEN "reset" ELSE "wait")
  /\ arrived' = [arrived EXCEPT ![Home(t)] = @ + 1]
  /\ UNCHANGED <<plan, phase, cur, gcur, round>>

\* The leader clears the counter for the next round.
Reset(t) ==
  /\ Go(t, "reset", IF Flat THEN "release" ELSE "gread")
  /\ arrived' = [arrived EXCEPT ![Home(t)] = 0]
  /\ UNCHANGED <<plan, phase, cur, gcur, round>>

GlobalRead(t) ==
  /\ Go(t, "gread", "garrive")
  /\ gcur' = [gcur EXCEPT ![t] = phase[Global]]
  /\ UNCHANGED <<plan, arrived, phase, cur, round>>

\* Mutant: expects a leader from every node of the machine.
GlobalArriveAllNodes(t) ==
  /\ Go(t, "garrive", IF arrived[Global] = plan.nodes - 1
                      THEN "greset" ELSE "gwait")
  /\ arrived' = [arrived EXCEPT ![Global] = @ + 1]
  /\ UNCHANGED <<plan, phase, cur, gcur, round>>

GlobalArrive(t) ==
  /\ Go(t, "garrive", IF arrived[Global] = plan.active - 1
                      THEN "greset" ELSE "gwait")
  /\ arrived' = [arrived EXCEPT ![Global] = @ + 1]
  /\ UNCHANGED <<plan, phase, cur, gcur, round>>

GlobalReset(t) ==
  /\ Go(t, "greset", "grelease")
  /\ arrived' = [arrived EXCEPT ![Global] = 0]
  /\ UNCHANGED <<plan, phase, cur, gcur, round>>

GlobalRelease(t) ==
  /\ Go(t, "grelease", "release")
  /\ phase' = [phase EXCEPT ![Global] = gcur[t] + 1]
  /\ UNCHANGED <<plan, arrived, cur, gcur, round>>

GlobalWait(t) ==
  /\ phase[Global] # gcur[t]
  /\ Go(t, "gwait", "release")
  /\ UNCHANGED <<plan, arrived, phase, cur, gcur, round>>

Leave(t) == round' = [round EXCEPT ![t] = @ + 1]

\* The leader releases its node and returns.
Release(t) ==
  /\ Go(t, "release", "out")
  /\ phase' = [phase EXCEPT ![Home(t)] = cur[t] + 1]
  /\ Leave(t)
  /\ UNCHANGED <<plan, arrived, cur, gcur>>

\* Mutant: a waiter returns without looking.
WaitNot(t) ==
  /\ Go(t, "wait", "out")
  /\ Leave(t)
  /\ UNCHANGED <<plan, arrived, phase, cur, gcur>>

\* A waiter has seen the phase move and returns.
Wait(t) ==
  /\ phase[Home(t)] # cur[t]
  /\ Go(t, "wait", "out")
  /\ Leave(t)
  /\ UNCHANGED <<plan, arrived, phase, cur, gcur>>

Step(t) ==
  \/ ReadPhase(t) \/ Arrive(t) \/ Reset(t) \/ Release(t) \/ Wait(t)
  \/ GlobalRead(t) \/ GlobalArrive(t) \/ GlobalReset(t) \/ GlobalRelease(t)
  \/ GlobalWait(t)

\* A waiter that sees no change reads again: a step, so that threads waiting
\* for each other are a behaviour that never completes.
Spin(t) == bpc[t] \in {"wait", "gwait"} /\ UNCHANGED vars

\* Every thread has done its rounds.
Finished == \A t \in Threads : bpc[t] = "out" /\ round[t] = Rounds

Next ==
  \/ \E t \in Threads : Step(t) \/ Spin(t)
  \/ Finished /\ UNCHANGED vars

\* Spinning threads keep being scheduled.
Spec ==
  /\ Init /\ [][Next]_vars
  /\ \A t \in 0 .. MaxThreads - 1 : WF_vars(t \in Threads /\ Step(t))

-----------------------------------------------------------------------------
\* A thread that has done its fetch_add is in the round.
Entered(t) == IF bpc[t] \in {"out", "arrive"} THEN round[t] ELSE round[t] + 1

NP == INSTANCE NumaPlan

\* bm_barrier_init counts on each node the threads the pool has placed there.
PlanCounted == NP!WellCounted(plan)

\* Every thread gets through every round.
Completes == <>[]Finished

RB == INSTANCE RoundBarrier WITH
        entered <- [t \in Threads |-> Entered(t)], left <- round

ImplementsRoundBarrier == RB!Spec
=============================================================================
