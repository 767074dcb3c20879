------------------------------ MODULE ForkJoin ------------------------------
(***************************************************************************)
(* What bm_parallel_for promises its caller, whatever the pool does inside *)
(* (threadpool.c): a call opens a dispatch on the thread ids 0 .. k-1,     *)
(* every one of them runs the task function exactly once, nobody else runs *)
(* it, and the call returns only when all of them have finished.           *)
(***************************************************************************)
EXTENDS Naturals

CONSTANT Tids  \* every thread id a dispatch may use

VARIABLES
  busy,    \* TRUE while a bm_parallel_for call is in progress
  active,  \* the thread ids of the last dispatch
  ran      \* how often each thread id has finished the task of that dispatch

vars == <<busy, active, ran>>

Init ==
  /\ busy = FALSE
  /\ active = {}
  /\ ran = [t \in Tids |-> 0]

\* The call starts: nobody has run anything yet.
Begin ==
  /\ ~busy
  /\ busy' = TRUE
  /\ active' \in SUBSET Tids
  /\ ran' = [t \in Tids |-> 0]

\* One member of the dispatch finishes the task, for the first time.
Exec(t) ==
  /\ busy
  /\ t \in active
  /\ ran[t] = 0
  /\ ran' = [ran EXCEPT ![t] = 1]
  /\ UNCHANGED <<busy, active>>

\* The call returns, once every member has finished.
Return ==
  /\ busy
  /\ \A t \in active : ran[t] = 1
  /\ busy' = FALSE
  /\ UNCHANGED <<active, ran>>

Next == Begin \/ Return \/ \E t \in Tids : Exec(t)

Spec == Init /\ [][Next]_vars
=============================================================================
