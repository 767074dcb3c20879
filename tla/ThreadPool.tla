----------------------------- MODULE ThreadPool -----------------------------
(***************************************************************************)
(* The fork-join worker pool of src/src/threadpool.c: creation with        *)
(* pthread_create failures, per-worker generation mailboxes, the hybrid    *)
(* spin / condition-variable wait, dispatch and join, and shutdown.        *)
(*                                                                         *)
(* One client thread (tid 0) calls the API; the header of thread_pool_t    *)
(* demands a single caller.  fn and arg are abstracted to the identity of  *)
(* the call that published them.  The spin budget is a choice: a worker    *)
(* that may sleep goes to the slow path at any spin.                       *)
(***************************************************************************)
EXTENDS Naturals

CONSTANTS
  MaxThreads,  \* BM_MAX_CPUS: bm_set_threads caps its argument there
  MaxCalls     \* bound: set_threads and parallel_for calls of the client

ASSUME BoundsAssumption ==
  /\ MaxThreads \in Nat \ {0}
  /\ MaxCalls \in Nat

Tids    == 0 .. MaxThreads - 1
Workers == 1 .. MaxThreads - 1

VARIABLES
  up,        \* g_pool.workers # NULL
  cvs,       \* g_pool.worker_cvs # NULL
  mayWait,   \* g_pool.poll_intensity < 100
  nThreads,  \* g_pool.n_threads; n_workers is one less when the pool is up
  shutdown,  \* g_pool.shutdown
  curGen,    \* g_pool.cur_gen
  job,       \* g_pool.fn, arg (the publishing call) and n_active
  wakeGen,   \* worker_t.wake_gen
  doneGen,   \* worker_t.last_done_gen
  myGen,     \* worker_entry's local my_gen
  got,       \* the job worker_entry passed to fn
  wpc,       \* where each worker is in worker_entry
  mpc,       \* where the client is in the API
  cursor,    \* loop variable i of the client's loops, as a tid
  eff,       \* bm_parallel_for's local "effective" (last call)
  single,    \* the free in progress was called by bm_set_threads(1)
  calls,     \* number of calls so far
  ran        \* history: finished fn invocations per tid in the last dispatch

poolVars   == <<up, cvs, mayWait, nThreads, shutdown>>
workerVars == <<myGen, got>>
vars == <<poolVars, curGen, job, wakeGen, doneGen, workerVars, wpc, mpc,
          cursor, eff, single, calls, ran>>

\* Where a live worker that is not handling a wake-up can be: testing its
\* mailbox, on its way to the slow path, between the re-check and
\* pthread_cond_wait with its mutex held, or asleep in it.
Parked == {"spin", "slow", "mustWait", "asleep"}
Busy   == {"claimed", "running", "ran"}

Dispatching == mpc \in {"wake", "signal", "work", "join"}
Halting     == mpc \in {"haltWake", "haltSignal", "haltJoin"}

Job == [call : 0 .. MaxCalls, n : 0 .. MaxThreads]

Init ==
  /\ up = FALSE /\ cvs = FALSE /\ mayWait = FALSE /\ shutdown = FALSE
  /\ nThreads = 0 /\ curGen = 0
  /\ job = [call |-> 0, n |-> 0]
  /\ wakeGen = [w \in Workers |-> 0]
  /\ doneGen = [w \in Workers |-> 0]
  /\ myGen = [w \in Workers |-> 0]
  /\ got = [w \in Workers |-> job]
  /\ wpc = [w \in Workers |-> "absent"]
  /\ mpc = "idle" /\ cursor = 1 /\ eff = 0 /\ single = FALSE
  /\ calls = 0
  /\ ran = [t \in Tids |-> 0]

-----------------------------------------------------------------------------
(* Creation: bm_set_threads and pool_create *)

\* bm_set_poll: the program calls it while parsing arguments, before any pool.
SetPoll ==
  /\ mpc = "idle" /\ ~up /\ ~mayWait
  /\ mayWait' = TRUE
  /\ UNCHANGED <<up, cvs, nThreads, shutdown, curGen, job, wakeGen, doneGen,
                 workerVars, wpc, mpc, cursor, eff, single, calls, ran>>

Call == /\ mpc = "idle" /\ calls < MaxCalls
        /\ calls' = calls + 1

\* bm_set_threads(1) without a pool, pool_create over an existing pool (an
\* early return), and pool_create whose worker array cannot be allocated.
SetThreadsTrivial ==
  /\ Call
  /\ \/ ~up /\ nThreads' = 1
     \/ up /\ UNCHANGED nThreads
  /\ UNCHANGED <<up, cvs, mayWait, shutdown, curGen, job, wakeGen, doneGen,
                 workerVars, wpc, mpc, cursor, eff, single, ran>>

\* pool_create(n) up to the pthread_create loop; the condvar sidecar is
\* optional, its allocation may fail.
CreatePool(n) ==
  /\ Call
  /\ ~up /\ n > 1
  /\ up' = TRUE /\ cvs' \in BOOLEAN /\ nThreads' = n /\ shutdown' = FALSE
  /\ curGen' = 0
  /\ wakeGen' = [w \in Workers |-> 0]
  /\ doneGen' = [w \in Workers |-> 0]
  /\ mpc' = "spawn" /\ cursor' = 1
  /\ UNCHANGED <<mayWait, job, workerVars, wpc, eff, single, ran>>

\* pthread_create succeeded: the worker starts in worker_entry with my_gen 0.
Spawn ==
  /\ mpc = "spawn" /\ cursor < nThreads
  /\ wpc' = [wpc EXCEPT ![cursor] = "spin"]
  /\ myGen' = [myGen EXCEPT ![cursor] = 0]
  /\ cursor' = cursor + 1
  /\ UNCHANGED <<poolVars, curGen, job, wakeGen, doneGen, got, mpc, eff,
                 single, calls, ran>>

\* pthread_create failed: the pool keeps the workers it has, and is given up
\* when it has none.
SpawnFail ==
  /\ mpc = "spawn" /\ cursor < nThreads
  /\ nThreads' = cursor
  /\ up' = (cursor > 1)
  /\ cvs' = (cvs /\ cursor > 1)
  /\ mpc' = "idle"
  /\ UNCHANGED <<mayWait, shutdown, curGen, job, wakeGen, doneGen, workerVars,
                 wpc, cursor, eff, single, calls, ran>>

SpawnDone ==
  /\ mpc = "spawn" /\ cursor = nThreads
  /\ mpc' = "idle"
  /\ UNCHANGED <<poolVars, curGen, job, wakeGen, doneGen, workerVars, wpc,
                 cursor, eff, single, calls, ran>>

-----------------------------------------------------------------------------
(* bm_parallel_for *)

\* Mutant: the caller is counted among the workers and once more.
EffectiveOneTooMany(k) == IF k > 0 /\ k < nThreads THEN k ELSE nThreads + 1

\* The number of threads a dispatch of k tasks uses (k = 0: all of them).
Effective(k) == IF k > 0 /\ k < nThreads THEN k ELSE nThreads

\* No pool, or one task: the caller runs fn(0, 1, arg) itself.
ParallelForInline(k) ==
  /\ Call
  /\ ~up \/ Effective(k) <= 1
  /\ eff' = 1
  /\ ran' = [t \in Tids |-> 0]
  /\ mpc' = "work"
  /\ UNCHANGED <<poolVars, curGen, job, wakeGen, doneGen, workerVars, wpc,
                 cursor, single>>

\* Mutant: the generation is not advanced.
ParallelForSameGen(k) ==
  /\ Call
  /\ up /\ Effective(k) > 1
  /\ eff' = Effective(k)
  /\ job' = [call |-> calls', n |-> eff']
  /\ ran' = [t \in Tids |-> 0]
  /\ mpc' = "wake" /\ cursor' = 1
  /\ UNCHANGED <<poolVars, curGen, wakeGen, doneGen, workerVars, wpc, single>>

\* Publish the job and take a new generation, before any mailbox is written.
ParallelFor(k) ==
  /\ Call
  /\ up /\ Effective(k) > 1
  /\ eff' = Effective(k)
  /\ job' = [call |-> calls', n |-> eff']
  /\ curGen' = curGen + 1
  /\ ran' = [t \in Tids |-> 0]
  /\ mpc' = "wake" /\ cursor' = 1
  /\ UNCHANGED <<poolVars, wakeGen, doneGen, workerVars, wpc, single>>

\* The release store to one active worker's mailbox.
WakeWorker ==
  /\ mpc = "wake" /\ cursor < eff
  /\ wakeGen' = [wakeGen EXCEPT ![cursor] = curGen]
  /\ cursor' = cursor + 1
  /\ UNCHANGED <<poolVars, curGen, job, doneGen, workerVars, wpc, mpc, eff,
                 single, calls, ran>>

WakeDone ==
  /\ mpc = "wake" /\ cursor = eff
  /\ mpc' = IF mayWait /\ cvs THEN "signal" ELSE "work"
  /\ cursor' = 1
  /\ UNCHANGED <<poolVars, curGen, job, wakeGen, doneGen, workerVars, wpc,
                 eff, single, calls, ran>>

\* The worker's mutex, held from its re-check until pthread_cond_wait.
MutexFree(w) == wpc[w] # "mustWait"

\* Lock, pthread_cond_signal, unlock: a sleeper returns to its spin loop.
CondSignal(w) ==
  /\ MutexFree(w)
  /\ wpc' = [wpc EXCEPT ![w] = IF @ = "asleep" THEN "spin" ELSE @]

SignalWorker ==
  /\ mpc = "signal" /\ cursor < eff
  /\ CondSignal(cursor)
  /\ cursor' = cursor + 1
  /\ UNCHANGED <<poolVars, curGen, job, wakeGen, doneGen, workerVars, mpc,
                 eff, single, calls, ran>>

SignalDone ==
  /\ mpc = "signal" /\ cursor = eff
  /\ mpc' = "work"
  /\ UNCHANGED <<poolVars, curGen, job, wakeGen, doneGen, workerVars, wpc,
                 cursor, eff, single, calls, ran>>

\* The caller's own share, fn(0, effective, arg).
MainWork ==
  /\ mpc = "work"
  /\ ran' = [ran EXCEPT ![0] = @ + 1]
  /\ mpc' = "join" /\ cursor' = 1
  /\ UNCHANGED <<poolVars, curGen, job, wakeGen, doneGen, workerVars, wpc,
                 eff, single, calls>>

\* Mutant: the scan does not look at the flag.
JoinWorkerUnseen ==
  /\ mpc = "join" /\ cursor < eff
  /\ cursor' = cursor + 1
  /\ UNCHANGED <<poolVars, curGen, job, wakeGen, doneGen, workerVars, wpc,
                 mpc, eff, single, calls, ran>>

\* The completion scan has seen this worker's flag.
JoinWorker ==
  /\ mpc = "join" /\ cursor < eff
  /\ doneGen[cursor] = curGen
  /\ cursor' = cursor + 1
  /\ UNCHANGED <<poolVars, curGen, job, wakeGen, doneGen, workerVars, wpc,
                 mpc, eff, single, calls, ran>>

JoinDone ==
  /\ mpc = "join" /\ cursor = eff
  /\ mpc' = "idle"
  /\ UNCHANGED <<poolVars, curGen, job, wakeGen, doneGen, workerVars, wpc,
                 cursor, eff, single, calls, ran>>

-----------------------------------------------------------------------------
(* bm_thread_pool_free, also called by bm_set_threads(1) *)

\* Mutant: the workers are woken without the shutdown flag.
FreeNoFlag(fromSetThreads) ==
  /\ mpc = "idle" /\ up
  /\ curGen' = curGen + 1
  /\ single' = fromSetThreads
  /\ mpc' = "haltWake" /\ cursor' = 1
  /\ UNCHANGED <<poolVars, job, wakeGen, doneGen, workerVars, wpc, eff, calls,
                 ran>>

Free(fromSetThreads) ==
  /\ mpc = "idle" /\ up
  /\ shutdown' = TRUE
  /\ curGen' = curGen + 1
  /\ single' = fromSetThreads
  /\ mpc' = "haltWake" /\ cursor' = 1
  /\ UNCHANGED <<up, cvs, mayWait, nThreads, job, wakeGen, doneGen,
                 workerVars, wpc, eff, calls, ran>>

HaltWake ==
  /\ mpc = "haltWake" /\ cursor < nThreads
  /\ wakeGen' = [wakeGen EXCEPT ![cursor] = curGen]
  /\ cursor' = cursor + 1
  /\ UNCHANGED <<poolVars, curGen, job, doneGen, workerVars, wpc, mpc, eff,
                 single, calls, ran>>

HaltWakeDone ==
  /\ mpc = "haltWake" /\ cursor = nThreads
  /\ mpc' = IF cvs THEN "haltSignal" ELSE "haltJoin"
  /\ cursor' = 1
  /\ UNCHANGED <<poolVars, curGen, job, wakeGen, doneGen, workerVars, wpc,
                 eff, single, calls, ran>>

HaltSignal ==
  /\ mpc = "haltSignal" /\ cursor < nThreads
  /\ CondSignal(cursor)
  /\ cursor' = cursor + 1
  /\ UNCHANGED <<poolVars, curGen, job, wakeGen, doneGen, workerVars, mpc,
                 eff, single, calls, ran>>

HaltSignalDone ==
  /\ mpc = "haltSignal" /\ cursor = nThreads
  /\ mpc' = "haltJoin" /\ cursor' = 1
  /\ UNCHANGED <<poolVars, curGen, job, wakeGen, doneGen, workerVars, wpc,
                 eff, single, calls, ran>>

\* pthread_join on one worker.
HaltJoin ==
  /\ mpc = "haltJoin" /\ cursor < nThreads
  /\ wpc[cursor] = "exited"
  /\ wpc' = [wpc EXCEPT ![cursor] = "absent"]
  /\ cursor' = cursor + 1
  /\ UNCHANGED <<poolVars, curGen, job, wakeGen, doneGen, workerVars, mpc,
                 eff, single, calls, ran>>

\* Mutant: they are released while workers are still to be joined.
HaltDoneUnjoined ==
  /\ mpc = "haltJoin"
  /\ up' = FALSE /\ cvs' = FALSE
  /\ nThreads' = IF single THEN 1 ELSE 0
  /\ mpc' = "idle"
  /\ UNCHANGED <<mayWait, shutdown, curGen, job, wakeGen, doneGen, workerVars,
                 wpc, cursor, eff, single, calls, ran>>

\* The sidecar and the worker array are released.
HaltDone ==
  /\ mpc = "haltJoin" /\ cursor = nThreads
  /\ up' = FALSE /\ cvs' = FALSE
  /\ nThreads' = IF single THEN 1 ELSE 0
  /\ mpc' = "idle"
  /\ UNCHANGED <<mayWait, shutdown, curGen, job, wakeGen, doneGen, workerVars,
                 wpc, cursor, eff, single, calls, ran>>

-----------------------------------------------------------------------------
(* worker_entry *)

Go(w, from, to) ==
  /\ wpc[w] = from
  /\ wpc' = [wpc EXCEPT ![w] = to]

clientVars == <<poolVars, curGen, job, wakeGen, mpc, cursor, eff, single,
                calls>>

\* The mailbox changed: my_gen takes its value.
Claim(w) ==
  /\ Go(w, "spin", "claimed")
  /\ wakeGen[w] # myGen[w]
  /\ myGen' = [myGen EXCEPT ![w] = wakeGen[w]]
  /\ UNCHANGED <<clientVars, doneGen, got, ran>>

\* The shutdown test of the spin loop and the one after the claim.
Exit(w) ==
  /\ shutdown
  /\ \/ Go(w, "spin", "exited") /\ wakeGen[w] = myGen[w]
     \/ Go(w, "claimed", "exited")
  /\ UNCHANGED <<clientVars, doneGen, workerVars, ran>>

\* Spin budget spent: head for the mutex.
GiveUpSpin(w) ==
  /\ mayWait /\ cvs /\ ~shutdown
  /\ wakeGen[w] = myGen[w]
  /\ Go(w, "spin", "slow")
  /\ UNCHANGED <<clientVars, doneGen, workerVars, ran>>

\* Mutant: no re-check under the lock.
RecheckNothing(w) ==
  /\ Go(w, "slow", "mustWait")
  /\ UNCHANGED <<clientVars, doneGen, workerVars, ran>>

\* Lock and re-check; a mailbox that changed meanwhile cancels the wait.
Recheck(w) ==
  /\ Go(w, "slow", IF wakeGen[w] = myGen[w] /\ ~shutdown
                   THEN "mustWait" ELSE "spin")
  /\ UNCHANGED <<clientVars, doneGen, workerVars, ran>>

\* pthread_cond_wait releases the mutex and sleeps in one step.
CondWait(w) ==
  /\ Go(w, "mustWait", "asleep")
  /\ UNCHANGED <<clientVars, doneGen, workerVars, ran>>

\* POSIX allows pthread_cond_wait to return without a signal.
SpuriousWakeup(w) ==
  /\ Go(w, "asleep", "spin")
  /\ UNCHANGED <<clientVars, doneGen, workerVars, ran>>

\* Mutant: no shutdown test after the claim.
StartFnAlways(w) ==
  /\ Go(w, "claimed", "running")
  /\ got' = [got EXCEPT ![w] = job]
  /\ UNCHANGED <<clientVars, doneGen, myGen, ran>>

\* Not shutting down: read the published job and call fn.
StartFn(w) ==
  /\ ~shutdown
  /\ Go(w, "claimed", "running")
  /\ got' = [got EXCEPT ![w] = job]
  /\ UNCHANGED <<clientVars, doneGen, myGen, ran>>

FinishFn(w) ==
  /\ Go(w, "running", "ran")
  /\ ran' = [ran EXCEPT ![w] = @ + 1]
  /\ UNCHANGED <<clientVars, doneGen, workerVars>>

ReportDone(w) ==
  /\ Go(w, "ran", "spin")
  /\ doneGen' = [doneGen EXCEPT ![w] = myGen[w]]
  /\ UNCHANGED <<clientVars, workerVars, ran>>

-----------------------------------------------------------------------------
\* Nothing is left to do: no pool, and the client's budget is spent.
Terminated ==
  /\ mpc = "idle" /\ ~up /\ calls = MaxCalls
  /\ UNCHANGED vars

\* The client's choice of the next call.
ClientCall ==
  \/ SetPoll
  \/ SetThreadsTrivial
  \/ \E n \in 2 .. MaxThreads : CreatePool(n)
  \/ \E k \in 0 .. MaxThreads : ParallelForInline(k) \/ ParallelFor(k)
  \/ \E b \in BOOLEAN : Free(b)

\* The steps of a call in progress.
ClientStep ==
  \/ Spawn \/ SpawnFail \/ SpawnDone
  \/ WakeWorker \/ WakeDone \/ SignalWorker \/ SignalDone
  \/ MainWork \/ JoinWorker \/ JoinDone
  \/ HaltWake \/ HaltWakeDone \/ HaltSignal \/ HaltSignalDone
  \/ HaltJoin \/ HaltDone

\* The steps worker_entry takes by itself.
WorkerStep(w) ==
  \/ Claim(w) \/ Exit(w) \/ GiveUpSpin(w) \/ Recheck(w) \/ CondWait(w)
  \/ StartFn(w) \/ FinishFn(w) \/ ReportDone(w)

Next ==
  \/ ClientCall
  \/ ClientStep
  \/ \E w \in Workers : WorkerStep(w) \/ SpuriousWakeup(w)
  \/ Terminated

\* Every thread keeps being scheduled; the client may stop calling, and
\* spurious wake-ups need not happen.  A mutex that is released again and
\* again is acquired in the end: without that, a worker that wakes up
\* spuriously for ever could keep the client from ever signalling.
Fairness ==
  /\ WF_vars(ClientStep)
  /\ SF_vars(SignalWorker) /\ SF_vars(HaltSignal)
  /\ \A w \in Workers : WF_vars(WorkerStep(w))

Spec == Init /\ [][Next]_vars /\ Fairness

-----------------------------------------------------------------------------
PoolTypeOK ==
  /\ up \in BOOLEAN /\ cvs \in BOOLEAN /\ mayWait \in BOOLEAN
  /\ shutdown \in BOOLEAN /\ single \in BOOLEAN
  /\ nThreads \in 0 .. MaxThreads

ClientTypeOK ==
  /\ curGen \in Nat
  /\ job \in Job
  /\ mpc \in {"idle", "spawn", "wake", "signal", "work", "join",
              "haltWake", "haltSignal", "haltJoin"}
  /\ cursor \in 1 .. MaxThreads
  /\ eff \in 0 .. MaxThreads
  /\ calls \in 0 .. MaxCalls
  /\ ran \in [Tids -> Nat]

WorkerTypeOK ==
  /\ wakeGen \in [Workers -> Nat]
  /\ doneGen \in [Workers -> Nat]
  /\ myGen \in [Workers -> Nat]
  /\ got \in [Workers -> Job]
  /\ wpc \in [Workers -> Parked \cup Busy \cup {"absent", "exited"}]

TypeOK == PoolTypeOK /\ ClientTypeOK /\ WorkerTypeOK

\* Whenever no dispatch is open, the last one ran fn exactly once on each of
\* its threads and on no other, and no worker is still inside fn: after
\* bm_parallel_for returns, the caller may read and reuse everything the task
\* function touched.
JoinSafe ==
  ~Dispatching =>
    /\ \A t \in Tids : ran[t] = IF t < eff THEN 1 ELSE 0
    /\ \A w \in Workers : wpc[w] \notin {"running", "ran"}

\* A worker inside fn was given the function, argument and thread count of
\* the call in progress, not those of an earlier or later one.
JobIntegrity ==
  \A w \in Workers :
    wpc[w] = "running" =>
      /\ Dispatching
      /\ got[w] = [call |-> calls, n |-> eff]
      /\ w < eff

\* The array of workers and the condvar sidecar are released only when no
\* worker can touch them any more.
NoUseAfterFree ==
  /\ ~up => \A w \in Workers : wpc[w] = "absent"
  /\ ~cvs => \A w \in Workers : wpc[w] \notin {"slow", "mustWait", "asleep"}

\* The inductive invariant behind the four above, in three parts.
\* The client: where its loop variables can be in each call, when the
\* shutdown flag is up, and what the published job is.
ClientInv ==
  /\ mpc \in {"spawn", "haltWake", "haltSignal", "haltJoin"} =>
       up /\ cursor <= nThreads
  /\ mpc \in {"wake", "signal"} => up /\ eff > 1
  /\ mpc \in {"wake", "signal", "join"} => cursor <= eff
  /\ Dispatching => eff > 0
  /\ Dispatching /\ eff > 1 =>
       /\ up /\ eff <= nThreads
       /\ job = [call |-> calls, n |-> eff]
  /\ Halting => shutdown
  /\ up /\ ~Halting => ~shutdown
  /\ up => nThreads > 1
  /\ ~up => ~cvs

\* The history: who has run fn, given where the client is.
RanInv ==
  /\ \A t \in Tids : ran[t] \in {0, 1} /\ (t >= eff => ran[t] = 0)
  /\ mpc \in {"wake", "signal", "work"} => ran[0] = 0
  /\ mpc = "join" => ran[0] = 1
  /\ ~Dispatching => \A t \in Tids : t < eff => ran[t] = 1

\* A worker: the generations of its mailbox are ordered; a mailbox that has
\* news carries the current generation, and then the worker has not run yet;
\* one that reported this generation has; nobody is where the client's loop
\* has not been, or has already been.
WorkerInv(w) ==
  /\ doneGen[w] <= wakeGen[w] /\ wakeGen[w] <= curGen
  /\ wpc[w] # "absent" => up /\ w < nThreads /\ doneGen[w] <= myGen[w]
  /\ wpc[w] = "exited" => Halting
  /\ wpc[w] \in {"slow", "mustWait", "asleep"} => cvs
  /\ wpc[w] \in Parked /\ wakeGen[w] # myGen[w] =>
       /\ wakeGen[w] = curGen /\ myGen[w] < curGen
       /\ Halting \/ (Dispatching /\ w < eff /\ ran[w] = 0)
  /\ wpc[w] \in Busy =>
       myGen[w] = curGen /\ wakeGen[w] = curGen /\ doneGen[w] < curGen
  /\ wpc[w] = "claimed" =>
       Halting \/ (Dispatching /\ w < eff /\ ran[w] = 0)
  /\ wpc[w] = "running" =>
       Dispatching /\ w < eff /\ ran[w] = 0 /\ got[w] = job
  /\ wpc[w] = "ran" => Dispatching /\ w < eff /\ ran[w] = 1
  /\ Dispatching /\ w < eff /\ doneGen[w] = curGen => ran[w] = 1
  /\ mpc = "spawn" /\ w >= cursor => wpc[w] = "absent" /\ wakeGen[w] = 0
  /\ mpc = "wake" /\ w >= cursor /\ w < eff =>
       /\ wakeGen[w] < curGen /\ ran[w] = 0
       /\ wpc[w] \in Parked \cup {"absent"}
  /\ mpc = "join" /\ w < cursor => doneGen[w] = curGen
  /\ mpc = "haltJoin" /\ w < cursor => wpc[w] = "absent"

IInv == ClientInv /\ RanInv /\ \A w \in Workers : WorkerInv(w)

\* Every call of the API returns: no lost wake-up and no worker missing from
\* a join, whether workers spin, sleep or were never created.
CallsReturn == (mpc # "idle") ~> (mpc = "idle")

\* The pool implements the abstract fork-join.
FJ == INSTANCE ForkJoin WITH
        busy <- Dispatching, active <- 0 .. eff - 1

ImplementsForkJoin == FJ!Spec
=============================================================================
