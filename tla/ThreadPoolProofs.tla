-------------------------- MODULE ThreadPoolProofs --------------------------
(***************************************************************************)
(* Proofs about ThreadPool, for every number of threads and of calls.      *)
(***************************************************************************)
EXTENDS ThreadPool, TLAPS

-----------------------------------------------------------------------------
(* Type correctness, by groups of variables *)

LEMMA InitTypes == Init => TypeOK
<1> SUFFICES ASSUME Init PROVE TypeOK
  OBVIOUS
<1> USE BoundsAssumption DEF Init
<1>1. PoolTypeOK
  <2>1. nThreads \in 0 .. MaxThreads
    OBVIOUS
  <2> QED
    BY <2>1, Zenon DEF PoolTypeOK
<1>2. ClientTypeOK
  BY DEF ClientTypeOK, Tids, Job
<1>3. WorkerTypeOK
  BY DEF WorkerTypeOK, Workers, Job
<1> QED
  BY <1>1, <1>2, <1>3 DEF TypeOK

\* The actions that change the pool's own fields.
LEMMA PoolTypes == ASSUME TypeOK, [Next]_vars PROVE PoolTypeOK'
<1> USE BoundsAssumption DEF TypeOK, PoolTypeOK, ClientTypeOK
<1>1. CASE SetPoll \/ SetThreadsTrivial
  <2>1. nThreads' \in 0 .. MaxThreads
    BY <1>1 DEF SetPoll, SetThreadsTrivial
  <2> QED
    BY <1>1, <2>1, Zenon DEF SetPoll, SetThreadsTrivial
<1>2. ASSUME NEW n \in 2 .. MaxThreads, CreatePool(n) PROVE PoolTypeOK'
  <2>1. nThreads' \in 0 .. MaxThreads
    BY <1>2 DEF CreatePool
  <2> QED
    BY <1>2, <2>1, Zenon DEF CreatePool
<1>3. CASE SpawnFail
  BY <1>3 DEF SpawnFail
<1>4. ASSUME NEW b \in BOOLEAN, Free(b) PROVE PoolTypeOK'
  BY <1>4 DEF Free
<1>5. CASE HaltDone
  <2>1. nThreads' \in 0 .. MaxThreads
    BY <1>5 DEF HaltDone
  <2> QED
    BY <1>5, <2>1, Zenon DEF HaltDone
<1>6. CASE UNCHANGED <<poolVars, single>>
  BY <1>6 DEF poolVars
<1> QED
  BY <1>1, <1>2, <1>3, <1>4, <1>5, <1>6
  DEF Next, ClientCall, ClientStep, WorkerStep, Terminated, vars, clientVars,
      ParallelForInline, ParallelFor, Spawn, SpawnDone, WakeWorker, WakeDone,
      SignalWorker, SignalDone, MainWork, JoinWorker, JoinDone, HaltWake,
      HaltWakeDone, HaltSignal, HaltSignalDone, HaltJoin, Claim, Exit,
      GiveUpSpin, Recheck, CondWait, StartFn, FinishFn, ReportDone,
      SpuriousWakeup

LEMMA ClientTypes == ASSUME TypeOK, [Next]_vars PROVE ClientTypeOK'
<1> USE BoundsAssumption DEF TypeOK, PoolTypeOK, ClientTypeOK, Job, Tids
<1>1. CASE SetPoll \/ SetThreadsTrivial
  BY <1>1 DEF SetPoll, SetThreadsTrivial, Call
<1>2. ASSUME NEW n \in 2 .. MaxThreads, CreatePool(n) PROVE ClientTypeOK'
  BY <1>2 DEF CreatePool, Call
<1>3. ASSUME NEW k \in 0 .. MaxThreads, ParallelForInline(k)
      PROVE ClientTypeOK'
  BY <1>3 DEF ParallelForInline, Call
<1>4. ASSUME NEW k \in 0 .. MaxThreads, ParallelFor(k) PROVE ClientTypeOK'
  BY <1>4 DEF ParallelFor, Call, Effective
<1>5. ASSUME NEW b \in BOOLEAN, Free(b) PROVE ClientTypeOK'
  BY <1>5 DEF Free
<1>6. CASE ClientStep
  <2> USE DEF poolVars
  <2>1. CASE Spawn BY <2>1 DEF Spawn
  <2>2. CASE SpawnFail BY <2>2 DEF SpawnFail
  <2>3. CASE SpawnDone BY <2>3 DEF SpawnDone
  <2>4. CASE WakeWorker BY <2>4 DEF WakeWorker
  <2>5. CASE WakeDone BY <2>5 DEF WakeDone
  <2>6. CASE SignalWorker BY <2>6 DEF SignalWorker
  <2>7. CASE SignalDone BY <2>7 DEF SignalDone
  <2>8. CASE MainWork BY <2>8 DEF MainWork
  <2>9. CASE JoinWorker BY <2>9 DEF JoinWorker
  <2>10. CASE JoinDone BY <2>10 DEF JoinDone
  <2>11. CASE HaltWake BY <2>11 DEF HaltWake
  <2>12. CASE HaltWakeDone BY <2>12 DEF HaltWakeDone
  <2>13. CASE HaltSignal BY <2>13 DEF HaltSignal
  <2>14. CASE HaltSignalDone BY <2>14 DEF HaltSignalDone
  <2>15. CASE HaltJoin BY <2>15 DEF HaltJoin
  <2>16. CASE HaltDone BY <2>16 DEF HaltDone
  <2> QED
    BY <1>6, <2>1, <2>2, <2>3, <2>4, <2>5, <2>6, <2>7, <2>8, <2>9, <2>10,
       <2>11, <2>12, <2>13, <2>14, <2>15, <2>16 DEF ClientStep
<1>7. ASSUME NEW w \in Workers, WorkerStep(w) \/ SpuriousWakeup(w)
      PROVE ClientTypeOK'
  <2>1. CASE FinishFn(w)
    BY <2>1 DEF FinishFn, clientVars, Workers
  <2>2. CASE UNCHANGED <<clientVars, ran>>
    BY <2>2 DEF clientVars
  <2> QED
    BY <1>7, <2>1, <2>2 DEF WorkerStep, Claim, Exit, GiveUpSpin, Recheck,
       CondWait, StartFn, ReportDone, SpuriousWakeup
<1>8. CASE UNCHANGED vars
  BY <1>8 DEF vars
<1> QED
  BY <1>1, <1>2, <1>3, <1>4, <1>5, <1>6, <1>7, <1>8
  DEF Next, ClientCall, Terminated

LEMMA WorkerTypes == ASSUME TypeOK, [Next]_vars PROVE WorkerTypeOK'
<1> USE DEF TypeOK, ClientTypeOK, WorkerTypeOK, Parked, Busy
<1>1. CASE ClientCall
  BY <1>1 DEF ClientCall, workerVars, SetPoll, SetThreadsTrivial, CreatePool,
      ParallelForInline, ParallelFor, Free
<1>2. CASE ClientStep
  BY <1>2 DEF ClientStep, workerVars, CondSignal,
      Spawn, SpawnFail, SpawnDone, WakeWorker, WakeDone,
      SignalWorker, SignalDone, MainWork, JoinWorker, JoinDone, HaltWake,
      HaltWakeDone, HaltSignal, HaltSignalDone, HaltJoin, HaltDone
<1>3. ASSUME NEW w \in Workers, WorkerStep(w) \/ SpuriousWakeup(w)
      PROVE WorkerTypeOK'
  BY <1>3 DEF Go, clientVars, workerVars, WorkerStep, Claim, Exit, GiveUpSpin,
      Recheck, CondWait, StartFn, FinishFn, ReportDone, SpuriousWakeup
<1>4. CASE UNCHANGED vars
  BY <1>4 DEF vars, workerVars
<1> QED
  BY <1>1, <1>2, <1>3, <1>4 DEF Next, Terminated

\* Every variable of the pool keeps its type.
THEOREM TypeCorrect == Spec => []TypeOK
<1>1. TypeOK /\ [Next]_vars => TypeOK'
  BY PoolTypes, ClientTypes, WorkerTypes DEF TypeOK
<1> QED
  BY InitTypes, <1>1, PTL DEF Spec
-----------------------------------------------------------------------------
(* The inductive invariant *)

LEMMA InitInv == Init => IInv
BY BoundsAssumption
DEF Init, IInv, ClientInv, RanInv, WorkerInv, Tids, Workers, Dispatching,
    Halting, Parked, Busy

\* The client keeps its part of the invariant.
LEMMA ClientInvStep ==
  ASSUME TypeOK, ClientInv, [Next]_vars
  PROVE ClientInv'
<1> USE BoundsAssumption DEF TypeOK, PoolTypeOK, ClientTypeOK, ClientInv,
   Dispatching, Halting, poolVars, workerVars
<1>1. CASE SetPoll BY <1>1 DEF SetPoll
<1>2. CASE SetThreadsTrivial BY <1>2 DEF SetThreadsTrivial, Call
<1>3. ASSUME NEW n \in 2 .. MaxThreads, CreatePool(n) PROVE ClientInv'
  BY <1>3 DEF CreatePool, Call
<1>4. ASSUME NEW k \in 0 .. MaxThreads, ParallelForInline(k) PROVE ClientInv'
  BY <1>4 DEF ParallelForInline, Call
<1>5. ASSUME NEW k \in 0 .. MaxThreads, ParallelFor(k) PROVE ClientInv'
  BY <1>5 DEF ParallelFor, Call, Effective
<1>6. ASSUME NEW b \in BOOLEAN, Free(b) PROVE ClientInv' BY <1>6 DEF Free
<1>7. CASE Spawn BY <1>7 DEF Spawn
<1>8. CASE SpawnFail BY <1>8 DEF SpawnFail
<1>9. CASE SpawnDone BY <1>9 DEF SpawnDone
<1>10. CASE WakeWorker BY <1>10 DEF WakeWorker
<1>11. CASE WakeDone BY <1>11 DEF WakeDone
<1>12. CASE SignalWorker BY <1>12 DEF SignalWorker, CondSignal
<1>13. CASE SignalDone BY <1>13 DEF SignalDone
<1>14. CASE MainWork BY <1>14 DEF MainWork
<1>15. CASE JoinWorker BY <1>15 DEF JoinWorker
<1>16. CASE JoinDone BY <1>16 DEF JoinDone
<1>17. CASE HaltWake BY <1>17 DEF HaltWake
<1>18. CASE HaltWakeDone BY <1>18 DEF HaltWakeDone
<1>19. CASE HaltSignal BY <1>19 DEF HaltSignal, CondSignal
<1>20. CASE HaltSignalDone BY <1>20 DEF HaltSignalDone
<1>21. CASE HaltJoin BY <1>21 DEF HaltJoin
<1>22. CASE HaltDone BY <1>22 DEF HaltDone
<1>23. ASSUME NEW v \in Workers, FinishFn(v) PROVE ClientInv'
  BY <1>23 DEF FinishFn, Go, clientVars
<1>24. CASE UNCHANGED <<clientVars, ran>> BY <1>24 DEF clientVars
<1>25. CASE UNCHANGED vars BY <1>25 DEF vars
<1> QED
  BY <1>1, <1>2, <1>3, <1>4, <1>5, <1>6, <1>7, <1>8, <1>9, <1>10, <1>11,
     <1>12, <1>13, <1>14, <1>15, <1>16, <1>17, <1>18, <1>19, <1>20, <1>21,
     <1>22, <1>23, <1>24, <1>25
  DEF Next, ClientCall, ClientStep, WorkerStep, Terminated, Claim, Exit,
     GiveUpSpin, Recheck, CondWait, StartFn, ReportDone, SpuriousWakeup

\* The history keeps its part: each tid's run is counted once.
LEMMA RanInvStep ==
  ASSUME TypeOK, IInv, [Next]_vars
  PROVE RanInv'
<1> USE BoundsAssumption DEF TypeOK, PoolTypeOK, ClientTypeOK, WorkerTypeOK,
   IInv, ClientInv, RanInv, WorkerInv, Dispatching, Halting, poolVars,
   workerVars, Tids, Workers, Parked, Busy
<1>1. CASE SetPoll BY <1>1 DEF SetPoll
<1>2. CASE SetThreadsTrivial BY <1>2 DEF SetThreadsTrivial, Call
<1>3. ASSUME NEW n \in 2 .. MaxThreads, CreatePool(n) PROVE RanInv'
  BY <1>3 DEF CreatePool, Call
<1>4. ASSUME NEW k \in 0 .. MaxThreads, ParallelForInline(k) PROVE RanInv'
  BY <1>4 DEF ParallelForInline, Call
<1>5. ASSUME NEW k \in 0 .. MaxThreads, ParallelFor(k) PROVE RanInv'
  BY <1>5 DEF ParallelFor, Call, Effective
<1>6. ASSUME NEW b \in BOOLEAN, Free(b) PROVE RanInv' BY <1>6 DEF Free
<1>7. CASE Spawn BY <1>7 DEF Spawn
<1>8. CASE SpawnFail BY <1>8 DEF SpawnFail
<1>9. CASE SpawnDone BY <1>9 DEF SpawnDone
<1>10. CASE WakeWorker BY <1>10 DEF WakeWorker
<1>11. CASE WakeDone BY <1>11 DEF WakeDone
<1>12. CASE SignalWorker BY <1>12 DEF SignalWorker, CondSignal
<1>13. CASE SignalDone BY <1>13 DEF SignalDone
<1>14. CASE MainWork BY <1>14 DEF MainWork
<1>15. CASE JoinWorker BY <1>15 DEF JoinWorker
<1>16. CASE JoinDone BY <1>16 DEF JoinDone
<1>17. CASE HaltWake BY <1>17 DEF HaltWake
<1>18. CASE HaltWakeDone BY <1>18 DEF HaltWakeDone
<1>19. CASE HaltSignal BY <1>19 DEF HaltSignal, CondSignal
<1>20. CASE HaltSignalDone BY <1>20 DEF HaltSignalDone
<1>21. CASE HaltJoin BY <1>21 DEF HaltJoin
<1>22. CASE HaltDone BY <1>22 DEF HaltDone
<1>23. ASSUME NEW v \in Workers, FinishFn(v) PROVE RanInv'
  BY <1>23 DEF FinishFn, Go, clientVars
<1>24. CASE UNCHANGED <<clientVars, ran>> BY <1>24 DEF clientVars
<1>25. CASE UNCHANGED vars BY <1>25 DEF vars
<1> QED
  BY <1>1, <1>2, <1>3, <1>4, <1>5, <1>6, <1>7, <1>8, <1>9, <1>10, <1>11,
     <1>12, <1>13, <1>14, <1>15, <1>16, <1>17, <1>18, <1>19, <1>20, <1>21,
     <1>22, <1>23, <1>24, <1>25
  DEF Next, ClientCall, ClientStep, WorkerStep, Terminated, Claim, Exit,
     GiveUpSpin, Recheck, CondWait, StartFn, ReportDone, SpuriousWakeup

\* Opening a dispatch: every worker is parked on an older generation.
LEMMA WorkerInvParallelFor ==
  ASSUME TypeOK, ClientInv, NEW w \in Workers, WorkerInv(w),
         NEW k \in 0 .. MaxThreads, ParallelFor(k)
  PROVE  WorkerInv(w)'
<1> USE BoundsAssumption DEF TypeOK, PoolTypeOK, ClientTypeOK, WorkerTypeOK,
        Parked, Busy, Workers, Tids
<1>1. /\ wpc[w] \in Parked \cup {"absent"}
      /\ wpc[w] \in Parked => wakeGen[w] = myGen[w]
  BY DEF ParallelFor, Call, WorkerInv, Dispatching, Halting
<1>2. curGen' = curGen + 1 /\ wakeGen[w] < curGen' /\ doneGen[w] < curGen'
  BY SMTT(30) DEF ParallelFor, WorkerInv
<1>3. /\ mpc' = "wake" /\ cursor' = 1
      /\ doneGen' = doneGen /\ wakeGen' = wakeGen /\ myGen' = myGen
      /\ wpc' = wpc /\ nThreads' = nThreads
  BY DEF ParallelFor, poolVars, workerVars
<1>4. ran'[w] = 0
  BY DEF ParallelFor
<1>5. wpc[w] # "absent" => up'
  BY DEF ParallelFor, poolVars
<1>6. wpc[w] \in {"slow", "mustWait", "asleep"} => cvs'
  BY DEF ParallelFor, poolVars, WorkerInv
<1>7. Dispatching' /\ ~Halting'
  BY <1>3 DEF Dispatching, Halting
<1>8. doneGen'[w] <= wakeGen'[w] /\ wakeGen'[w] <= curGen'
  BY <1>2, <1>3 DEF WorkerInv
<1>9. doneGen'[w] # curGen'
  BY <1>2, <1>3
<1>10. wpc[w] # "absent" => w < nThreads /\ doneGen[w] <= myGen[w]
  BY DEF WorkerInv
<1> QED
  BY ONLY <1>1, <1>2, <1>3, <1>4, <1>5, <1>6, <1>7, <1>8, <1>9, <1>10
  DEF WorkerInv, Parked, Busy

\* Every worker keeps its part, whoever takes the step.
LEMMA WorkerInvStep ==
  ASSUME TypeOK, ClientInv, NEW w \in Workers, WorkerInv(w), [Next]_vars
  PROVE WorkerInv(w)'
<1> USE BoundsAssumption DEF TypeOK, PoolTypeOK, ClientTypeOK, WorkerTypeOK,
   ClientInv, WorkerInv, Dispatching, Halting, poolVars, workerVars, Tids,
   Workers, Parked, Busy
<1>1. CASE SetPoll BY <1>1 DEF SetPoll
<1>2. CASE SetThreadsTrivial BY <1>2 DEF SetThreadsTrivial, Call
<1>3. ASSUME NEW n \in 2 .. MaxThreads, CreatePool(n) PROVE WorkerInv(w)'
  BY <1>3 DEF CreatePool, Call
<1>4. ASSUME NEW k \in 0 .. MaxThreads, ParallelForInline(k) PROVE WorkerInv(w)'
  BY <1>4 DEF ParallelForInline, Call
<1>5. ASSUME NEW k \in 0 .. MaxThreads, ParallelFor(k) PROVE WorkerInv(w)'
  BY <1>5, WorkerInvParallelFor
<1>6. ASSUME NEW b \in BOOLEAN, Free(b) PROVE WorkerInv(w)' BY <1>6 DEF Free
<1>7. CASE Spawn
  <2>1. CASE w = cursor
    BY <1>7, <2>1 DEF Spawn
  <2>2. CASE w # cursor
    BY <1>7, <2>2 DEF Spawn
  <2> QED
    BY <2>1, <2>2
<1>8. CASE SpawnFail
  <2>1. wpc[w] # "absent" => w < cursor /\ up' /\ cvs' = cvs
    <3>1. wpc[w] # "absent" => w < cursor /\ cursor > 1
      BY <1>8 DEF SpawnFail
    <3> QED
      BY <1>8, <3>1, Zenon DEF SpawnFail
  <2>2. /\ mpc = "spawn" /\ mpc' = "idle" /\ nThreads' = cursor
        /\ UNCHANGED <<doneGen, wakeGen, myGen, curGen, wpc, ran, eff>>
    BY <1>8 DEF SpawnFail
  <2>3. wpc[w] \in Parked \cup {"absent"}
    BY <1>8 DEF SpawnFail
  <2> QED
    BY <1>8, <2>1, <2>2, <2>3
<1>9. CASE SpawnDone BY <1>9 DEF SpawnDone
<1>10. CASE WakeWorker
  <2>1. CASE w = cursor
    BY <1>10, <2>1, SMTT(30) DEF WakeWorker
  <2>2. CASE w # cursor
    BY <1>10, <2>2 DEF WakeWorker
  <2> QED
    BY <2>1, <2>2
<1>11. CASE WakeDone BY <1>11 DEF WakeDone
<1>12. CASE SignalWorker BY <1>12 DEF SignalWorker, CondSignal
<1>13. CASE SignalDone BY <1>13 DEF SignalDone
<1>14. CASE MainWork BY <1>14, SMTT(30) DEF MainWork
<1>15. CASE JoinWorker
  <2>1. CASE w = cursor
    BY <1>15, <2>1 DEF JoinWorker
  <2>2. CASE w # cursor
    BY <1>15, <2>2 DEF JoinWorker
  <2> QED
    BY <2>1, <2>2
<1>16. CASE JoinDone BY <1>16, SMTT(30) DEF JoinDone
<1>17. CASE HaltWake
  <2>1. CASE w = cursor
    BY <1>17, <2>1 DEF HaltWake
  <2>2. CASE w # cursor
    BY <1>17, <2>2 DEF HaltWake
  <2> QED
    BY <2>1, <2>2
<1>18. CASE HaltWakeDone BY <1>18 DEF HaltWakeDone
<1>19. CASE HaltSignal BY <1>19 DEF HaltSignal, CondSignal
<1>20. CASE HaltSignalDone BY <1>20 DEF HaltSignalDone
<1>21. CASE HaltJoin
  <2>1. CASE w = cursor
    BY <1>21, <2>1 DEF HaltJoin
  <2>2. CASE w # cursor
    BY <1>21, <2>2 DEF HaltJoin
  <2> QED
    BY <2>1, <2>2
<1>22. CASE HaltDone BY <1>22 DEF HaltDone
<1>23. ASSUME NEW v \in Workers, Claim(v) PROVE WorkerInv(w)'
  <2>1. CASE w = v
    BY <1>23, <2>1 DEF Claim, Go, clientVars
  <2>2. CASE w # v
    BY <1>23, <2>2 DEF Claim, Go, clientVars
  <2> QED
    BY <2>1, <2>2
<1>24. ASSUME NEW v \in Workers, Exit(v) PROVE WorkerInv(w)'
  <2>1. CASE w = v
    BY <1>24, <2>1 DEF Exit, Go, clientVars
  <2>2. CASE w # v
    BY <1>24, <2>2 DEF Exit, Go, clientVars
  <2> QED
    BY <2>1, <2>2
<1>25. ASSUME NEW v \in Workers, GiveUpSpin(v) PROVE WorkerInv(w)'
  BY <1>25, SMTT(30) DEF GiveUpSpin, Go, clientVars
<1>26. ASSUME NEW v \in Workers, Recheck(v) PROVE WorkerInv(w)'
  <2>1. CASE w = v
    BY <1>26, <2>1 DEF Recheck, Go, clientVars
  <2>2. CASE w # v
    BY <1>26, <2>2 DEF Recheck, Go, clientVars
  <2> QED
    BY <2>1, <2>2
<1>27. ASSUME NEW v \in Workers, CondWait(v) PROVE WorkerInv(w)'
  <2>1. CASE w = v
    BY <1>27, <2>1 DEF CondWait, Go, clientVars
  <2>2. CASE w # v
    BY <1>27, <2>2 DEF CondWait, Go, clientVars
  <2> QED
    BY <2>1, <2>2
<1>28. ASSUME NEW v \in Workers, StartFn(v) PROVE WorkerInv(w)'
  BY <1>28, SMTT(30) DEF StartFn, Go, clientVars
<1>29. ASSUME NEW v \in Workers, FinishFn(v) PROVE WorkerInv(w)'
  <2>1. CASE w = v
    BY <1>29, <2>1 DEF FinishFn, Go, clientVars
  <2>2. CASE w # v
    BY <1>29, <2>2 DEF FinishFn, Go, clientVars
  <2> QED
    BY <2>1, <2>2
<1>30. ASSUME NEW v \in Workers, ReportDone(v) PROVE WorkerInv(w)'
  BY <1>30, SMTT(30) DEF ReportDone, Go, clientVars
<1>31. ASSUME NEW v \in Workers, SpuriousWakeup(v) PROVE WorkerInv(w)'
  <2>1. CASE w = v
    BY <1>31, <2>1 DEF SpuriousWakeup, Go, clientVars
  <2>2. CASE w # v
    BY <1>31, <2>2 DEF SpuriousWakeup, Go, clientVars
  <2> QED
    BY <2>1, <2>2
<1>32. CASE UNCHANGED vars BY <1>32 DEF vars
<1> QED
  BY <1>1, <1>2, <1>3, <1>4, <1>5, <1>6, <1>7, <1>8, <1>9, <1>10, <1>11,
     <1>12, <1>13, <1>14, <1>15, <1>16, <1>17, <1>18, <1>19, <1>20, <1>21,
     <1>22, <1>23, <1>24, <1>25, <1>26, <1>27, <1>28, <1>29, <1>30, <1>31,
     <1>32
  DEF Next, ClientCall, ClientStep, WorkerStep, Terminated

-----------------------------------------------------------------------------
(* The theorems *)

THEOREM Invariance == Spec => [](TypeOK /\ IInv)
<1>1. Init => IInv
  BY InitInv
<1>2. TypeOK /\ IInv /\ [Next]_vars => IInv'
  BY ClientInvStep, RanInvStep, WorkerInvStep DEF IInv
<1> QED
  BY <1>1, <1>2, TypeCorrect, PTL DEF Spec

\* Outside a dispatch fn has run exactly once on each of its threads and
\* nobody is inside it: what a caller of bm_parallel_for relies on.
THEOREM PoolJoinSafe == Spec => []JoinSafe
<1>1. TypeOK /\ IInv => JoinSafe
  <2> SUFFICES ASSUME TypeOK, IInv, ~Dispatching PROVE
        /\ \A t \in Tids : ran[t] = IF t < eff THEN 1 ELSE 0
        /\ \A w \in Workers : wpc[w] \notin {"running", "ran"}
    BY DEF JoinSafe
  <2>1. \A t \in Tids : ran[t] = IF t < eff THEN 1 ELSE 0
    BY DEF IInv, RanInv, TypeOK, ClientTypeOK, Tids
  <2>2. \A w \in Workers : wpc[w] \notin {"running", "ran"}
    BY DEF IInv, WorkerInv
  <2> QED
    BY <2>1, <2>2
<1> QED
  BY <1>1, Invariance, PTL

\* A running worker always holds the job of the call in progress.
THEOREM PoolJobIntegrity == Spec => []JobIntegrity
<1>1. TypeOK /\ IInv => JobIntegrity
  BY BoundsAssumption DEF IInv, ClientInv, WorkerInv, JobIntegrity, TypeOK,
     ClientTypeOK, Workers
<1> QED
  BY <1>1, Invariance, PTL

\* The worker array and the sidecar outlive every use of them.
THEOREM PoolNoUseAfterFree == Spec => []NoUseAfterFree
<1>1. IInv => NoUseAfterFree
  BY DEF IInv, WorkerInv, NoUseAfterFree
<1> QED
  BY <1>1, Invariance, PTL

\* A dispatch opens a fork-join on its threads.
LEMMA OpenIsBegin ==
  ASSUME TypeOK, NEW k \in 0 .. MaxThreads,
         ParallelForInline(k) \/ ParallelFor(k)
  PROVE  FJ!Begin
<1> USE BoundsAssumption DEF TypeOK, PoolTypeOK, ClientTypeOK
<1>1. mpc = "idle" /\ mpc' \in {"work", "wake"} /\ ran' = [t \in Tids |-> 0]
  BY DEF ParallelForInline, ParallelFor, Call
<1>2. eff' \in 0 .. MaxThreads
  BY DEF ParallelForInline, ParallelFor, Effective
<1>3. 0 .. eff' - 1 \in SUBSET Tids
  <2>1. \A e \in 0 .. MaxThreads : 0 .. e - 1 \in SUBSET Tids
    BY DEF Tids
  <2> QED
    BY <1>2, <2>1, Zenon
<1>4. ~Dispatching /\ Dispatching'
  BY <1>1 DEF Dispatching
<1> QED
  BY <1>1, <1>3, <1>4, Zenon DEF FJ!Begin

\* A finished fn, the client's or a worker's, is one execution.
LEMMA FinishIsExec ==
  ASSUME TypeOK, IInv, NEW t \in Tids,
         \/ t = 0 /\ MainWork
         \/ t \in Workers /\ FinishFn(t)
  PROVE  FJ!Exec(t)
<1> USE BoundsAssumption DEF TypeOK, PoolTypeOK, ClientTypeOK, WorkerTypeOK
<1>1. ran[t] = 0 /\ t < eff /\ Dispatching
  BY DEF IInv, ClientInv, RanInv, WorkerInv, Dispatching, MainWork, FinishFn,
         Go, Workers
<1>2. /\ ran' = [ran EXCEPT ![t] = 1]
      /\ eff' = eff
  BY <1>1 DEF MainWork, FinishFn, clientVars
<1>3. Dispatching'
  BY <1>1 DEF MainWork, FinishFn, clientVars, Dispatching
<1>4. t \in 0 .. eff - 1
  BY <1>1 DEF Tids
<1> QED
  BY <1>1, <1>2, <1>3, <1>4, Zenon DEF FJ!Exec

\* The end of the join is the return of the call.
LEMMA JoinIsReturn ==
  ASSUME TypeOK, IInv, IInv', JoinDone
  PROVE  FJ!Return
<1>1. mpc = "join" /\ mpc' = "idle" /\ UNCHANGED <<eff, ran>>
  BY DEF JoinDone
<1>2. Dispatching /\ (Dispatching' = FALSE)
  BY <1>1 DEF Dispatching
<1>3. \A t \in 0 .. eff - 1 : ran[t] = 1
  BY <1>1, <1>2, BoundsAssumption
  DEF IInv, RanInv, Tids, TypeOK, ClientTypeOK
<1> QED
  BY <1>1, <1>2, <1>3, Zenon DEF FJ!Return

\* The pool, with its partial creation, its mailboxes and its sleeping
\* workers, implements the fork-join its callers see.
THEOREM PoolImplementsForkJoin == Spec => ImplementsForkJoin
<1>1. Init => FJ!Init
  <2> SUFFICES ASSUME Init PROVE FJ!Init
    OBVIOUS
  <2>1. 0 .. eff - 1 = {} /\ ran = [t \in Tids |-> 0]
    BY DEF Init
  <2>2. Dispatching = FALSE
    BY DEF Init, Dispatching
  <2> QED
    BY <2>1, <2>2, Zenon DEF FJ!Init
<1>2. TypeOK /\ IInv /\ IInv' /\ [Next]_vars => [FJ!Next]_(FJ!vars)
  <2> SUFFICES ASSUME TypeOK, IInv, IInv', [Next]_vars
               PROVE  [FJ!Next]_(FJ!vars)
    OBVIOUS
  <2>1. ASSUME NEW k \in 0 .. MaxThreads,
               ParallelForInline(k) \/ ParallelFor(k)
        PROVE  FJ!Next
    BY <2>1, OpenIsBegin DEF FJ!Next
  <2>2. CASE MainWork
    <3>1. 0 \in Tids
      BY BoundsAssumption DEF Tids
    <3> QED
      BY <2>2, <3>1, FinishIsExec DEF FJ!Next
  <2>3. ASSUME NEW w \in Workers, FinishFn(w) PROVE FJ!Next
    <3>1. w \in Tids
      BY BoundsAssumption DEF Tids, Workers
    <3> QED
      BY <2>3, <3>1, FinishIsExec DEF FJ!Next
  <2>4. CASE JoinDone
    BY <2>4, JoinIsReturn DEF FJ!Next
  <2>5. CASE (Dispatching' <=> Dispatching) /\ UNCHANGED <<eff, ran>>
    BY <2>5, Zenon DEF FJ!vars
  <2>6. ASSUME \/ SetPoll \/ SetThreadsTrivial
               \/ \E n \in 2 .. MaxThreads : CreatePool(n)
               \/ \E b \in BOOLEAN : Free(b)
        PROVE (Dispatching' <=> Dispatching) /\ UNCHANGED <<eff, ran>>
    BY <2>6 DEF SetPoll, SetThreadsTrivial, CreatePool, Free, Call,
       Dispatching
  <2>7. ASSUME ClientStep, ~MainWork, ~JoinDone
        PROVE (Dispatching' <=> Dispatching) /\ UNCHANGED <<eff, ran>>
    BY <2>7 DEF ClientStep, Dispatching, Spawn, SpawnFail, SpawnDone,
       WakeWorker, WakeDone, SignalWorker, SignalDone, JoinWorker, HaltWake,
       HaltWakeDone, HaltSignal, HaltSignalDone, HaltJoin, HaltDone
  <2>8. ASSUME NEW w \in Workers, WorkerStep(w) \/ SpuriousWakeup(w),
               ~FinishFn(w)
        PROVE (Dispatching' <=> Dispatching) /\ UNCHANGED <<eff, ran>>
    BY <2>8 DEF WorkerStep, Dispatching, clientVars, Claim, Exit, GiveUpSpin,
       Recheck, CondWait, StartFn, ReportDone, SpuriousWakeup
  <2>9. ASSUME UNCHANGED vars
        PROVE (Dispatching' <=> Dispatching) /\ UNCHANGED <<eff, ran>>
    BY <2>9 DEF vars, Dispatching
  <2> QED
    BY <2>1, <2>2, <2>3, <2>4, <2>5, <2>6, <2>7, <2>8, <2>9
    DEF Next, ClientCall, Terminated
<1> QED
  BY <1>1, <1>2, Invariance, PTL DEF Spec, FJ!Spec, ImplementsForkJoin

=============================================================================
