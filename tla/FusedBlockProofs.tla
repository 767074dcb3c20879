-------------------------- MODULE FusedBlockProofs --------------------------
(***************************************************************************)
(* Proofs about FusedBlock: for every thread count, placement, size of the *)
(* model and batch, no phase of a block step reads what an earlier one has *)
(* not finished, and every row and element is computed exactly once.  The  *)
(* barrier inside the fused dispatch is the concrete one, and its part of  *)
(* the argument is that of BarrierProofs.                                  *)
(***************************************************************************)
EXTENDS FusedBlock, WorkRangeProofs

BP == INSTANCE BarrierProofs WITH Rounds <- 3

-----------------------------------------------------------------------------
(* The names of the instances of WorkRange and Barrier.                    *)

LEMMA SameShares ==
  /\ \A t, n, m : W!TaskRange(t, n, m) = TaskRange(t, n, m)
  /\ \A c, rows, size : W!ChunkRows(c, rows, size) = ChunkRows(c, rows, size)
  /\ \A rows, n, least : W!ChunkSize(rows, n, least) = ChunkSize(rows, n, least)
  /\ \A rows, size : W!TotalChunks(rows, size) = TotalChunks(rows, size)
  BY DEF W!TaskRange, TaskRange, W!RangeStart, RangeStart, W!RangeEnd, RangeEnd,
         W!ChunkRows, ChunkRows, W!ChunkSize, ChunkSize, W!TotalChunks,
         TotalChunks

LEMMA SameStep == \A t : B!Step(t) <=> BP!Step(t)
  BY DEF B!Step, B!ReadPhase, B!Arrive, B!Reset, B!Release, B!Wait,
         B!GlobalRead, B!GlobalArrive, B!GlobalReset, B!GlobalRelease,
         B!GlobalWait, B!Go, B!Leave, B!Home, B!Flat, B!Expect, B!Global,
         BP!Step, BP!ReadPhase, BP!Arrive, BP!Reset, BP!Release, BP!Wait,
         BP!GlobalRead, BP!GlobalArrive, BP!GlobalReset, BP!GlobalRelease,
         BP!GlobalWait, BP!Go, BP!Leave, BP!Home, BP!Flat, BP!Expect,
         BP!Global

LEMMA SameThreads == BP!Threads = Threads /\ BP!vars = barrierVars
  BY DEF BP!Threads, Threads, BP!vars, barrierVars

-----------------------------------------------------------------------------
(* Operators.                                                              *)

\* The elements a token has in a buffer, and the places of a batch.
Bufs == {"proj_out", "y", "out"}
Elems(b) == CASE b = "proj_out" -> InRows [] b = "y" -> DInner
              [] b = "out" -> OutRows
Places(b, n) == 0 .. Many(n) * Elems(b) - 1

LEMMA ElemsType == \A b \in Bufs : Elems(b) \in Nat \ {0}
  BY SizesAssumption DEF Bufs, Elems

LEMMA ManyType == \A n \in Batches \cup {0} : Many(n) \in Nat \ {0}
  BY SizesAssumption DEF Many

\* Every token of a call has a slot.
LEMMA TokensHaveSlots ==
  ASSUME NEW n \in Batches \cup {0}
  PROVE  0 .. Many(n) - 1 \subseteq Slots
<1> DEFINE S == {Many(k) : k \in Batches \cup {0}}
<1>1. S \subseteq Nat /\ Many(n) \in S
  BY ManyType
<1>2. IsFiniteSet(S)
  <2> DEFINE f == [k \in Batches \cup {0} |-> Many(k)]
  <2>1. IsFiniteSet(Batches \cup {0})
    BY SizesAssumption, FS_AddElement
  <2>2. f \in Surjection(Batches \cup {0}, S)
    BY DEF Surjection
  <2> QED
    BY <2>1, <2>2, FS_Surjection
<1>3. PICK x \in S : \A y \in S : x >= y
  <2> HIDE DEF S
  <2> QED
    BY <1>1, <1>2, LargestNumber
<1>4. Max(S) \in S /\ \A y \in S : Max(S) >= y
  <2> HIDE DEF S
  <2> QED
    BY <1>3 DEF Max
<1> HIDE DEF S
<1>5. Max(S) \in Nat /\ Max(S) >= Many(n) /\ Many(n) \in Nat
  BY <1>1, <1>4
<1> QED
  BY <1>5 DEF Slots, S

\* A place of a buffer belongs to one token and one of its elements.
LEMMA PlaceParts ==
  ASSUME NEW b \in Bufs, NEW n \in Batches \cup {0}, NEW c \in Places(b, n)
  PROVE  /\ c \in Nat
         /\ c \div Elems(b) \in 0 .. Many(n) - 1
         /\ c % Elems(b) \in 0 .. Elems(b) - 1
<1> DEFINE e == Elems(b)
           q == c \div e
           m == Many(n)
<1>1. e \in Nat \ {0} /\ m \in Nat \ {0}
  BY ElemsType, ManyType
<1>2. c \in 0 .. m * e - 1 /\ m * e \in Nat
  BY <1>1, Product DEF Places
<1>3. c \in Nat
  BY <1>2
<1>4. q \in Nat /\ c % e \in 0 .. e - 1 /\ c = e * q + (c % e)
  BY <1>1, <1>3, Division
<1> HIDE DEF e, q, m
<1>5. q < m
  <2> SUFFICES ASSUME q >= m PROVE FALSE
    BY <1>1, <1>4
  <2>1. (q - m) * e \in Nat
    BY <1>1, <1>4, Product
  <2>2. e * q = m * e + (q - m) * e
    BY <1>1, <1>4
  <2> QED
    BY <1>1, <1>2, <1>4, <2>1, <2>2
<1> QED
  BY <1>1, <1>3, <1>4, <1>5 DEF e, q, m

\* A dispatch for some tokens covers the places of their rows.
LEMMA CellParts ==
  ASSUME NEW b \in Bufs, NEW c \in Nat,
         NEW S, S \subseteq 0 .. Elems(b) - 1, NEW T, T \subseteq Nat
  PROVE  c \in Cells(S, T, Elems(b))
           <=> c \div Elems(b) \in T /\ c % Elems(b) \in S
<1> DEFINE e == Elems(b)
<1>1. e \in Nat \ {0}
  BY ElemsType
<1>2. ASSUME NEW k \in T, NEW i \in S, c = k * e + i
      PROVE  c \div e = k /\ c % e = i
  BY <1>1, <1>2, Digits
<1>3. ASSUME c \div e \in T, c % e \in S
      PROVE  c \in Cells(S, T, e)
  <2>1. c = e * (c \div e) + (c % e) /\ c \div e \in Nat
    BY <1>1, Division
  <2> DEFINE q == c \div e
             r == c % e
  <2> HIDE DEF q, r, e
  <2>2. e * q = q * e
    BY <1>1, <2>1 DEF q
  <2>3. q \in T /\ r \in S /\ c = q * e + r
    BY <1>3, <2>1, <2>2 DEF q, r
  <2> QED
    BY <2>3 DEF Cells
<1> QED
  BY <1>2, <1>3 DEF Cells

-----------------------------------------------------------------------------
(* Types.                                                                  *)

Works == {"start", "rows", "grab", "ssm", "prepare", "barrier", "done"}

TypeInv ==
  /\ BP!TypeInv
  /\ running \in BOOLEAN /\ call \in Nat
  /\ at \in [Threads -> Works]
  /\ chunk \in [Threads -> Nat] /\ ctr \in [RowPhase -> Nat]
  /\ quant \in [Slots -> {"u", "y"}] /\ ready \in BOOLEAN
  /\ input \in [Threads -> BOOLEAN]
  /\ DOMAIN written = Bufs
  /\ \A b \in Bufs : written[b] \in [Places(b, tokens) -> Nat]
  /\ convPos \in 0 .. 2 /\ total \in Nat
  /\ kernel \in {"vector", "scalar"} /\ tokens \in Batches \cup {0}
  /\ step \in {"in", "scan", "out"} /\ token \in Nat /\ block \in Nat

\* Rows belong to the first and the last round, barriers end the first three,
\* and a thread is in the barrier's code only then.
RoundInv ==
  \A t \in Threads :
    /\ at[t] \in {"start", "rows", "grab"} => round[t] \in RowPhase
    /\ at[t] = "barrier" => round[t] \in 0 .. 2
    /\ at[t] # "barrier" => bpc[t] = "out"

\* A pass over some places of a buffer adds one to each and leaves the rest.
LEMMA Writes ==
  ASSUME TypeInv, NEW b \in Bufs, NEW S, Write(b, S)
  PROVE  /\ DOMAIN written' = Bufs
         /\ \A a \in Bufs : written'[a] \in [Places(a, tokens) -> Nat]
         /\ \A a \in Bufs : a # b => written'[a] = written[a]
         /\ \A c \in Places(b, tokens) :
              written'[b][c] = IF c \in S THEN written[b][c] + 1
                               ELSE written[b][c]
  BY DEF TypeInv, Write

\* A call starts with nothing written.
LEMMA Blanks ==
  ASSUME NEW n \in Batches \cup {0}
  PROVE  /\ DOMAIN Blank(n) = Bufs
         /\ \A b \in Bufs : Blank(n)[b] \in [Places(b, n) -> Nat]
         /\ \A b \in Bufs : \A c \in Places(b, n) : Blank(n)[b][c] = 0
  BY DEF Blank, Bufs, Places, Elems

LEMMA TypeInit == Init => TypeInv
<1> SUFFICES ASSUME Init PROVE TypeInv
  OBVIOUS
<1>1. BP!TypeInv
  BY DEF Init, B!Init, B!Threads, B!Nodes, B!Global, BP!TypeInv, BP!Pc,
         BP!Counters, BP!Threads, BP!Nodes, BP!Global
<1>2. /\ DOMAIN written = Bufs
      /\ \A b \in Bufs : written[b] \in [Places(b, tokens) -> Nat]
  BY Blanks DEF Init
<1>3. kernel \in {"vector", "scalar"} /\ tokens \in Batches \cup {0}
  BY SizesAssumption DEF Init
<1>4. at \in [Threads -> Works] /\ quant \in [Slots -> {"u", "y"}]
  BY DEF Init, Works
<1>5. /\ chunk \in [Threads -> Nat] /\ ctr \in [RowPhase -> Nat]
      /\ convPos \in 0 .. 2 /\ total \in Nat /\ call \in Nat
      /\ step \in {"in", "scan", "out"} /\ token \in Nat /\ block \in Nat
  BY DEF Init
<1>6. running \in BOOLEAN /\ ready \in BOOLEAN /\ input \in [Threads -> BOOLEAN]
  BY Zenon DEF Init
<1> QED
  BY <1>1, <1>2, <1>3, <1>4, <1>5, <1>6 DEF TypeInv

\* A step in the barrier moves one thread, out of it only with its round done.
LEMMA BarrierMoves ==
  ASSUME BP!TypeInv, NEW t \in Threads, B!Step(t)
  PROVE  /\ bpc' \in [Threads -> BP!Pc]
         /\ \A u \in Threads : u # t => bpc'[u] = bpc[u]
         /\ \/ bpc'[t] # "out" /\ round' = round
            \/ /\ bpc'[t] = "out" /\ round' = [round EXCEPT ![t] = @ + 1]
               /\ \/ bpc[t] = "release"
                  \/ bpc[t] = "wait" /\ phase[BP!Home(t)] # cur[t]
  BY SameThreads
  DEF BP!TypeInv, BP!Pc, B!Step, B!ReadPhase, B!Arrive, B!Reset, B!Release,
      B!Wait, B!GlobalRead, B!GlobalArrive, B!GlobalReset, B!GlobalRelease,
      B!GlobalWait, B!Go, B!Leave, B!Home, B!Flat, BP!Home, BP!Flat

LEMMA WorkerTypes ==
  ASSUME TypeInv, RoundInv, BP!Placed(plan), NEW t \in Threads, WorkerStep(t)
  PROVE  TypeInv' /\ plan' = plan
<1>1. BP!TypeInv' /\ plan' = plan
  <2>1. CASE BarrierStep(t)
    BY <2>1, SizesAssumption, SameStep, SameThreads, BP!TypeStep
    DEF BarrierStep, TypeInv
  <2>2. CASE UNCHANGED barrierVars
    BY <2>2 DEF TypeInv, barrierVars, BP!TypeInv, BP!Counters, BP!Threads,
                BP!Nodes
  <2> QED
    BY <2>1, <2>2 DEF WorkerStep, StartRows, DoRows, Grab, RowsDone, Ssm, Prepare
<1>2. Threads' = Threads /\ Slots' = Slots /\ RowPhase' = RowPhase
  BY <1>1 DEF Threads, Slots, RowPhase
<1>3. at' \in [Threads -> Works]
  <2>1. CASE BarrierStep(t)
    <3>1. round[t] \in 0 .. 2 /\ round \in [Threads -> Nat]
      BY <2>1, SameThreads DEF BarrierStep, TypeInv, BP!TypeInv, RoundInv
    <3>4. bpc'[t] = "out" => round' = [round EXCEPT ![t] = @ + 1]
      BY <2>1, BarrierMoves DEF BarrierStep, TypeInv
    <3>2. bpc'[t] = "out" => round'[t] \in 1 .. 3
      BY <3>1, <3>4
    <3>3. bpc'[t] = "out" => NextPhase(t, round'[t]) \in Works
      BY <3>2 DEF NextPhase, Works
    <3> QED
      BY <2>1, <3>3 DEF BarrierStep, TypeInv
  <2> QED
    BY <2>1
    DEF WorkerStep, StartRows, DoRows, Grab, RowsDone, Ssm, Prepare, AfterRows,
        TypeInv, Works
<1>4. /\ DOMAIN written' = Bufs
      /\ \A b \in Bufs : written'[b] \in [Places(b, tokens) -> Nat]
  <2>1. CASE DoRows(t)
    <3>1. Buffer(round[t]) \in Bufs
      BY <2>1 DEF DoRows, RoundInv, RowPhase, Buffer, Bufs
    <3> QED
      BY <2>1, <3>1, Writes DEF DoRows
  <2>2. CASE Ssm(t)
    BY <2>2, Writes DEF Ssm, Bufs
  <2> QED
    BY <2>1, <2>2
    DEF WorkerStep, StartRows, Grab, RowsDone, Prepare, BarrierStep, TypeInv
<1>5. /\ chunk' \in [Threads -> Nat] /\ ctr' \in [RowPhase -> Nat]
      /\ quant' \in [Slots -> {"u", "y"}]
  BY DEF WorkerStep, StartRows, DoRows, Grab, RowsDone, Ssm, Prepare,
         BarrierStep, TypeInv, RoundInv, Threads
<1>6. ready' \in BOOLEAN /\ input' \in [Threads -> BOOLEAN]
  BY DEF WorkerStep, StartRows, DoRows, Grab, RowsDone, Ssm, Prepare,
         BarrierStep, TypeInv
<1>7. UNCHANGED <<running, call, convPos, unfusedVars>>
  BY DEF WorkerStep, StartRows, DoRows, Grab, RowsDone, Ssm, Prepare,
         BarrierStep
<1>8. BP!TypeInv' /\ Threads' = Threads /\ Slots' = Slots
      /\ RowPhase' = RowPhase /\ \A b : Places(b, tokens)' = Places(b, tokens)
  BY <1>1, <1>2, <1>7 DEF unfusedVars, Places
<1> QED
  BY <1>1, <1>3, <1>4, <1>5, <1>6, <1>7, <1>8 DEF TypeInv, unfusedVars

LEMMA DispatchTypes ==
  ASSUME TypeInv,
         \/ Begin \/ Return \/ BeginUnfused \/ NextBlock \/ NextToken
         \/ Scan \/ ScanDone \/ ReturnUnfused
  PROVE  TypeInv' /\ plan' = plan
<1>1. BP!TypeInv' /\ plan' = plan
  <2>1. /\ plan' = plan /\ bpc' = bpc /\ cur' = cur /\ gcur' = gcur
        /\ \/ arrived' = arrived /\ phase' = phase
           \/ /\ arrived' = [k \in DOMAIN arrived |-> 0]
              /\ phase' = [k \in DOMAIN phase |-> 0]
        /\ \/ round' = round
           \/ round' = [t \in Threads |-> 0]
           \/ round' = [t \in Threads |-> 3]
    BY DEF Begin, Return, BeginUnfused, NextBlock, NextToken, Scan, ScanDone,
           ReturnUnfused, barrierVars
  <2>2. BP!Threads' = Threads /\ BP!Threads = Threads /\ BP!Counters' = BP!Counters
    BY <2>1, SameThreads DEF BP!Threads, BP!Counters, BP!Nodes
  <2> QED
    BY <2>1, <2>2 DEF TypeInv, BP!TypeInv
<1>2. Threads' = Threads /\ Slots' = Slots /\ RowPhase' = RowPhase
  BY <1>1 DEF Threads, Slots, RowPhase
<1>3. tokens' \in Batches \cup {0}
  BY DEF Begin, Return, BeginUnfused, NextBlock, NextToken, Scan, ScanDone,
         ReturnUnfused, TypeInv
<1>4. /\ DOMAIN written' = Bufs
      /\ \A b \in Bufs : written'[b] \in [Places(b, tokens') -> Nat]
  <2>1. CASE Begin \/ BeginUnfused
    <3>1. PICK n \in Batches \cup {0} : tokens' = n /\ written' = Blank(n)
      BY <2>1 DEF Begin, BeginUnfused
    <3> QED
      BY <3>1, Blanks
  <2> QED
    BY <2>1 DEF Return, NextBlock, NextToken, Scan, ScanDone, ReturnUnfused,
                TypeInv
<1>5. at' \in [Threads -> Works]
  BY DEF Begin, Return, BeginUnfused, NextBlock, NextToken, Scan, ScanDone,
         ReturnUnfused, Start, TypeInv, Works
<1>6. /\ chunk' \in [Threads -> Nat] /\ quant' \in [Slots -> {"u", "y"}]
  BY <1>2
  DEF Begin, Return, BeginUnfused, NextBlock, NextToken, Scan, ScanDone,
      ReturnUnfused, Quantise, TypeInv
<1>7. ctr' \in [RowPhase -> Nat]
  <2>1. plan.n \in Nat
    BY SizesAssumption DEF TypeInv, BP!TypeInv
  <2> QED
    BY <2>1
    DEF Begin, Return, BeginUnfused, NextBlock, NextToken, Scan, ScanDone,
        ReturnUnfused, TypeInv
<1>8. /\ running' \in BOOLEAN /\ ready' \in BOOLEAN
      /\ input' \in [Threads -> BOOLEAN] /\ kernel' \in {"vector", "scalar"}
  BY DEF Begin, Return, BeginUnfused, NextBlock, NextToken, Scan, ScanDone,
         ReturnUnfused, TypeInv
<1>9. convPos' \in 0 .. 2
  <2>1. Many(tokens) \in Nat
    BY ManyType DEF TypeInv
  <2>3. convPos \in Nat /\ convPos + Many(tokens) \in Nat
    BY <2>1 DEF TypeInv
  <2>2. (convPos + Many(tokens)) % 3 \in 0 .. 2
    BY <2>3
  <2> QED
    BY <2>2
    DEF Begin, Return, BeginUnfused, NextBlock, NextToken, Scan, ScanDone,
        ReturnUnfused, TypeInv
<1>10. total' \in Nat
  <2>1. Many(tokens) \in Nat
    BY ManyType DEF TypeInv
  <2> QED
    BY <2>1
    DEF Begin, Return, BeginUnfused, NextBlock, NextToken, Scan, ScanDone,
        ReturnUnfused, TypeInv
<1>11. /\ call' \in Nat /\ step' \in {"in", "scan", "out"}
       /\ token' \in Nat /\ block' \in Nat
  BY DEF Begin, Return, BeginUnfused, NextBlock, NextToken, Scan, ScanDone,
         ReturnUnfused, TypeInv
<1>12. \A b : Places(b, tokens)' = Places(b, tokens')
  BY DEF Places
<1> HIDE DEF TypeInv
<1> QED
  BY <1>1, <1>2, <1>3, <1>4, <1>5, <1>6, <1>7, <1>8, <1>9, <1>10, <1>11, <1>12
  DEF TypeInv

-----------------------------------------------------------------------------
(* The invariant.                                                          *)

\* The phase of an unfused step.
Phase == IF step = "out" THEN 3 ELSE 0

\* The ring has moved with the tokens the scan has taken.
RingInv ==
  convPos = (total + IF running /\ ~Fused /\ step = "out"
                     THEN Many(tokens) ELSE 0) % 3

\* Between calls everybody is done, and the last call has computed everything.
IdleInv ==
  /\ running => call > 0
  /\ ~running =>
       /\ \A t \in Threads : at[t] = "done"
       /\ \A b \in Bufs : \A c \in Places(b, tokens) :
            written[b][c] = IF call = 0 THEN 0
                            ELSE IF b = "y" THEN 1 ELSE Blocks
  /\ ~running \/ Fused => token = 0 /\ block = 0

\* Fused.  Where a thread's round and its work agree.
PlaceInv ==
  \A t \in Threads :
    /\ at[t] = "grab" => Steal
    /\ at[t] = "ssm" => round[t] = 1
    /\ at[t] = "prepare" => round[t] = 2 /\ t = 0
    /\ at[t] = "done" => round[t] = 3

\* The rounds a thread has finished, but for waiting for the others: nobody
\* begins a round before everybody has finished the one before it.
Past(t)   == IF at[t] = "barrier" THEN round[t] + 1 ELSE round[t]
OrderInv  == \A t, u \in Threads : Past(u) >= round[t]

\* x_quant holds y from thread 0's third round on, and whoever works in the
\* last round has seen it.
QuantInv ==
  /\ quant[0] = IF Past(0) = 3 THEN "y" ELSE "u"
  /\ Past(0) = 3 => ready
  /\ \A t \in Threads : at[t] \in {"rows", "grab"} /\ round[t] = 3 => input[t]

\* A thread still has work in a phase: its own share or the chunk it holds,
\* which is the one with its number until it has begun.
Waits(t, p) == \/ round[t] < p
               \/ round[t] = p /\ at[t] \in {"start", "rows", "ssm"}
Held(t, p)  == IF round[t] = p /\ at[t] = "rows" THEN chunk[t] ELSE t

\* Chunks are handed out once each, and all of them before a thread stops.
ChunkInv ==
  Steal => \A p \in RowPhase : \A t \in Threads :
    /\ plan.n <= ctr[p]
    /\ Waits(t, p) => Held(t, p) < ctr[p]
    /\ \A u \in Threads : t # u /\ Waits(t, p) /\ Waits(u, p)
                             => Held(t, p) # Held(u, p)
    /\ Past(t) > p \/ (p = 3 /\ at[t] = "done") => NChunks(p) <= ctr[p]

\* The elements of a phase that are left: those of the threads and those of
\* the chunks nobody has taken.
Size(p)   == Elems(Buffer(p))
Steals(p) == Steal /\ p \in RowPhase
Left(t, p) ==
  IF ~Waits(t, p) THEN {}
  ELSE IF Steals(p) THEN ChunkRows(Held(t, p), Size(p), Chunk(p))
  ELSE TaskRange(t, plan.n, Size(p))
Untaken(p) ==
  IF Steals(p)
  THEN {r \in 0 .. Size(p) - 1 : \E c \in ctr[p] .. NChunks(p) - 1 :
                                   r \in ChunkRows(c, Size(p), Chunk(p))}
  ELSE {}

WorkInv ==
  \A p \in {0, 1, 3} : \A r \in 0 .. Size(p) - 1 :
    written[Buffer(p)][r] =
      IF (\E t \in Threads : r \in Left(t, p)) \/ r \in Untaken(p) THEN 0 ELSE 1

FusedInv ==
  BP!IInv /\ PlaceInv /\ OrderInv /\ QuantInv /\ ChunkInv /\ WorkInv

\* Unfused.  One dispatch at a time, of all its threads.
DispatchInv ==
  /\ token \in 0 .. Many(tokens) - 1 /\ block \in 0 .. Blocks - 1
  /\ kernel = "vector" \/ step = "scan" => token = 0
  /\ step = "scan" => block = 0
  /\ \A t \in Threads :
       /\ round[t] = Phase
       /\ \/ at[t] = "done"
          \/ step = "scan" /\ at[t] = "ssm" /\ t < Used(DInner)
          \/ step # "scan" /\ at[t] = "rows" /\ t < RowThreads(ProjRows, tokens)

\* The tokens of the open dispatch are quantised for it.
SlotInv ==
  step # "scan" =>
    \A k \in RowTokens(tokens) : quant[k] = IF step = "in" THEN "u" ELSE "y"

\* What has been computed of a token's element: of its column blocks, those of
\* the dispatches before this one, and this one's unless it is left.
PassedBy(works, n, i, threads, many) ==
  IF \E t \in 0 .. n - 1 : works[t] # "done" /\ i \in TaskRange(t, threads, many)
  THEN 0 ELSE 1
Passed(i, threads, many) == PassedBy(at, plan.n, i, threads, many)
RowCount(k, i) ==
  IF k \in RowTokens(tokens)
  THEN block + Passed(i, RowThreads(ProjRows, tokens), ProjRows)
  ELSE IF k < token THEN Blocks ELSE 0
Count(b, k, i) ==
  CASE b = "proj_out" -> IF step = "in" THEN RowCount(k, i) ELSE Blocks
    [] b = "y" -> IF step = "in" THEN 0
                  ELSE IF step = "scan" THEN Passed(i, Used(DInner), DInner)
                  ELSE 1
    [] b = "out" -> IF step = "out" THEN RowCount(k, i) ELSE 0
CountInv ==
  \A b \in Bufs : \A c \in Places(b, tokens) :
    written[b][c] = Count(b, c \div Elems(b), c % Elems(b))

UnfusedInv == DispatchInv /\ SlotInv /\ CountInv

IInv ==
  /\ TypeInv /\ RoundInv /\ RingInv /\ IdleInv
  /\ running /\ Fused => FusedInv
  /\ running /\ ~Fused => UnfusedInv

-----------------------------------------------------------------------------
(* Shares and chunks of a fused dispatch.                                  *)

\* A row lies in a chunk of the dispatch, and in no other.
LEMMA ChunkOf ==
  ASSUME NEW rows \in Nat, NEW cs \in Nat \ {0}, NEW c \in Nat,
         NEW r \in ChunkRows(c, rows, cs)
  PROVE  /\ r \in 0 .. rows - 1 /\ c < TotalChunks(rows, cs)
         /\ \A d \in Nat : r \in ChunkRows(d, rows, cs) => d = c
<1>1. r \in 0 .. rows - 1
  <2>1. c * cs \in Nat /\ (c + 1) * cs \in Nat
    BY Product
  <2> QED
    BY <2>1 DEF ChunkRows
<1>2. /\ \A d \in Nat : r \in ChunkRows(d, rows, cs) => d = c
      /\ \E d \in 0 .. TotalChunks(rows, cs) - 1 : r \in ChunkRows(d, rows, cs)
  BY <1>1, ChunksPartition
<1>3. TotalChunks(rows, cs) \in Nat
  <2>1. rows + cs - 1 \in Nat
    OBVIOUS
  <2> QED
    BY <2>1, Division DEF TotalChunks
<1> HIDE DEF TotalChunks
<1> QED
  BY <1>1, <1>2, <1>3

LEMMA Sizes ==
  ASSUME TypeInv
  PROVE  /\ plan.n \in Nat \ {0} /\ 0 \in Threads
         /\ \A p \in {0, 1, 3} : Buffer(p) \in Bufs /\ Size(p) \in Nat \ {0}
         /\ \A p \in RowPhase : /\ Rows(p) = Size(p)
                                /\ Chunk(p) \in Nat \ {0}
                                /\ NChunks(p) = TotalChunks(Size(p), Chunk(p))
                                /\ NChunks(p) \in Nat
<1>1. plan.n \in Nat \ {0} /\ 0 \in Threads
  BY SizesAssumption DEF TypeInv, BP!TypeInv, Threads
<1>2. \A p \in {0, 1, 3} : Buffer(p) \in Bufs /\ Size(p) \in Nat \ {0}
  BY ElemsType DEF Buffer, Bufs, Size
<1>3. \A p \in RowPhase : Rows(p) = Size(p)
  BY DEF RowPhase, Rows, Size, Buffer, Elems
<1>4. MinChunk \in Nat \ {0}
  BY SizesAssumption
<1>5. ASSUME NEW p \in RowPhase
      PROVE  /\ Chunk(p) \in Nat \ {0}
             /\ NChunks(p) = TotalChunks(Size(p), Chunk(p))
             /\ NChunks(p) \in Nat
  <2>1. Size(p) \in Nat \ {0}
    BY <1>2 DEF RowPhase
  <2> DEFINE many == plan.n * 4
  <2>2. many \in Nat \ {0}
    BY <1>1
  <2> HIDE DEF many
  <2>3. Size(p) \div many \in Nat
    BY <2>1, <2>2, Division
  <2>4. Chunk(p) = ChunkSize(Size(p), plan.n, MinChunk)
    BY <1>3, SameShares DEF Chunk
  <2>5. Chunk(p) \in Nat \ {0}
    BY <1>4, <2>3, <2>4 DEF ChunkSize, many
  <2>6. NChunks(p) = TotalChunks(Size(p), Chunk(p))
    BY <1>3, SameShares DEF NChunks
  <2>7. Size(p) + Chunk(p) - 1 \in Nat
    BY <2>1, <2>5
  <2>8. (Size(p) + Chunk(p) - 1) \div Chunk(p) \in Nat
    BY <2>5, <2>7, Division
  <2> QED
    BY <2>5, <2>6, <2>8 DEF TotalChunks
<1> QED
  BY <1>1, <1>2, <1>3, <1>5

\* What is left to different threads, or to none, is different.
LEMMA LeftApart ==
  ASSUME TypeInv, ChunkInv, NEW p \in {0, 1, 3}, NEW t \in Threads
  PROVE  /\ Left(t, p) \subseteq 0 .. Size(p) - 1
         /\ \A u \in Threads : u # t => Left(t, p) \cap Left(u, p) = {}
         /\ Left(t, p) \cap Untaken(p) = {}
<1>1. /\ plan.n \in Nat \ {0} /\ Size(p) \in Nat
      /\ \A u \in Threads : u \in 0 .. plan.n - 1 /\ u \in Nat
  BY Sizes DEF Threads
<1>2. CASE Steals(p)
  <2>1. p \in RowPhase /\ Steal
    BY <1>2 DEF Steals
  <2>2. Chunk(p) \in Nat \ {0} /\ ctr[p] \in Nat
    BY <2>1, Sizes DEF TypeInv
  <2>3. \A u \in Threads : Held(u, p) \in Nat
    BY <1>1 DEF Held, TypeInv
  <2>4. /\ Waits(t, p) => Held(t, p) < ctr[p]
        /\ \A u \in Threads : t # u /\ Waits(t, p) /\ Waits(u, p)
                             => Held(t, p) # Held(u, p)
    BY <2>1 DEF ChunkInv
  <2>5. ASSUME NEW r \in Left(t, p)
        PROVE  /\ r \in 0 .. Size(p) - 1
               /\ \A u \in Threads : u # t => r \notin Left(u, p)
               /\ r \notin Untaken(p)
    <3>1. r \in ChunkRows(Held(t, p), Size(p), Chunk(p)) /\ Waits(t, p)
      BY <1>2, <2>5 DEF Left
    <3>2. /\ r \in 0 .. Size(p) - 1
          /\ \A d \in Nat : r \in ChunkRows(d, Size(p), Chunk(p)) => d = Held(t, p)
      BY <1>1, <2>2, <2>3, <3>1, ChunkOf
    <3>3. \A u \in Threads : u # t => r \notin Left(u, p)
      BY <1>2, <2>3, <2>4, <3>1, <3>2 DEF Left
    <3>4. r \notin Untaken(p)
      <4> SUFFICES ASSUME NEW c \in ctr[p] .. NChunks(p) - 1,
                          r \in ChunkRows(c, Size(p), Chunk(p))
                   PROVE  FALSE
        BY <1>2 DEF Untaken
      <4>1. c \in Nat /\ c >= ctr[p]
        BY <2>1, <2>2, Sizes
      <4>2. c = Held(t, p)
        BY <3>2, <4>1
      <4> QED
        BY <2>2, <2>3, <2>4, <3>1, <4>1, <4>2
    <3> QED
      BY <3>2, <3>3, <3>4
  <2> QED
    BY <2>5
<1>3. CASE ~Steals(p)
  <2>1. \A u \in Threads : Left(u, p) = {} \/ Left(u, p) = TaskRange(u, plan.n, Size(p))
    BY <1>3 DEF Left
  <2>2. Left(t, p) \subseteq 0 .. Size(p) - 1
    BY <1>1, <2>1, ShareWithin
  <2>3. ASSUME NEW u \in Threads, u # t
        PROVE  Left(t, p) \cap Left(u, p) = {}
    <3>1. t < u \/ u < t
      BY <1>1, <2>3
    <3>2. TaskRange(t, plan.n, Size(p)) \cap TaskRange(u, plan.n, Size(p)) = {}
      BY <1>1, <3>1, SharesDisjoint
    <3> QED
      BY <2>1, <3>2
  <2>4. Untaken(p) = {}
    BY <1>3 DEF Untaken
  <2> QED
    BY <2>2, <2>3, <2>4
<1> QED
  BY <1>2, <1>3

-----------------------------------------------------------------------------
(* A thread's step in a fused dispatch.                                    *)

LEMMA FusedFacts ==
  ASSUME TypeInv, Fused
  PROVE  /\ kernel = "vector" /\ tokens = 0 /\ Blocks = 1 /\ Many(0) = 1
         /\ RowTokens(tokens) = {0} /\ 0 .. Many(tokens) - 1 = {0}
         /\ \A b \in Bufs : Places(b, tokens) = 0 .. Elems(b) - 1
<1>1. kernel = "vector" /\ tokens = 0 /\ Blocks = 1 /\ Many(0) = 1
  BY DEF Fused, CanFuse, Blocks, Many
<1> QED
  BY <1>1, ElemsType DEF RowTokens, Places

\* The places a fused pass writes are the elements it computes.
LEMMA OneToken ==
  ASSUME NEW S, S \subseteq Nat, NEW e \in Nat
  PROVE  Cells(S, {0}, e) = S
<1>1. ASSUME NEW i \in S PROVE 0 * e + i = i
  OBVIOUS
<1>2. ASSUME NEW c \in Cells(S, {0}, e) PROVE c \in S
  <2>1. PICK k \in {0}, i \in S : c = k * e + i
    BY DEF Cells
  <2> QED
    BY <1>1, <2>1
<1>3. ASSUME NEW c \in S PROVE c \in Cells(S, {0}, e)
  <2>1. c = 0 * e + c
    BY <1>1
  <2> DEFINE F(k, i) == k * e + i
  <2>3. c = F(0, c)
    BY <2>1
  <2> HIDE DEF F
  <2>4. c \in {F(k, i) : k \in {0}, i \in S}
    BY <2>3
  <2> QED
    BY <2>4 DEF Cells, F
<1> QED
  BY <1>2, <1>3

LEMMA RoundBound ==
  ASSUME TypeInv, RoundInv, PlaceInv, NEW t \in Threads
  PROVE  round[t] \in 0 .. 3 /\ Past(t) \in 0 .. 3
  BY SameThreads DEF TypeInv, BP!TypeInv, RoundInv, PlaceInv, Past, Works, RowPhase

\* Outside the barrier only the thread's own work moves.
WorkStep(t) ==
  StartRows(t) \/ DoRows(t) \/ Grab(t) \/ RowsDone(t) \/ Ssm(t) \/ Prepare(t)

LEMMA WorkPlaces ==
  ASSUME TypeInv, RoundInv, PlaceInv, Fused, NEW t \in Threads, WorkStep(t)
  PROVE  /\ UNCHANGED <<barrierVars, running, call, convPos, unfusedVars>>
         /\ at' \in [Threads -> Works]
         /\ \A u \in Threads : u # t => at'[u] = at[u] /\ chunk'[u] = chunk[u]
         /\ at[t] # "barrier"
         /\ RoundInv' /\ PlaceInv'
<1> USE DEF WorkStep, StartRows, DoRows, Grab, RowsDone, Ssm, Prepare, AfterRows
<1>1. UNCHANGED <<barrierVars, running, call, convPos, unfusedVars>>
  OBVIOUS
<1>2. /\ at' \in [Threads -> Works]
      /\ \A u \in Threads : u # t => at'[u] = at[u] /\ chunk'[u] = chunk[u]
      /\ at[t] # "barrier"
  BY DEF TypeInv, Works
<1>3. Threads' = Threads /\ RowPhase' = RowPhase /\ Steal' = Steal
      /\ round' = round /\ bpc' = bpc
  BY <1>1 DEF barrierVars, Threads, RowPhase, Steal
<1>4. RoundInv'
  BY <1>2, <1>3 DEF RoundInv, TypeInv, RowPhase, PlaceInv
<1>5. PlaceInv'
  BY <1>2, <1>3 DEF RoundInv, TypeInv, RowPhase, PlaceInv
<1> QED
  BY <1>1, <1>2, <1>4, <1>5

LEMMA WorkOrder ==
  ASSUME TypeInv, RoundInv, PlaceInv, OrderInv, QuantInv, Fused,
         NEW t \in Threads, WorkStep(t)
  PROVE  OrderInv' /\ QuantInv'
<1>1. Threads' = Threads /\ round' = round /\ 0 \in Threads
      /\ \A u \in Threads : u # t => at'[u] = at[u]
      /\ round \in [Threads -> Nat]
  BY WorkPlaces, Sizes, SameThreads DEF barrierVars, Threads, TypeInv, BP!TypeInv
<1>2. \A u \in Threads : Past(u)' = IF at'[u] = "barrier" THEN round[u] + 1 ELSE round[u]
  BY <1>1 DEF Past
<1>3. \A u \in Threads :
        Past(u) \in 0 .. 3 /\ Past(u)' \in Nat /\ Past(u)' >= Past(u)
  BY <1>1, <1>2, RoundBound, WorkPlaces DEF Past
<1>4. OrderInv'
  <2> SUFFICES ASSUME NEW s \in Threads, NEW u \in Threads
               PROVE  Past(u)' >= round[s]
    BY <1>1 DEF OrderInv
  <2>1. Past(u) \in Nat /\ Past(u)' \in Nat /\ Past(u)' >= Past(u)
    BY <1>3
  <2>2. Past(u) >= round[s]
    BY DEF OrderInv
  <2>3. round[s] \in Nat
    BY SameThreads DEF TypeInv, BP!TypeInv
  <2> QED
    BY <2>1, <2>2, <2>3
<1>5. QuantInv'
  <2>4. 0 \in Slots
    BY TokensHaveSlots, ManyType
  <2>1. quant'[0] = IF Past(0)' = 3 THEN "y" ELSE "u"
    BY <1>1, <1>2, <2>4
    DEF WorkStep, StartRows, DoRows, Grab, RowsDone, Ssm, Prepare, AfterRows,
        TypeInv, PlaceInv, RoundInv, QuantInv, RowPhase, Past, Fused
  <2>2. Past(0)' = 3 => ready'
    BY <1>1, <1>2
    DEF WorkStep, StartRows, DoRows, Grab, RowsDone, Ssm, Prepare, AfterRows,
        TypeInv, PlaceInv, RoundInv, QuantInv, RowPhase, Past, Fused
  <2>3. ASSUME NEW u \in Threads, at'[u] \in {"rows", "grab"}, round[u] = 3
        PROVE  input'[u]
    <3>1. CASE u = t /\ StartRows(t)
      <4>1. Past(0) >= 3 /\ Past(0) \in 0 .. 3
        BY <1>1, <1>3, <2>3 DEF OrderInv
      <4>2. ready
        BY <4>1 DEF QuantInv
      <4> QED
        BY <3>1, <4>2 DEF StartRows, TypeInv
    <3>2. CASE ~(u = t /\ StartRows(t))
      <4>1. input'[u] = input[u] /\ at[u] \in {"rows", "grab"}
        BY <1>1, <2>3, <3>2
        DEF WorkStep, StartRows, DoRows, Grab, RowsDone, Ssm, Prepare, AfterRows,
            TypeInv
      <4> QED
        BY <2>3, <4>1 DEF QuantInv
    <3> QED
      BY <3>1, <3>2
  <2> QED
    BY <1>1, <2>1, <2>2, <2>3 DEF QuantInv
<1> QED
  BY <1>4, <1>5

LEMMA WorkChunks ==
  ASSUME TypeInv, RoundInv, PlaceInv, ChunkInv, Fused,
         NEW t \in Threads, WorkStep(t)
  PROVE  ChunkInv'
<1>1. /\ Threads' = Threads /\ round' = round /\ plan' = plan /\ Steal' = Steal
      /\ RowPhase' = RowPhase /\ \A p : NChunks(p)' = NChunks(p)
  BY WorkPlaces DEF barrierVars, Threads, Steal, RowPhase, NChunks, Chunk, Rows
<1>2. \A u \in Threads : u # t => at'[u] = at[u] /\ chunk'[u] = chunk[u]
  BY WorkPlaces
<1>3. /\ round \in [Threads -> Nat] /\ plan.n \in Nat
      /\ \A p \in RowPhase : NChunks(p) \in Nat
      /\ \A u \in Threads : u \in Nat /\ u < plan.n
  BY Sizes, SameThreads DEF TypeInv, BP!TypeInv, Threads
<1> SUFFICES ASSUME Steal, NEW p \in RowPhase
             PROVE  /\ plan.n <= ctr'[p]
                    /\ \A s \in Threads :
                          /\ Waits(s, p)' => Held(s, p)' < ctr'[p]
                          /\ \A u \in Threads : s # u /\ Waits(s, p)' /\ Waits(u, p)'
                                                => Held(s, p)' # Held(u, p)'
                          /\ Past(s)' > p \/ (p = 3 /\ at'[s] = "done")
                               => NChunks(p) <= ctr'[p]
  BY <1>1 DEF ChunkInv
<1> DEFINE Waits1(s) == \/ round[s] < p
                        \/ round[s] = p /\ at'[s] \in {"start", "rows", "ssm"}
           Held1(s)  == IF round[s] = p /\ at'[s] = "rows" THEN chunk'[s] ELSE s
           Over(s)   == Past(s) > p \/ (p = 3 /\ at[s] = "done")
           Over1(s)  == Past(s)' > p \/ (p = 3 /\ at'[s] = "done")
<1>a. \A s \in Threads : (Waits(s, p)' <=> Waits1(s)) /\ Held(s, p)' = Held1(s)
  BY <1>1 DEF Waits, Held
<1>b. /\ plan.n <= ctr[p]
      /\ \A s \in Threads :
           /\ Waits(s, p) => Held(s, p) < ctr[p]
           /\ \A u \in Threads : s # u /\ Waits(s, p) /\ Waits(u, p)
                                 => Held(s, p) # Held(u, p)
           /\ Over(s) => NChunks(p) <= ctr[p]
  BY DEF ChunkInv
<1>c. \A s \in Threads :
        s # t => /\ Waits1(s) <=> Waits(s, p)
                 /\ Held1(s) = Held(s, p)
                 /\ Over1(s) <=> Over(s)
  BY <1>1, <1>2 DEF Waits, Held, Past
<1>e. p \in {0, 3} /\ ctr[p] \in Nat /\ t \in Nat /\ round[t] \in Nat
      /\ NChunks(p) \in Nat /\ chunk[t] \in Nat /\ at[t] \in Works
  BY <1>3 DEF TypeInv, RowPhase
<1>d. ASSUME ctr'[p] \in Nat, ctr[p] <= ctr'[p],
             Waits1(t) => \/ Waits(t, p) /\ Held1(t) = Held(t, p)
                          \/ Held1(t) = ctr[p] /\ ctr[p] < ctr'[p],
             Over1(t) => Over(t) \/ NChunks(p) <= ctr'[p]
      PROVE  /\ plan.n <= ctr'[p]
             /\ \A s \in Threads :
                  /\ Waits1(s) => Held1(s) < ctr'[p]
                  /\ \A u \in Threads : s # u /\ Waits1(s) /\ Waits1(u)
                                        => Held1(s) # Held1(u)
                  /\ Over1(s) => NChunks(p) <= ctr'[p]
  <2>4. \A s \in Threads : Held(s, p) \in Nat
    BY <1>3 DEF Held, TypeInv
  <2> HIDE DEF Waits1, Held1, Over, Over1
  <2>1. ASSUME NEW s \in Threads, Waits1(s) PROVE Held1(s) < ctr'[p]
    <3>1. CASE s = t
      BY <1>b, <1>d, <1>e, <2>1, <2>4, <3>1
    <3>2. CASE s # t
      BY <1>b, <1>c, <1>d, <1>e, <2>1, <2>4, <3>2
    <3> QED
      BY <3>1, <3>2
  <2>5. ASSUME NEW u \in Threads, u # t, Waits1(t), Waits1(u)
        PROVE  Held1(t) # Held1(u)
    <3>1. Held1(u) = Held(u, p) /\ Waits(u, p) /\ Held(u, p) < ctr[p]
      BY <1>b, <1>c, <2>5
    <3>2. CASE Held1(t) = ctr[p]
      BY <1>e, <2>4, <3>1, <3>2
    <3>3. CASE Waits(t, p) /\ Held1(t) = Held(t, p)
      BY <1>b, <2>5, <3>1, <3>3
    <3> QED
      BY <1>d, <2>5, <3>2, <3>3
  <2>2. ASSUME NEW s \in Threads, NEW u \in Threads, s # u, Waits1(s), Waits1(u)
        PROVE  Held1(s) # Held1(u)
    <3>1. CASE s # t /\ u # t
      BY <1>b, <1>c, <2>2, <3>1
    <3> QED
      BY <2>2, <2>5, <3>1
  <2>3. ASSUME NEW s \in Threads, Over1(s) PROVE NChunks(p) <= ctr'[p]
    <3>1. CASE s = t
      BY <1>b, <1>d, <1>e, <2>3, <3>1
    <3>2. CASE s # t
      BY <1>b, <1>c, <1>d, <1>e, <2>3, <3>2
    <3> QED
      BY <3>1, <3>2
  <2> QED
    BY <1>b, <1>d, <1>e, <1>3, <2>1, <2>2, <2>3
<1>f. SUFFICES /\ ctr'[p] \in Nat /\ ctr[p] <= ctr'[p]
               /\ Waits1(t) => \/ Waits(t, p) /\ Held1(t) = Held(t, p)
                               \/ Held1(t) = ctr[p] /\ ctr[p] < ctr'[p]
               /\ Over1(t) => Over(t) \/ NChunks(p) <= ctr'[p]
  <2> HIDE DEF Waits1, Held1, Over
  <2> QED
    BY <1>a, <1>d
<1>g. Past(t) = IF at[t] = "barrier" THEN round[t] + 1 ELSE round[t]
  BY DEF Past
<1>h. Past(t)' = IF at'[t] = "barrier" THEN round[t] + 1 ELSE round[t]
  BY <1>1 DEF Past
<1>5. CASE StartRows(t)
  <2>1. at[t] = "start" /\ at'[t] = "rows" /\ chunk'[t] = t /\ ctr' = ctr
    BY <1>5 DEF StartRows, TypeInv
  <2> QED
    BY <2>1, <1>e, <1>g, <1>h DEF Waits, Held
<1>6. CASE DoRows(t)
  <2>1. at[t] = "rows" /\ at'[t] = "grab" /\ chunk' = chunk /\ ctr' = ctr
    BY <1>6 DEF DoRows, TypeInv
  <2> QED
    BY <2>1, <1>e, <1>g, <1>h DEF Waits, Held
<1>7. CASE Grab(t)
  <2>1. /\ at[t] = "grab" /\ at'[t] = "rows" /\ chunk'[t] = ctr[round[t]]
        /\ round[t] \in {0, 3}
        /\ ctr'[p] = IF p = round[t] THEN ctr[p] + 1 ELSE ctr[p]
    BY <1>7, <1>e DEF Grab, TypeInv, RoundInv, RowPhase
  <2> QED
    BY <2>1, <1>e, <1>g, <1>h DEF Waits, Held
<1>8. CASE RowsDone(t)
  <2>1. /\ at[t] = "rows" /\ at'[t] = IF round[t] = 0 THEN "barrier" ELSE "done"
        /\ chunk' = chunk /\ ctr' = ctr /\ round[t] \in {0, 3}
        /\ chunk[t] >= NChunks(round[t])
    BY <1>8 DEF RowsDone, AfterRows, TypeInv, RoundInv, RowPhase
  <2>2. round[t] = p => chunk[t] < ctr[p]
    BY <2>1, <1>b DEF Waits, Held
  <2> QED
    BY <2>1, <2>2, <1>e, <1>g, <1>h DEF Waits, Held
<1>9. CASE Ssm(t) \/ Prepare(t)
  <2>1. /\ at[t] \in {"ssm", "prepare"} /\ at'[t] = "barrier"
        /\ chunk' = chunk /\ ctr' = ctr /\ round[t] \in {1, 2}
    BY <1>9 DEF Ssm, Prepare, TypeInv, PlaceInv
  <2> QED
    BY <2>1, <1>e, <1>g, <1>h DEF Waits, Held
<1> QED
  BY <1>5, <1>6, <1>7, <1>8, <1>9 DEF WorkStep

\* What is left changes only where the chunk or share of the thread does.
LEMMA WorkDone ==
  ASSUME TypeInv, RoundInv, PlaceInv, ChunkInv, WorkInv, Fused,
         NEW t \in Threads, WorkStep(t)
  PROVE  WorkInv'
<1>1. /\ Threads' = Threads /\ round' = round /\ plan' = plan /\ Steal' = Steal
      /\ \A p : Size(p)' = Size(p) /\ Chunk(p)' = Chunk(p) /\ NChunks(p)' = NChunks(p)
      /\ \A p : Steals(p)' = Steals(p)
  BY WorkPlaces
  DEF barrierVars, Threads, Steal, Steals, RowPhase, NChunks, Chunk, Rows, Size,
      Elems, Buffer
<1>2. \A u \in Threads : u # t => at'[u] = at[u] /\ chunk'[u] = chunk[u]
  BY WorkPlaces
<1>3. SUFFICES ASSUME NEW p \in {0, 1, 3}, NEW r \in 0 .. Size(p) - 1
      PROVE  written'[Buffer(p)][r] =
               IF (\E s \in Threads : r \in Left(s, p)') \/ r \in Untaken(p)'
               THEN 0 ELSE 1
  BY <1>1 DEF WorkInv
<1>4. \A u \in Threads : u # t => Left(u, p)' = Left(u, p)
  BY <1>1, <1>2 DEF Left, Waits, Held
<1> DEFINE w == written[Buffer(p)][r]
           Left1(s) == Left(s, p)'
           Rest1    == Untaken(p)'
<1>5. /\ w = IF (\E s \in Threads : r \in Left(s, p)) \/ r \in Untaken(p) THEN 0 ELSE 1
      /\ Buffer(p) \in Bufs /\ Size(p) \in Nat \ {0}
      /\ r \in Nat /\ r \in Places(Buffer(p), tokens)
  BY Sizes, FusedFacts DEF WorkInv, Size
<1>6. ctr'[p] = ctr[p] => Rest1 = Untaken(p)
  BY <1>1 DEF Untaken
\* Nothing is written, and the thread has as much to do as before.
<1>7. ASSUME written'[Buffer(p)] = written[Buffer(p)], ctr' = ctr,
             r \in Left1(t) <=> r \in Left(t, p)
      PROVE  written'[Buffer(p)][r] =
               IF (\E s \in Threads : r \in Left1(s)) \/ r \in Rest1 THEN 0 ELSE 1
  <2> HIDE DEF Left1, Rest1
  <2>1. \A s \in Threads : r \in Left1(s) <=> r \in Left(s, p)
    BY <1>4, <1>7 DEF Left1
  <2> QED
    BY <1>5, <1>6, <1>7, <2>1
\* The thread writes what was left to it.
<1>8. ASSUME ctr' = ctr, Left1(t) = {},
             written'[Buffer(p)][r] = IF r \in Left(t, p) THEN w + 1 ELSE w
      PROVE  written'[Buffer(p)][r] =
               IF (\E s \in Threads : r \in Left1(s)) \/ r \in Rest1 THEN 0 ELSE 1
  <2> HIDE DEF Left1, Rest1, w
  <2>1. \A s \in Threads : s # t => Left1(s) = Left(s, p)
    BY <1>4 DEF Left1
  <2>2. CASE r \in Left(t, p)
    <3>1. w = 0
      BY <1>5, <2>2
    <3>2. r \notin Untaken(p) /\ \A s \in Threads : s # t => r \notin Left(s, p)
      BY <2>2, LeftApart
    <3> QED
      BY <1>6, <1>8, <2>1, <2>2, <3>1, <3>2
  <2>3. CASE r \notin Left(t, p)
    <3>1. (\E s \in Threads : r \in Left1(s)) <=> (\E s \in Threads : r \in Left(s, p))
      BY <1>8, <2>1, <2>3
    <3> QED
      BY <1>5, <1>6, <1>8, <2>3, <3>1
  <2> QED
    BY <2>2, <2>3
\* Nothing is written, and as much is left to somebody or nobody as before.
<1>15. ASSUME written' = written,
              (\E s \in Threads : r \in Left1(s)) \/ r \in Rest1
                <=> (\E s \in Threads : r \in Left(s, p)) \/ r \in Untaken(p)
       PROVE  written'[Buffer(p)][r] =
                IF (\E s \in Threads : r \in Left1(s)) \/ r \in Rest1 THEN 0 ELSE 1
  <2> HIDE DEF Left1, Rest1
  <2> QED
    BY <1>5, <1>15
<1>9. round[t] \in Nat /\ p \in Nat /\ at[t] \in Works /\ t \in Nat
  <2>1. round \in [Threads -> Nat] /\ at \in [Threads -> Works]
    BY SameThreads DEF TypeInv, BP!TypeInv
  <2>2. t \in Nat
    BY Sizes DEF Threads
  <2> QED
    BY <2>1, <2>2
<1>10. CASE StartRows(t) \/ Prepare(t)
  <2>1. /\ written' = written /\ ctr' = ctr
        /\ \/ at[t] = "start" /\ at'[t] = "rows" /\ chunk'[t] = t
           \/ at[t] = "prepare" /\ at'[t] = "barrier" /\ chunk' = chunk
    BY <1>10 DEF StartRows, Prepare, TypeInv
  <2>2. Left1(t) = Left(t, p)
    BY <1>1, <1>9, <2>1 DEF Left, Waits, Held
  <2> QED
    BY <1>7, <2>1, <2>2
<1>11. CASE DoRows(t)
  <2> DEFINE q == round[t]
             e == Elems(Buffer(q))
  <2>1. /\ at[t] = "rows" /\ at'[t] \in {"grab", "barrier", "done"}
        /\ chunk' = chunk /\ ctr' = ctr /\ q \in RowPhase
        /\ Write(Buffer(q), Cells(MyRows(t), RowTokens(tokens), Rows(q)))
    BY <1>11 DEF DoRows, AfterRows, TypeInv, RoundInv
  <2>2. Buffer(q) \in Bufs /\ Rows(q) = Size(q) /\ Size(q) \in Nat /\ q \in {0, 1, 3}
    BY <2>1, Sizes DEF RowPhase
  <2>3. MyRows(t) = Left(t, q)
    BY <1>9, <2>1, <2>2, Sizes, SameShares
    DEF MyRows, Left, Waits, Held, Steals, Chunk, NChunks, Fused
  <2>4. Cells(MyRows(t), RowTokens(tokens), Rows(q)) = Left(t, q)
    <3>1. Left(t, q) \subseteq Nat
      BY <2>2, LeftApart
    <3> QED
      BY <2>2, <2>3, <3>1, FusedFacts, OneToken
  <2>5. CASE q = p
    <3>1. Left1(t) = {}
      BY <1>1, <1>9, <2>1, <2>5 DEF Left, Waits
    <3>2. written'[Buffer(p)][r] = IF r \in Left(t, p) THEN w + 1 ELSE w
      BY <1>5, <2>1, <2>4, <2>5, Writes
    <3> QED
      BY <1>8, <2>1, <3>1, <3>2
  <2>6. CASE q # p
    <3>1. Left1(t) = Left(t, p)
      BY <1>1, <1>9, <2>1, <2>6 DEF Left, Waits, Held
    <3>2. Buffer(p) # Buffer(q)
      BY <2>2, <2>6 DEF Buffer
    <3>3. written'[Buffer(p)] = written[Buffer(p)]
      BY <1>5, <2>1, <2>2, <3>2, Writes
    <3> QED
      BY <1>7, <2>1, <3>1, <3>3
  <2> QED
    BY <2>5, <2>6
<1>12. CASE Grab(t)
  <2> DEFINE q == round[t]
  <2>1. /\ at[t] = "grab" /\ at'[t] = "rows" /\ chunk'[t] = ctr[q]
        /\ ctr' = [ctr EXCEPT ![q] = @ + 1] /\ q \in RowPhase /\ Steal
        /\ written' = written
    BY <1>12 DEF Grab, TypeInv, RoundInv, PlaceInv
  <2>2. CASE q # p
    <3>1. Left1(t) = Left(t, p)
      BY <1>1, <1>9, <2>1, <2>2 DEF Left, Waits, Held
    <3>2. ctr'[p] = ctr[p] \/ ~Steals(p)
      BY <2>1, <2>2 DEF TypeInv, Steals
    <3>3. Rest1 = Untaken(p)
      BY <1>1, <3>2 DEF Untaken
    <3>4. \A s \in Threads : r \in Left1(s) <=> r \in Left(s, p)
      BY <1>4, <3>1
    <3> QED
      BY <1>15, <2>1, <3>3, <3>4
  <2>3. CASE q = p
    <3> DEFINE k == ctr[p]
               mine == ChunkRows(k, Size(p), Chunk(p))
    <3>1. /\ k \in Nat /\ Steals(p) /\ NChunks(p) \in Nat /\ Chunk(p) \in Nat \ {0}
          /\ NChunks(p) = TotalChunks(Size(p), Chunk(p)) /\ Size(p) \in Nat
      BY <1>5, <2>1, <2>3, Sizes DEF TypeInv, Steals
    <3>2. Left(t, p) = {}
      BY <1>9, <2>1, <2>3 DEF Left, Waits
    <3>3. Left1(t) = mine
      BY <1>1, <1>9, <2>1, <2>3, <3>1 DEF Left, Waits, Held
    <3>4. ctr'[p] = k + 1
      BY <2>1, <2>3, <3>1 DEF TypeInv, Steals
    <3>5. r \in mine => k \in ctr[p] .. NChunks(p) - 1
      BY <3>1, ChunkOf
    <3>6. r \in Untaken(p) <=> \E c \in k .. NChunks(p) - 1 :
                                 r \in ChunkRows(c, Size(p), Chunk(p))
      BY <1>5, <3>1 DEF Untaken
    <3>7. r \in Rest1 <=> \E c \in k + 1 .. NChunks(p) - 1 :
                            r \in ChunkRows(c, Size(p), Chunk(p))
      BY <1>1, <1>5, <3>1, <3>4 DEF Untaken
    <3>8. r \in Untaken(p) <=> r \in Rest1 \/ r \in mine
      <4> HIDE DEF Rest1, k
      <4>1. \A c \in k .. NChunks(p) - 1 : c = k \/ c \in k + 1 .. NChunks(p) - 1
        BY <3>1
      <4>2. \A c \in k + 1 .. NChunks(p) - 1 : c \in k .. NChunks(p) - 1
        BY <3>1
      <4>3. k = ctr[p]
        BY DEF k
      <4> QED
        BY <3>5, <3>6, <3>7, <4>1, <4>2, <4>3
    <3>9. \A s \in Threads : s # t => (r \in Left1(s) <=> r \in Left(s, p))
      BY <1>4
    <3>10. (\E s \in Threads : r \in Left1(s)) \/ r \in Rest1
             <=> (\E s \in Threads : r \in Left(s, p)) \/ r \in Untaken(p)
      <4> HIDE DEF Left1, Rest1, mine
      <4> QED
        BY <3>2, <3>3, <3>8, <3>9
    <3> QED
      BY <1>15, <2>1, <3>10
  <2> QED
    BY <2>2, <2>3
<1>13. CASE RowsDone(t)
  <2> DEFINE q == round[t]
  <2>1. /\ at[t] = "rows" /\ at'[t] \in {"barrier", "done"} /\ chunk' = chunk
        /\ ctr' = ctr /\ q \in RowPhase /\ Steal /\ written' = written
        /\ chunk[t] >= NChunks(q)
    BY <1>13 DEF RowsDone, AfterRows, TypeInv, RoundInv
  <2>2. CASE q # p
    <3>1. Left1(t) = Left(t, p)
      BY <1>1, <1>9, <2>1, <2>2 DEF Left, Waits, Held
    <3> QED
      BY <1>7, <2>1, <3>1
  <2>3. CASE q = p
    <3>1. /\ NChunks(p) \in Nat /\ Chunk(p) \in Nat \ {0} /\ chunk[t] \in Nat
          /\ NChunks(p) = TotalChunks(Size(p), Chunk(p)) /\ Size(p) \in Nat
      BY <1>5, <2>1, <2>3, Sizes DEF TypeInv
    <3>2. r \notin Left(t, p)
      <4>1. Left(t, p) = ChunkRows(chunk[t], Size(p), Chunk(p))
        BY <1>9, <2>1, <2>3 DEF Left, Waits, Held, Steals
      <4>2. r \in Left(t, p) => chunk[t] < NChunks(p)
        BY <3>1, <4>1, ChunkOf
      <4> QED
        BY <2>1, <2>3, <3>1, <4>2
    <3>3. Left1(t) = {}
      BY <1>1, <1>9, <2>1, <2>3 DEF Left, Waits
    <3> QED
      BY <1>7, <2>1, <3>2, <3>3
  <2> QED
    BY <2>2, <2>3
<1>14. CASE Ssm(t)
  <2> DEFINE mine == TaskRange(t, plan.n, DInner)
  <2>1. /\ at[t] = "ssm" /\ at'[t] = "barrier" /\ round[t] = 1
        /\ chunk' = chunk /\ ctr' = ctr
    BY <1>14 DEF Ssm, TypeInv, PlaceInv
  <2>2. Write("y", Cells(mine, {0}, DInner))
    BY <1>14, FusedFacts, SameShares DEF Ssm
  <2>3. Left(t, 1) = mine
    BY <1>9, <2>1 DEF Left, Waits, Steals, RowPhase, Size, Buffer, Elems
  <2>4. Cells(mine, {0}, DInner) = Left(t, 1)
    <3>1. Left(t, 1) \subseteq 0 .. Size(1) - 1 /\ Size(1) \in Nat
      BY LeftApart, Sizes
    <3>2. mine \subseteq Nat
      BY <2>3, <3>1
    <3>3. DInner \in Nat
      BY SizesAssumption
    <3> HIDE DEF mine
    <3> QED
      BY <2>3, <3>2, <3>3, OneToken
  <2>5. CASE p = 1
    <3>1. Left1(t) = {}
      BY <1>1, <1>9, <2>1, <2>5 DEF Left, Waits
    <3>2. Buffer(p) = "y" /\ "y" \in Bufs
      BY <2>5 DEF Buffer, Bufs
    <3>3. written'[Buffer(p)][r] = IF r \in Left(t, p) THEN w + 1 ELSE w
      BY <1>5, <2>2, <2>4, <2>5, <3>2, Writes
    <3> QED
      BY <1>8, <2>1, <3>1, <3>3
  <2>6. CASE p # 1
    <3>1. Left1(t) = Left(t, p)
      BY <1>1, <1>9, <2>1, <2>6 DEF Left, Waits, Held
    <3>2. Buffer(p) # "y" /\ "y" \in Bufs
      BY <2>6 DEF Buffer, Bufs
    <3>3. written'[Buffer(p)] = written[Buffer(p)]
      BY <1>5, <2>2, <3>2, Writes
    <3> QED
      BY <1>7, <2>1, <3>1, <3>3
  <2> QED
    BY <2>5, <2>6
<1> QED
  BY <1>10, <1>11, <1>12, <1>13, <1>14 DEF WorkStep
-----------------------------------------------------------------------------
(* A thread's step in the barrier of a fused dispatch.                     *)

\* Who moves, and where to: out of its r-th barrier only when everybody has
\* finished r rounds.
LEMMA BarrierPlaces ==
  ASSUME TypeInv, RoundInv, PlaceInv, OrderInv, BP!IInv, BP!Placed(plan), Fused,
         NEW t \in Threads, BarrierStep(t)
  PROVE  /\ Threads' = Threads /\ plan' = plan
         /\ at[t] = "barrier" /\ round[t] \in 0 .. 2
         /\ round' \in [Threads -> Nat] /\ at' \in [Threads -> Works]
         /\ bpc' \in [Threads -> BP!Pc]
         /\ \A u \in Threads : u # t => /\ at'[u] = at[u] /\ bpc'[u] = bpc[u]
                                        /\ round'[u] = round[u]
         /\ \/ at'[t] = "barrier" /\ round'[t] = round[t]
            \/ /\ bpc'[t] = "out" /\ round'[t] = round[t] + 1
               /\ at'[t] = NextPhase(t, round[t] + 1)
               /\ \A u \in Threads : Past(u) >= round[t] + 1
<1>1. B!Step(t) /\ at[t] = "barrier"
  BY DEF BarrierStep
<1>2. round[t] \in 0 .. 2 /\ round \in [Threads -> Nat]
  BY <1>1, SameThreads DEF RoundInv, TypeInv, BP!TypeInv
<1>3. TypeInv' /\ plan' = plan /\ Threads' = Threads
  BY WorkerTypes DEF WorkerStep, Threads
<1>4. round' \in [Threads -> Nat] /\ at' \in [Threads -> Works]
      /\ bpc' \in [Threads -> BP!Pc]
  BY <1>3, SameThreads DEF TypeInv, BP!TypeInv, BP!Threads, Threads, BP!Pc
<1>5. at' = [at EXCEPT ![t] = IF bpc'[t] = "out" THEN NextPhase(t, round'[t])
                              ELSE @]
  BY DEF BarrierStep
<1>6. /\ \A u \in Threads : u # t => bpc'[u] = bpc[u]
      /\ \/ bpc'[t] # "out" /\ round' = round
         \/ /\ bpc'[t] = "out" /\ round' = [round EXCEPT ![t] = @ + 1]
            /\ \/ bpc[t] = "release"
               \/ bpc[t] = "wait" /\ phase[BP!Home(t)] # cur[t]
  BY <1>1, BarrierMoves DEF TypeInv
<1>7. \A u \in Threads : u # t => at'[u] = at[u] /\ round'[u] = round[u]
  BY <1>2, <1>5, <1>6 DEF TypeInv
<1>8. CASE bpc'[t] # "out"
  BY <1>1, <1>2, <1>3, <1>4, <1>5, <1>6, <1>7, <1>8 DEF TypeInv
<1>9. CASE bpc'[t] = "out"
  <2>1. \A u \in Threads : BP!Entered(u) >= round[t] + 1
    BY SizesAssumption, <1>6, <1>9, SameThreads, BP!NobodyBehind
  <2>2. \A u \in Threads : Past(u) >= BP!Entered(u) /\ Past(u) \in Nat
                           /\ BP!Entered(u) \in Nat
    BY <1>2, SameThreads DEF Past, BP!Entered, RoundInv
  <2>3. \A u \in Threads : Past(u) >= round[t] + 1
    <3> SUFFICES ASSUME NEW u \in Threads PROVE Past(u) >= round[t] + 1
      OBVIOUS
    <3>1. Past(u) >= BP!Entered(u) /\ BP!Entered(u) >= round[t] + 1
          /\ Past(u) \in Nat /\ BP!Entered(u) \in Nat /\ round[t] \in Nat
      BY <1>2, <2>1, <2>2
    <3> QED
      BY <3>1
  <2>4. round'[t] = round[t] + 1 /\ at'[t] = NextPhase(t, round[t] + 1)
    BY <1>2, <1>5, <1>6, <1>9 DEF TypeInv
  <2> QED
    BY <1>1, <1>2, <1>3, <1>4, <1>6, <1>7, <1>9, <2>3, <2>4
<1> QED
  BY <1>8, <1>9

LEMMA BarrierOrder ==
  ASSUME TypeInv, RoundInv, PlaceInv, OrderInv, QuantInv, BP!IInv,
         BP!Placed(plan), Fused, NEW t \in Threads, BarrierStep(t)
  PROVE  RoundInv' /\ PlaceInv' /\ OrderInv' /\ QuantInv'
<1> DEFINE r == round[t]
<1>1. /\ Threads' = Threads /\ at[t] = "barrier" /\ r \in 0 .. 2
      /\ \A u \in Threads : u # t => /\ at'[u] = at[u] /\ bpc'[u] = bpc[u]
                                     /\ round'[u] = round[u]
      /\ \/ at'[t] = "barrier" /\ round'[t] = r
         \/ /\ bpc'[t] = "out" /\ round'[t] = r + 1
            /\ at'[t] = NextPhase(t, r + 1)
            /\ \A u \in Threads : Past(u) >= r + 1
  BY BarrierPlaces
<1>2. RowPhase' = RowPhase /\ Steal' = Steal
  BY BarrierPlaces DEF RowPhase, Steal
<1>3. \/ at'[t] = "barrier" /\ round'[t] = r
      \/ /\ bpc'[t] = "out"
         /\ \/ r = 0 /\ round'[t] = 1 /\ at'[t] = "ssm"
            \/ r = 1 /\ round'[t] = 2 /\ t = 0 /\ at'[t] = "prepare"
            \/ r = 1 /\ round'[t] = 2 /\ t # 0 /\ at'[t] = "barrier"
            \/ r = 2 /\ round'[t] = 3 /\ at'[t] = "start"
  BY <1>1 DEF NextPhase
<1>4. RoundInv'
  <2> SUFFICES ASSUME NEW s \in Threads
               PROVE  /\ at'[s] \in {"start", "rows", "grab"} => round'[s] \in RowPhase
                      /\ at'[s] = "barrier" => round'[s] \in 0 .. 2
                      /\ at'[s] # "barrier" => bpc'[s] = "out"
    BY <1>1, <1>2 DEF RoundInv
  <2>1. CASE s = t
    BY <1>1, <1>3, <2>1 DEF RowPhase
  <2>2. CASE s # t
    BY <1>1, <2>2 DEF RoundInv
  <2> QED
    BY <2>1, <2>2
<1>5. PlaceInv'
  <2> SUFFICES ASSUME NEW s \in Threads
               PROVE  /\ at'[s] = "grab" => Steal
                      /\ at'[s] = "ssm" => round'[s] = 1
                      /\ at'[s] = "prepare" => round'[s] = 2 /\ s = 0
                      /\ at'[s] = "done" => round'[s] = 3
    BY <1>1, <1>2 DEF PlaceInv
  <2>1. CASE s = t
    BY <1>3, <2>1
  <2>2. CASE s # t
    BY <1>1, <2>2 DEF PlaceInv
  <2> QED
    BY <2>1, <2>2
<1>6. \A u \in Threads :
        Past(u)' = IF at'[u] = "barrier" THEN round'[u] + 1 ELSE round'[u]
  BY <1>1 DEF Past
<1>7. \A u \in Threads :
        /\ Past(u) \in 0 .. 3 /\ round[u] \in 0 .. 3
        /\ u # t => Past(u)' = Past(u)
  BY <1>1, <1>6, RoundBound DEF Past
<1>8. Past(t) = r + 1 /\ Past(t)' \in Nat /\ Past(t)' >= Past(t)
      /\ (t = 0 => Past(t)' = Past(t))
  BY <1>1, <1>3, <1>6 DEF Past
<1>9. \A u \in Threads : Past(u)' \in Nat /\ Past(u)' >= Past(u)
  <2> SUFFICES ASSUME NEW u \in Threads PROVE Past(u)' \in Nat /\ Past(u)' >= Past(u)
    OBVIOUS
  <2>1. CASE u = t
    BY <1>8, <2>1
  <2>2. CASE u # t
    <3>1. Past(u)' = Past(u)
      BY <1>7, <2>2
    <3>2. Past(u) \in Nat
      BY <1>7
    <3> QED
      BY <3>1, <3>2
  <2> QED
    BY <2>1, <2>2
<1>10. OrderInv'
  <2> SUFFICES ASSUME NEW s \in Threads, NEW u \in Threads
               PROVE  Past(u)' >= round'[s]
    BY <1>1 DEF OrderInv
  <2>1. round'[s] \in Nat /\ Past(u) \in Nat /\ Past(u) >= round'[s]
    <3>1. CASE s = t
      BY <1>1, <1>7, <3>1 DEF OrderInv
    <3>2. CASE s # t
      BY <1>1, <1>7, <3>2 DEF OrderInv
    <3> QED
      BY <3>1, <3>2
  <2>2. Past(u)' \in Nat /\ Past(u)' >= Past(u)
    BY <1>9
  <2> QED
    BY <2>1, <2>2
<1>11. QuantInv'
  <2>1. quant' = quant /\ ready' = ready /\ input' = input
    BY DEF BarrierStep
  <2>2. 0 \in Threads /\ (Past(0)' = 3 <=> Past(0) = 3)
    <3>1. 0 \in Threads
      BY Sizes
    <3>2. CASE t = 0
      BY <1>8, <3>2
    <3>3. CASE t # 0
      BY <1>7, <3>1, <3>3
    <3> QED
      BY <3>1, <3>2, <3>3
  <2>3. ASSUME NEW s \in Threads, at'[s] \in {"rows", "grab"}, round'[s] = 3
        PROVE  input[s]
    <3>1. s # t
      BY <1>3, <2>3
    <3> QED
      BY <1>1, <2>3, <3>1 DEF QuantInv
  <2>4. /\ quant[0] = IF Past(0) = 3 THEN "y" ELSE "u"
        /\ Past(0) = 3 => ready
    BY DEF QuantInv
  <2>5. quant'[0] = IF Past(0)' = 3 THEN "y" ELSE "u"
    BY <2>1, <2>2, <2>4
  <2>6. Past(0)' = 3 => ready'
    BY <2>1, <2>2, <2>4
  <2> QED
    BY <1>1, <2>1, <2>3, <2>5, <2>6 DEF QuantInv
<1> QED
  BY <1>4, <1>5, <1>10, <1>11

\* Nothing is taken or done there.
LEMMA BarrierWork ==
  ASSUME TypeInv, RoundInv, PlaceInv, OrderInv, ChunkInv, WorkInv, BP!IInv,
         BP!Placed(plan), Fused, NEW t \in Threads, BarrierStep(t)
  PROVE  ChunkInv' /\ WorkInv'
<1> DEFINE r == round[t]
<1>1. /\ Threads' = Threads /\ plan' = plan /\ at[t] = "barrier" /\ r \in 0 .. 2
      /\ \A u \in Threads : u # t => at'[u] = at[u] /\ round'[u] = round[u]
      /\ \/ at'[t] = "barrier" /\ round'[t] = r
         \/ round'[t] = r + 1 /\ at'[t] = NextPhase(t, r + 1)
  BY BarrierPlaces
<1>2. chunk' = chunk /\ ctr' = ctr /\ written' = written
  BY DEF BarrierStep
<1>3. \/ at'[t] = "barrier" /\ round'[t] = r
      \/ r = 0 /\ round'[t] = 1 /\ at'[t] = "ssm"
      \/ r = 1 /\ round'[t] = 2 /\ at'[t] \in {"prepare", "barrier"}
      \/ r = 2 /\ round'[t] = 3 /\ at'[t] = "start"
  BY <1>1 DEF NextPhase
<1>4. /\ Steal' = Steal /\ RowPhase' = RowPhase
      /\ \A p : Size(p)' = Size(p) /\ Chunk(p)' = Chunk(p)
                /\ NChunks(p)' = NChunks(p) /\ Steals(p)' = Steals(p)
  BY <1>1 DEF Steal, Steals, RowPhase, NChunks, Chunk, Rows, Size, Elems, Buffer
<1>5. ASSUME NEW p \in {0, 1, 3}, NEW s \in Threads
      PROVE  (Waits(s, p)' <=> Waits(s, p)) /\ Held(s, p)' = Held(s, p)
  <2>1. CASE s = t
    BY <1>1, <1>3, <2>1 DEF Waits, Held
  <2>2. CASE s # t
    BY <1>1, <1>2, <2>2 DEF Waits, Held
  <2> QED
    BY <2>1, <2>2
<1>6. ASSUME NEW p \in RowPhase, NEW s \in Threads,
             Past(s)' > p \/ (p = 3 /\ at'[s] = "done")
      PROVE  Past(s) > p \/ (p = 3 /\ at[s] = "done")
  <2>1. Past(s)' = IF at'[s] = "barrier" THEN round'[s] + 1 ELSE round'[s]
    BY DEF Past
  <2>2. CASE s = t
    BY <1>1, <1>3, <1>6, <2>1, <2>2 DEF Past, RowPhase
  <2>3. CASE s # t
    BY <1>1, <1>6, <2>1, <2>3 DEF Past
  <2> QED
    BY <2>2, <2>3
<1>7. ChunkInv'
  <2> SUFFICES ASSUME Steal, NEW p \in RowPhase, NEW s \in Threads
               PROVE  /\ plan.n <= ctr[p]
                      /\ Waits(s, p)' => Held(s, p)' < ctr[p]
                      /\ \A u \in Threads : s # u /\ Waits(s, p)' /\ Waits(u, p)'
                                            => Held(s, p)' # Held(u, p)'
                      /\ Past(s)' > p \/ (p = 3 /\ at'[s] = "done")
                           => NChunks(p) <= ctr[p]
    BY <1>1, <1>2, <1>4 DEF ChunkInv
  <2>1. p \in {0, 1, 3}
    BY DEF RowPhase
  <2>2. /\ plan.n <= ctr[p]
        /\ Waits(s, p) => Held(s, p) < ctr[p]
        /\ \A u \in Threads : s # u /\ Waits(s, p) /\ Waits(u, p)
                              => Held(s, p) # Held(u, p)
        /\ Past(s) > p \/ (p = 3 /\ at[s] = "done") => NChunks(p) <= ctr[p]
    BY DEF ChunkInv
  <2>3. \A u \in Threads : (Waits(u, p)' <=> Waits(u, p)) /\ Held(u, p)' = Held(u, p)
    BY <1>5, <2>1
  <2> QED
    BY <1>6, <2>2, <2>3
<1>8. WorkInv'
  <2>1. \A p \in {0, 1, 3} : \A s \in Threads : Left(s, p)' = Left(s, p)
    <3> SUFFICES ASSUME NEW p \in {0, 1, 3}, NEW s \in Threads
                 PROVE  Left(s, p)' = Left(s, p)
      OBVIOUS
    <3>1. (Waits(s, p)' <=> Waits(s, p)) /\ Held(s, p)' = Held(s, p)
      BY <1>5
    <3> QED
      BY <1>1, <1>4, <3>1 DEF Left
  <2>2. \A p : Untaken(p)' = Untaken(p)
    BY <1>2, <1>4 DEF Untaken
  <2> QED
    BY <1>1, <1>2, <1>4, <2>1, <2>2 DEF WorkInv
<1> QED
  BY <1>7, <1>8

\* Every step of a thread in a fused dispatch.
LEMMA FusedStep ==
  ASSUME IInv, \A p \in Plans : BP!Placed(p), running, Fused,
         NEW t \in Threads, WorkerStep(t)
  PROVE  IInv'
<1>1. /\ TypeInv /\ RoundInv /\ RingInv /\ IdleInv /\ BP!IInv /\ PlaceInv
      /\ OrderInv /\ QuantInv /\ ChunkInv /\ WorkInv
  BY DEF IInv, FusedInv
<1>2. BP!Placed(plan) /\ t \in BP!Threads
  BY <1>1, SameThreads DEF TypeInv, BP!TypeInv
<1>3. TypeInv' /\ plan' = plan
  BY <1>1, <1>2, WorkerTypes
<1>4. UNCHANGED <<running, call, convPos, unfusedVars>>
  BY DEF WorkerStep, StartRows, DoRows, Grab, RowsDone, Ssm, Prepare, BarrierStep
<1>5. running' /\ Fused' /\ running' = running
  BY <1>3, <1>4 DEF unfusedVars, Fused, CanFuse
<1>6. BP!IInv'
  <2>1. [BP!Next]_(BP!vars)
    <3>1. CASE BarrierStep(t)
      BY <1>2, <3>1, SameStep DEF BarrierStep, BP!Next
    <3>2. CASE WorkStep(t)
      BY <1>1, <3>2, WorkPlaces DEF barrierVars, BP!vars
    <3> QED
      BY <3>1, <3>2 DEF WorkerStep, WorkStep
  <2> QED
    BY <1>1, <2>1, SizesAssumption, BP!InvariantStep
<1>7. RoundInv' /\ PlaceInv' /\ OrderInv' /\ QuantInv' /\ ChunkInv' /\ WorkInv'
  <2>1. CASE BarrierStep(t)
    BY <1>1, <1>2, <2>1, BarrierOrder, BarrierWork
  <2>2. CASE WorkStep(t)
    BY <1>1, <2>2, WorkPlaces, WorkOrder, WorkChunks, WorkDone
  <2> QED
    BY <2>1, <2>2 DEF WorkerStep, WorkStep
<1>8. RingInv'
  BY <1>1, <1>4, <1>5 DEF RingInv, unfusedVars
<1>9. IdleInv'
  BY <1>1, <1>4, <1>5 DEF IdleInv, unfusedVars
<1> QED
  BY <1>3, <1>5, <1>6, <1>7, <1>8, <1>9 DEF IInv, FusedInv
-----------------------------------------------------------------------------
(* A fused dispatch begins and returns.                                    *)

LEMMA FreshBarrier == BP!Fresh' => BP!IInv'
<1>1. BP!Fresh => BP!IInv
  BY SizesAssumption, BP!FreshInv
<1> QED
  BY <1>1, PTL

LEMMA BeginStep ==
  ASSUME IInv, \A p \in Plans : BP!Placed(p), Begin
  PROVE  IInv'
<1>1. /\ CanFuse /\ ~running /\ running' /\ tokens' = 0 /\ call' = call + 1
      /\ quant' = [quant EXCEPT ![0] = "u"]
      /\ ctr' = [p \in RowPhase |-> plan.n]
      /\ arrived' = [k \in DOMAIN arrived |-> 0]
      /\ phase' = [k \in DOMAIN phase |-> 0]
      /\ round' = [t \in Threads |-> 0]
      /\ at' = [t \in Threads |-> "start"]
      /\ written' = Blank(0)
      /\ UNCHANGED <<plan, bpc, convPos, total, kernel, token, block>>
  BY DEF Begin
<1>2. TypeInv /\ TypeInv' /\ RoundInv /\ RingInv /\ IdleInv
  BY DispatchTypes DEF IInv
<1>3. /\ Threads' = Threads /\ RowPhase' = RowPhase /\ Steal' = Steal /\ Fused'
      /\ \A p : Size(p)' = Size(p) /\ Chunk(p)' = Chunk(p)
                /\ NChunks(p)' = NChunks(p) /\ Steals(p)' = Steals(p)
  BY <1>1 DEF Threads, RowPhase, Steal, Steals, Fused, CanFuse, NChunks, Chunk,
              Rows, Size, Elems, Buffer
<1>4. \A t \in Threads : /\ bpc'[t] = "out" /\ at'[t] = "start" /\ round'[t] = 0
                         /\ t \in Nat /\ t < plan.n
  <2>1. \A t \in Threads : bpc[t] = "out"
    BY <1>1, <1>2 DEF IdleInv, RoundInv
  <2> QED
    BY <1>1, <1>2, <2>1, Sizes DEF Threads
<1>5. /\ \A t \in Threads : Past(t)' = 0
      /\ \A t \in Threads : \A p \in {0, 1, 3} : Waits(t, p)' /\ Held(t, p)' = t
  BY <1>4 DEF Past, Waits, Held
<1>6. RoundInv' /\ PlaceInv'
  BY <1>3, <1>4 DEF RoundInv, PlaceInv, RowPhase
<1>7. RingInv'
  <2>1. convPos = total % 3
    BY <1>1, <1>2 DEF RingInv, TypeInv
  <2> QED
    BY <1>1, <1>2, <1>3, <2>1 DEF RingInv, TypeInv
<1>8. IdleInv'
  BY <1>1, <1>2, <1>3 DEF IdleInv, TypeInv
<1>9. OrderInv'
  BY <1>3, <1>4, <1>5 DEF OrderInv
<1>10. QuantInv'
  <2>1. 0 \in Slots
    BY TokensHaveSlots, ManyType
  <2> QED
    BY <1>1, <1>2, <1>3, <1>4, <1>5, <2>1, Sizes DEF QuantInv, TypeInv
<1>11. ChunkInv'
  <2> SUFFICES ASSUME Steal, NEW p \in RowPhase, NEW t \in Threads
               PROVE  /\ plan.n <= ctr'[p]
                      /\ Waits(t, p)' => Held(t, p)' < ctr'[p]
                      /\ \A u \in Threads : t # u /\ Waits(t, p)' /\ Waits(u, p)'
                                            => Held(t, p)' # Held(u, p)'
                      /\ Past(t)' > p \/ (p = 3 /\ at'[t] = "done")
                           => NChunks(p) <= ctr'[p]
    BY <1>1, <1>3 DEF ChunkInv
  <2>1. ctr'[p] = plan.n /\ plan.n \in Nat /\ p \in {0, 1, 3}
    BY <1>1, <1>2, Sizes DEF RowPhase
  <2>2. ~(Past(t)' > p) /\ at'[t] # "done"
    BY <1>4, <1>5, <2>1
  <2> QED
    BY <1>4, <1>5, <2>1, <2>2
<1>12. WorkInv'
  <2> SUFFICES ASSUME NEW p \in {0, 1, 3}, NEW r \in 0 .. Size(p) - 1
               PROVE  written'[Buffer(p)][r] =
                        IF (\E t \in Threads : r \in Left(t, p)')
                             \/ r \in Untaken(p)'
                        THEN 0 ELSE 1
    BY <1>3 DEF WorkInv
  <2>1. Buffer(p) \in Bufs /\ Size(p) \in Nat \ {0} /\ plan.n \in Nat \ {0}
    BY <1>2, Sizes
  <2>2. written'[Buffer(p)][r] = 0
    <3>1. r \in Places(Buffer(p), 0)
      BY <2>1 DEF Places, Many, Size
    <3>2. Blank(0)[Buffer(p)][r] = 0
      BY <2>1, <3>1, Blanks
    <3> QED
      BY <1>1, <3>2
  <2>3. CASE Steals(p)
    <3>1. /\ p \in RowPhase /\ ctr'[p] = plan.n
          /\ Chunk(p) \in Nat \ {0} /\ NChunks(p) = TotalChunks(Size(p), Chunk(p))
          /\ NChunks(p) \in Nat
      BY <1>1, <1>2, <2>3, Sizes DEF Steals
    <3>2. PICK c \in 0 .. NChunks(p) - 1 : r \in ChunkRows(c, Size(p), Chunk(p))
      BY <2>1, <3>1, ChunksPartition
    <3>3. CASE c < plan.n
      <4>1. c \in Threads
        BY <2>1, <3>1, <3>3 DEF Threads
      <4>2. r \in Left(c, p)'
        BY <1>3, <1>5, <2>3, <3>2, <4>1 DEF Left
      <4> QED
        BY <2>2, <4>1, <4>2
    <3>4. CASE c >= plan.n
      <4>1. c \in ctr'[p] .. NChunks(p) - 1
        BY <2>1, <3>1, <3>4
      <4>2. r \in Untaken(p)'
        BY <1>3, <2>3, <3>2, <4>1 DEF Untaken
      <4> QED
        BY <2>2, <4>2
    <3> QED
      BY <2>1, <3>1, <3>3, <3>4
  <2>4. CASE ~Steals(p)
    <3>1. PICK t \in Threads : r \in TaskRange(t, plan.n, Size(p))
      BY <2>1, SharesCover DEF Threads
    <3>2. r \in Left(t, p)'
      BY <1>1, <1>3, <1>5, <2>4, <3>1 DEF Left
    <3> QED
      BY <2>2, <3>2
  <2> QED
    BY <2>3, <2>4
<1>13. BP!IInv'
  <2>1. BP!Fresh'
    <3>1. BP!TypeInv' /\ BP!TypeInv
      BY <1>2 DEF TypeInv
    <3>2. BP!Placed(plan)'
      BY <1>1, <3>1 DEF BP!TypeInv, BP!Placed, BP!On
    <3>3. BP!Counters' = BP!Counters
      BY <1>1 DEF BP!Counters, BP!Nodes, BP!Global
    <3>4. \A k \in BP!Counters : phase'[k] = 0 /\ arrived'[k] = 0
      BY <1>1, <3>1 DEF BP!TypeInv
    <3>5. BP!Threads' = Threads
      BY <1>1 DEF BP!Threads, Threads
    <3> QED
      BY <1>4, <3>1, <3>2, <3>3, <3>4, <3>5 DEF BP!Fresh
  <2> QED
    BY <2>1, FreshBarrier
<1> QED
  BY <1>1, <1>2, <1>3, <1>6, <1>7, <1>8, <1>9, <1>10, <1>11, <1>12, <1>13
  DEF IInv, FusedInv

\* When everybody is done nothing is left.
LEMMA ReturnStep ==
  ASSUME IInv, Return
  PROVE  IInv'
<1>1. /\ Fused /\ running /\ ~running' /\ \A t \in Threads : at[t] = "done"
      /\ convPos' = IF convPos + 1 < 3 THEN convPos + 1 ELSE 0
      /\ total' = total + 1
      /\ UNCHANGED <<barrierVars, call, at, written, kernel, tokens, step, token,
                     block>>
  BY DEF Return
<1>2. /\ TypeInv /\ TypeInv' /\ RoundInv /\ RingInv /\ IdleInv
      /\ PlaceInv /\ ChunkInv /\ WorkInv
  BY <1>1, DispatchTypes DEF IInv, FusedInv
<1>3. Threads' = Threads /\ Blocks' = Blocks /\ RowPhase' = RowPhase
      /\ \A b : Places(b, tokens)' = Places(b, tokens)
  BY <1>1 DEF barrierVars, Threads, Blocks, Places, RowPhase
<1>4. RoundInv'
  BY <1>1, <1>2, <1>3 DEF RoundInv, barrierVars
<1>5. RingInv'
  <2>1. convPos = total % 3 /\ total \in Nat
    BY <1>1, <1>2 DEF RingInv, TypeInv
  <2>2. convPos' = total' % 3
    BY <1>1, <2>1
  <2> QED
    BY <1>1, <1>2, <2>2 DEF RingInv, TypeInv
<1>6. ASSUME NEW b \in Bufs, NEW c \in Places(b, tokens)
      PROVE  written[b][c] = 1
  <2>1. PICK p \in {0, 1, 3} : b = Buffer(p)
    BY DEF Buffer, Bufs
  <2>2. c \in 0 .. Size(p) - 1
    BY <1>1, <1>2, <2>1, FusedFacts DEF Size
  <2>3. \A t \in Threads : Left(t, p) = {}
    BY <1>1, <1>2 DEF Left, Waits, PlaceInv
  <2>4. Untaken(p) = {}
    <3>1. CASE Steals(p)
      <4>1. 0 \in Threads /\ p \in RowPhase /\ Steal /\ p \in {0, 3}
        BY <1>2, <3>1, Sizes DEF Steals, RowPhase
      <4>2. Past(0) = 3
        BY <1>1, <1>2, <4>1 DEF Past, PlaceInv
      <4>3. NChunks(p) <= ctr[p]
        BY <1>1, <1>2, <4>1, <4>2 DEF ChunkInv
      <4>4. NChunks(p) \in Nat /\ ctr[p] \in Nat
        BY <1>2, <4>1, Sizes DEF TypeInv
      <4>5. ctr[p] .. NChunks(p) - 1 = {}
        BY <4>3, <4>4
      <4> QED
        BY <4>5 DEF Untaken
    <3>2. CASE ~Steals(p)
      BY <3>2 DEF Untaken
    <3> QED
      BY <3>1, <3>2
  <2> QED
    BY <1>2, <2>1, <2>2, <2>3, <2>4 DEF WorkInv
<1>7. IdleInv'
  <2>1. Blocks = 1
    BY <1>1, <1>2, FusedFacts
  <2>2. call \in Nat /\ call > 0
    BY <1>1, <1>2 DEF IdleInv, TypeInv
  <2>3. \A b \in Bufs : \A c \in Places(b, tokens) :
          written[b][c] = IF call = 0 THEN 0 ELSE IF b = "y" THEN 1 ELSE Blocks
    BY <1>6, <2>1, <2>2
  <2>4. token' = 0 /\ block' = 0
    BY <1>1, <1>2 DEF IdleInv
  <2> QED
    BY <1>1, <1>3, <2>3, <2>4 DEF IdleInv
<1> QED
  BY <1>1, <1>2, <1>4, <1>5, <1>7 DEF IInv
-----------------------------------------------------------------------------
(* Unfused dispatches.                                                     *)

\* A dispatch has a thread for each of its tasks, and a task belongs to one.
LEMMA PassedNone ==
  ASSUME NEW n \in Nat, NEW threads \in 1 .. n, NEW many \in Nat,
         NEW i \in 0 .. many - 1, NEW works,
         \A t \in 0 .. n - 1 : t < threads => works[t] # "done"
  PROVE  PassedBy(works, n, i, threads, many) = 0
<1>1. PICK t \in 0 .. threads - 1 : i \in TaskRange(t, threads, many)
  BY SharesCover
<1>2. t \in 0 .. n - 1 /\ t < threads
  OBVIOUS
<1> QED
  BY <1>1, <1>2 DEF PassedBy

LEMMA PassedAll ==
  ASSUME NEW n, NEW threads, NEW many, NEW i, NEW works,
         \A t \in 0 .. n - 1 : works[t] = "done"
  PROVE  PassedBy(works, n, i, threads, many) = 1
  BY DEF PassedBy

\* One of the threads of a dispatch gets done.
GetsDone(works, works1, n, threads, t) ==
  /\ t \in 0 .. n - 1 /\ t < threads
  /\ works[t] # "done" /\ works1[t] = "done"
  /\ \A u \in 0 .. n - 1 : /\ u # t => works1[u] = works[u]
                           /\ works[u] # "done" => u < threads

LEMMA PassedOne ==
  ASSUME NEW n \in Nat, NEW threads \in 1 .. n, NEW many \in Nat,
         NEW i \in 0 .. many - 1, NEW works, NEW works1, NEW t,
         GetsDone(works, works1, n, threads, t)
  PROVE  /\ PassedBy(works1, n, i, threads, many)
              = IF i \in TaskRange(t, threads, many) THEN 1
                ELSE PassedBy(works, n, i, threads, many)
         /\ i \in TaskRange(t, threads, many) =>
              PassedBy(works, n, i, threads, many) = 0
<1> USE DEF GetsDone
<1>1. ASSUME NEW u \in 0 .. n - 1, u # t, works[u] # "done"
      PROVE  TaskRange(t, threads, many) \cap TaskRange(u, threads, many) = {}
  <2>1. u \in 0 .. threads - 1 /\ t \in 0 .. threads - 1 /\ (t < u \/ u < t)
        /\ threads \in Nat \ {0}
    BY <1>1
  <2> QED
    BY <2>1, SharesDisjoint
<1> QED
  BY <1>1 DEF PassedBy

LEMMA ThreadsUsed ==
  ASSUME TypeInv
  PROVE  /\ plan.n \in Nat \ {0} /\ Threads = 0 .. plan.n - 1
         /\ Used(DInner) \in 1 .. plan.n
         /\ RowThreads(InRows, tokens) \in 1 .. plan.n
         /\ RowThreads(OutRows, tokens) \in 1 .. plan.n
         /\ Blocks \in Nat \ {0} /\ Many(tokens) \in Nat \ {0}
         /\ {InRows, DInner, OutRows} \subseteq Nat \ {0}
<1>1. plan.n \in Nat \ {0} /\ Threads = 0 .. plan.n - 1
  BY Sizes DEF Threads
<1>2. {InRows, DInner, OutRows, ColBlocks} \subseteq Nat \ {0} /\ ParThreshold \in Nat
  BY SizesAssumption
<1>3. \A tasks \in Nat \ {0} : Used(tasks) \in 1 .. plan.n
  BY <1>1, <1>2 DEF Used
<1>4. \A rows \in Nat \ {0} : RowThreads(rows, tokens) \in 1 .. plan.n
  BY <1>1, <1>3 DEF RowThreads
<1>5. Blocks \in Nat \ {0} /\ Many(tokens) \in Nat \ {0}
  BY <1>2, ManyType DEF Blocks, TypeInv
<1> QED
  BY <1>1, <1>2, <1>3, <1>4, <1>5

\* The threads a dispatch starts, and what it finds passed.
LEMMA Started ==
  ASSUME TypeInv, NEW threads \in 1 .. plan.n, NEW what \in {"rows", "ssm"},
         Start(threads, what)
  PROVE  /\ \A t \in Threads : at'[t] = "done" \/ (at'[t] = what /\ t < threads)
         /\ \A many \in Nat : \A i \in 0 .. many - 1 :
              PassedBy(at', plan.n, i, threads, many) = 0
<1>1. \A t \in Threads : at'[t] = IF t < threads THEN what ELSE "done"
  BY DEF Start
<1>2. \A t \in 0 .. plan.n - 1 : t < threads => at'[t] # "done"
  BY <1>1 DEF Threads
<1>3. plan.n \in Nat
  BY ThreadsUsed
<1> QED
  BY <1>1, <1>2, <1>3, PassedNone

\* A token of the call has a slot, and quantising fills those named.
LEMMA Quantised ==
  ASSUME TypeInv, NEW n \in Batches \cup {0}, NEW S, S \subseteq 0 .. Many(n) - 1,
         NEW what, Quantise(S, what)
  PROVE  \A k \in S : quant'[k] = what
<1>1. 0 .. Many(n) - 1 \subseteq Slots
  BY TokensHaveSlots
<1>2. S \subseteq Slots
  BY <1>1
<1> QED
  BY <1>2 DEF Quantise

\* Nothing has been written, and the count of every place is what it was.
LEMMA SameCount ==
  ASSUME TypeInv, CountInv, written' = written, tokens' = tokens,
         \A b \in Bufs : \A k \in 0 .. Many(tokens) - 1 :
           \A i \in 0 .. Elems(b) - 1 : Count(b, k, i)' = Count(b, k, i)
  PROVE  CountInv'
<1>1. \A b : Elems(b)' = Elems(b) /\ Places(b, tokens)' = Places(b, tokens)
  BY DEF Elems, Places
<1> SUFFICES ASSUME NEW b \in Bufs, NEW c \in Places(b, tokens)
             PROVE  written[b][c] = Count(b, c \div Elems(b), c % Elems(b))'
  BY <1>1 DEF CountInv
<1>2. /\ c \div Elems(b) \in 0 .. Many(tokens) - 1
      /\ c % Elems(b) \in 0 .. Elems(b) - 1
  BY PlaceParts DEF TypeInv
<1>3. written[b][c] = Count(b, c \div Elems(b), c % Elems(b))
  BY DEF CountInv
<1> DEFINE k == c \div Elems(b)
           i == c % Elems(b)
<1>4. Count(b, k, i)' = Count(b, k, i)
  <2> HIDE DEF k, i
  <2> QED
    BY <1>2 DEF k, i
<1> QED
  BY <1>3, <1>4

\* A call begins: its first rows.
LEMMA BeginUnfusedStep ==
  ASSUME IInv, BeginUnfused
  PROVE  IInv'
<1>1. PICK n \in Batches \cup {0} :
        /\ n = 0 => ~CanFuse
        /\ tokens' = n /\ Quantise(RowTokens(n), "u")
        /\ Start(RowThreads(InRows, n), "rows") /\ written' = Blank(n)
  BY DEF BeginUnfused
<1>2. /\ ~running /\ running' /\ call' = call + 1 /\ step' = "in"
      /\ round' = [t \in Threads |-> 0]
      /\ UNCHANGED <<plan, bpc, convPos, total, kernel, token, block>>
  BY DEF BeginUnfused
<1>3. TypeInv /\ TypeInv' /\ RoundInv /\ RingInv /\ IdleInv
  BY DispatchTypes DEF IInv
<1>4. token = 0 /\ block = 0 /\ convPos = total % 3
  BY <1>2, <1>3 DEF IdleInv, RingInv, TypeInv
<1>5. /\ Threads' = Threads /\ ~Fused' /\ RowPhase' = RowPhase
      /\ ProjRows' = InRows /\ Blocks' = Blocks /\ Phase' = 0
      /\ RowTokens(tokens)' = RowTokens(n)
      /\ RowThreads(ProjRows, tokens)' = RowThreads(InRows, n)
      /\ \A b : Elems(b)' = Elems(b) /\ Places(b, tokens)' = Places(b, n)
  BY <1>1, <1>2 DEF Threads, Fused, CanFuse, RowPhase, ProjRows, Blocks, Phase,
                    RowTokens, RowThreads, Used, Elems, Places
<1>6. Many(n) \in Nat \ {0} /\ RowTokens(n) \subseteq 0 .. Many(n) - 1
  BY <1>4, ManyType DEF RowTokens
<1>7. RowThreads(InRows, n) \in 1 .. plan.n
  <2>1. InRows \in Nat \ {0} /\ ParThreshold \in Nat /\ plan.n \in Nat \ {0}
    BY <1>3, SizesAssumption, Sizes
  <2> QED
    BY <2>1 DEF RowThreads, Used
<1>8. /\ \A t \in Threads : \/ at'[t] = "done"
                            \/ at'[t] = "rows" /\ t < RowThreads(InRows, n)
      /\ \A i \in 0 .. InRows - 1 :
           PassedBy(at', plan.n, i, RowThreads(InRows, n), InRows) = 0
  <2>1. InRows \in Nat
    BY SizesAssumption
  <2> QED
    BY <1>1, <1>3, <1>7, <2>1, Started
<1>9. RoundInv'
  <2>1. \A t \in Threads : bpc[t] = "out"
    BY <1>2, <1>3 DEF IdleInv, RoundInv
  <2> QED
    BY <1>2, <1>5, <1>8, <2>1 DEF RoundInv, RowPhase
<1>10. RingInv'
  <2>1. total \in Nat
    BY <1>3 DEF TypeInv
  <2> QED
    BY <1>2, <1>4, <2>1 DEF RingInv
<1>11. IdleInv'
  BY <1>2, <1>3, <1>5 DEF IdleInv, TypeInv
<1>12. DispatchInv'
  <2>1. token' \in 0 .. Many(tokens') - 1 /\ block' \in 0 .. Blocks' - 1
    BY <1>1, <1>2, <1>3, <1>4, <1>5, <1>6, ThreadsUsed
  <2> QED
    BY <1>2, <1>4, <1>5, <1>8, <2>1 DEF DispatchInv
<1>13. SlotInv'
  BY <1>1, <1>2, <1>3, <1>5, <1>6, Quantised DEF SlotInv
<1>14. CountInv'
  <2> SUFFICES ASSUME NEW b \in Bufs, NEW c \in Places(b, n)
               PROVE  written'[b][c] = Count(b, c \div Elems(b), c % Elems(b))'
    BY <1>5 DEF CountInv
  <2> DEFINE k == c \div Elems(b)
             i == c % Elems(b)
  <2>1. k \in 0 .. Many(n) - 1 /\ i \in 0 .. Elems(b) - 1
    BY PlaceParts
  <2> HIDE DEF k, i
  <2>2. written'[b][c] = 0
    <3>1. Blank(n)[b][c] = 0
      BY Blanks
    <3> QED
      BY <1>1, <3>1
  <2>3. Count(b, k, i)' = 0
    <3>1. b = "proj_out" => RowCount(k, i)' = 0
      <4> SUFFICES ASSUME b = "proj_out" PROVE RowCount(k, i)' = 0
        OBVIOUS
      <4>1. Passed(i, RowThreads(ProjRows, tokens), ProjRows)'
              = PassedBy(at', plan.n, i, RowThreads(InRows, n), InRows)
        BY <1>2, <1>5 DEF Passed
      <4>2. i \in 0 .. InRows - 1
        BY <2>1 DEF Elems
      <4> QED
        BY <1>2, <1>4, <1>5, <1>8, <2>1, <4>1, <4>2 DEF RowCount
    <3> QED
      BY <1>2, <3>1 DEF Count, Bufs
  <2> QED
    BY <2>2, <2>3 DEF k, i
<1> QED
  BY <1>2, <1>3, <1>5, <1>9, <1>10, <1>11, <1>12, <1>13, <1>14
  DEF IInv, UnfusedInv

\* What a place has counted when its dispatch has been joined.
LEMMA JoinedCount ==
  ASSUME TypeInv, UnfusedInv, Joined, NEW k \in 0 .. Many(tokens) - 1, NEW i
  PROVE  /\ k \in RowTokens(tokens) => RowCount(k, i) = block + 1
         /\ k \notin RowTokens(tokens) =>
              RowCount(k, i) = IF k < token THEN Blocks ELSE 0
         /\ \A threads, many : Passed(i, threads, many) = 1
<1>1. \A threads, many : Passed(i, threads, many) = 1
  BY PassedAll DEF Passed, Joined, Threads
<1> QED
  BY <1>1 DEF RowCount, TypeInv

\* A row dispatch over, its thread's share computed.
LEMMA UnfusedRows ==
  ASSUME IInv, running, ~Fused, NEW t \in Threads, DoRows(t)
  PROVE  CountInv' /\ at' = [at EXCEPT ![t] = "done"]
<1>1. TypeInv /\ DispatchInv /\ CountInv
  BY DEF IInv, UnfusedInv
<1> DEFINE b == Buffer(round[t])
           threads == RowThreads(ProjRows, tokens)
           e == ProjRows
           T == RowTokens(tokens)
           S == TaskRange(t, threads, e)
<1>2. /\ at[t] = "rows" /\ t < threads /\ step # "scan" /\ round[t] = Phase
      /\ at' = [at EXCEPT ![t] = "done"]
      /\ UNCHANGED <<barrierVars, unfusedVars>>
  BY <1>1 DEF DoRows, DispatchInv, AfterRows
<1>3. /\ b = IF step = "in" THEN "proj_out" ELSE "out"
      /\ b \in Bufs /\ Rows(round[t]) = e /\ e = Elems(b)
  BY <1>1, <1>2 DEF Phase, Buffer, Bufs, Rows, ProjRows, Elems, TypeInv
<1>4. MyRows(t) = S
  BY <1>3, SameShares DEF MyRows
<1>5. Write(b, Cells(S, T, e))
  BY <1>3, <1>4 DEF DoRows
<1>6. /\ plan.n \in Nat /\ threads \in 1 .. plan.n /\ e \in Nat \ {0}
      /\ t \in 0 .. plan.n - 1 /\ Threads = 0 .. plan.n - 1
  BY <1>1, ThreadsUsed DEF ProjRows
<1>7. S \subseteq 0 .. e - 1 /\ T \subseteq Nat
  <2>1. t \in 0 .. threads - 1 /\ threads \in Nat \ {0}
    BY <1>2, <1>6
  <2>2. Many(tokens) \in Nat /\ token \in Nat
    BY <1>1, ThreadsUsed DEF TypeInv
  <2> QED
    BY <1>6, <2>1, <2>2, ShareWithin DEF RowTokens
<1>8. \A i \in 0 .. e - 1 :
        /\ PassedBy(at', plan.n, i, threads, e)
             = IF i \in S THEN 1 ELSE PassedBy(at, plan.n, i, threads, e)
        /\ i \in S => PassedBy(at, plan.n, i, threads, e) = 0
  <2>1. \A u \in 0 .. plan.n - 1 : /\ u # t => at'[u] = at[u]
                                   /\ at[u] # "done" => u < threads
    BY <1>1, <1>2, <1>6 DEF DispatchInv, TypeInv
  <2>2. at'[t] = "done" /\ at[t] # "done"
    BY <1>1, <1>2 DEF TypeInv
  <2> HIDE DEF threads, e
  <2>3. GetsDone(at, at', plan.n, threads, t)
    BY <1>2, <1>6, <2>1, <2>2 DEF GetsDone
  <2> QED
    BY <1>6, <2>3, PassedOne DEF S
<1>9. CountInv'
  <2>1. \A a : Elems(a)' = Elems(a) /\ Places(a, tokens)' = Places(a, tokens)
    BY <1>2 DEF Elems, Places, unfusedVars
  <2> SUFFICES ASSUME NEW a \in Bufs, NEW c \in Places(a, tokens)
               PROVE  written'[a][c] = Count(a, c \div Elems(a), c % Elems(a))'
    BY <2>1 DEF CountInv
  <2> DEFINE k == c \div Elems(a)
             i == c % Elems(a)
  <2>2. /\ c \in Nat /\ k \in 0 .. Many(tokens) - 1 /\ i \in 0 .. Elems(a) - 1
        /\ written[a][c] = Count(a, k, i)
    BY <1>1, PlaceParts DEF TypeInv, CountInv
  <2>3. (c \in Cells(S, T, e) <=> k \in T /\ i \in S) \/ a # b
    <3>1. CASE a = b
      <4>1. S \subseteq 0 .. Elems(b) - 1 /\ T \subseteq Nat
        BY <1>3, <1>7
      <4>2. c \in Cells(S, T, Elems(b)) <=> c \div Elems(b) \in T /\ c % Elems(b) \in S
        <5> HIDE DEF S, T, b
        <5> QED
          BY <1>3, <2>2, <4>1, CellParts
      <4> QED
        BY <1>3, <3>1, <4>2
    <3> QED
      BY <3>1
  <2>4. /\ a # b => written'[a] = written[a]
        /\ a = b => written'[a][c] = IF c \in Cells(S, T, e)
                                     THEN written[a][c] + 1 ELSE written[a][c]
    <3> HIDE DEF S, T, b
    <3> QED
      BY <1>1, <1>3, <1>5, Writes
  <2> HIDE DEF k, i
  <2>5. CASE a # b
    <3>1. Count(a, k, i)' = Count(a, k, i)
      BY <1>1, <1>2, <1>3, <2>5 DEF Count, Bufs, unfusedVars, Blocks, TypeInv
    <3> QED
      BY <2>2, <2>4, <2>5, <3>1 DEF k, i
  <2>6. CASE a = b
    <3>1. Count(a, k, i) = RowCount(k, i) /\ Count(a, k, i)' = RowCount(k, i)'
      BY <1>1, <1>2, <1>3, <2>6 DEF Count, unfusedVars, TypeInv
    <3>2. RowCount(k, i) = IF k \in T THEN block + PassedBy(at, plan.n, i, threads, e)
                           ELSE IF k < token THEN Blocks ELSE 0
      BY DEF RowCount, Passed
    <3>3. RowCount(k, i)' = IF k \in T THEN block + PassedBy(at', plan.n, i, threads, e)
                            ELSE IF k < token THEN Blocks ELSE 0
      BY <1>2
      DEF RowCount, Passed, RowTokens, RowThreads, Used, ProjRows, Blocks,
          unfusedVars, barrierVars
    <3>4. i \in 0 .. e - 1
      BY <1>3, <2>2, <2>6
    <3>6. /\ PassedBy(at', plan.n, i, threads, e)
               = IF i \in S THEN 1 ELSE PassedBy(at, plan.n, i, threads, e)
          /\ i \in S => PassedBy(at, plan.n, i, threads, e) = 0
      BY <1>8, <3>4
    <3>7. block \in Nat
      BY <1>1 DEF TypeInv
    <3>8. RowCount(k, i)' = IF k \in T /\ i \in S THEN RowCount(k, i) + 1
                            ELSE RowCount(k, i)
      <4> HIDE DEF T, S, e, threads
      <4> QED
        BY <3>2, <3>3, <3>6, <3>7
    <3>9. written'[a][c] = IF k \in T /\ i \in S THEN written[a][c] + 1
                           ELSE written[a][c]
      BY <2>3, <2>4, <2>6
    <3> HIDE DEF T, S, e, threads, b
    <3> QED
      BY <2>2, <3>1, <3>8, <3>9 DEF k, i
  <2> QED
    BY <2>5, <2>6
<1> QED
  BY <1>2, <1>9

\* The scan, every token of a thread's elements at once.
LEMMA UnfusedScan ==
  ASSUME IInv, running, ~Fused, NEW t \in Threads, Ssm(t)
  PROVE  CountInv' /\ at' = [at EXCEPT ![t] = "done"]
<1>1. TypeInv /\ DispatchInv /\ CountInv
  BY DEF IInv, UnfusedInv
<1> DEFINE threads == Used(DInner)
           S == TaskRange(t, threads, DInner)
           T == 0 .. Many(tokens) - 1
<1>2. /\ at[t] = "ssm" /\ t < threads /\ step = "scan"
      /\ at' = [at EXCEPT ![t] = "done"]
      /\ UNCHANGED <<barrierVars, unfusedVars>>
  BY <1>1 DEF Ssm, DispatchInv
<1>3. Write("y", Cells(S, T, DInner))
  BY SameShares DEF Ssm
<1>4. /\ plan.n \in Nat /\ threads \in 1 .. plan.n /\ DInner \in Nat \ {0}
      /\ t \in 0 .. plan.n - 1 /\ Threads = 0 .. plan.n - 1
  BY <1>1, ThreadsUsed
<1>5. S \subseteq 0 .. DInner - 1 /\ T \subseteq Nat
  <2>1. t \in 0 .. threads - 1 /\ threads \in Nat \ {0} /\ DInner \in Nat
    BY <1>2, <1>4
  <2>2. Many(tokens) \in Nat
    BY <1>1, ThreadsUsed
  <2> HIDE DEF threads
  <2>3. S \subseteq 0 .. DInner - 1
    BY <2>1, ShareWithin
  <2> QED
    BY <2>2, <2>3
<1>6. \A i \in 0 .. DInner - 1 :
        /\ PassedBy(at', plan.n, i, threads, DInner)
             = IF i \in S THEN 1 ELSE PassedBy(at, plan.n, i, threads, DInner)
        /\ i \in S => PassedBy(at, plan.n, i, threads, DInner) = 0
  <2>1. \A u \in 0 .. plan.n - 1 : /\ u # t => at'[u] = at[u]
                                   /\ at[u] # "done" => u < threads
    BY <1>1, <1>2, <1>4 DEF DispatchInv, TypeInv
  <2>2. at'[t] = "done" /\ at[t] # "done"
    BY <1>1, <1>2 DEF TypeInv
  <2> HIDE DEF threads
  <2>3. GetsDone(at, at', plan.n, threads, t)
    BY <1>2, <1>4, <2>1, <2>2 DEF GetsDone
  <2> QED
    BY <1>4, <2>3, PassedOne DEF S
<1>7. CountInv'
  <2>1. \A a : Elems(a)' = Elems(a) /\ Places(a, tokens)' = Places(a, tokens)
    BY <1>2 DEF Elems, Places, unfusedVars
  <2> SUFFICES ASSUME NEW a \in Bufs, NEW c \in Places(a, tokens)
               PROVE  written'[a][c] = Count(a, c \div Elems(a), c % Elems(a))'
    BY <2>1 DEF CountInv
  <2> DEFINE k == c \div Elems(a)
             i == c % Elems(a)
  <2>2. /\ c \in Nat /\ k \in 0 .. Many(tokens) - 1 /\ i \in 0 .. Elems(a) - 1
        /\ written[a][c] = Count(a, k, i)
    BY <1>1, PlaceParts DEF TypeInv, CountInv
  <2>3. "y" \in Bufs /\ DInner = Elems("y")
    BY DEF Bufs, Elems
  <2>4. /\ a # "y" => written'[a] = written[a]
        /\ a = "y" => written'[a][c] = IF c \in Cells(S, T, DInner)
                                       THEN written[a][c] + 1 ELSE written[a][c]
    <3> HIDE DEF S, T
    <3> QED
      BY <1>1, <1>3, <2>3, Writes
  <2>5. CASE a # "y"
    <3>1. Count(a, k, i)' = Count(a, k, i)
      BY <1>2, <2>5 DEF Count, Bufs, unfusedVars, Blocks
    <3> QED
      BY <2>2, <2>4, <2>5, <3>1
  <2>6. CASE a = "y"
    <3>1. c \in Cells(S, T, DInner) <=> i \in S
      <4>1. c \in Cells(S, T, Elems("y")) <=> c \div Elems("y") \in T
                                              /\ c % Elems("y") \in S
        <5>1. S \subseteq 0 .. Elems("y") - 1
          BY <1>5, <2>3
        <5> HIDE DEF S, T
        <5> QED
          BY <1>5, <2>2, <2>3, <5>1, CellParts
      <4> QED
        BY <2>2, <2>3, <2>6, <4>1
    <3>2. /\ Count(a, k, i) = PassedBy(at, plan.n, i, threads, DInner)
          /\ Count(a, k, i)' = PassedBy(at', plan.n, i, threads, DInner)
      BY <1>2, <2>6 DEF Count, unfusedVars, barrierVars, Passed, Used
    <3>3. i \in 0 .. DInner - 1
      BY <2>2, <2>3, <2>6
    <3>4. /\ PassedBy(at', plan.n, i, threads, DInner)
               = IF i \in S THEN 1 ELSE PassedBy(at, plan.n, i, threads, DInner)
          /\ i \in S => PassedBy(at, plan.n, i, threads, DInner) = 0
      BY <1>6, <3>3
    <3>5. written'[a][c] = IF i \in S THEN written[a][c] + 1 ELSE written[a][c]
      BY <2>4, <2>6, <3>1
    <3> HIDE DEF S, threads, k, i
    <3> QED
      BY <2>2, <3>2, <3>4, <3>5 DEF k, i
  <2> QED
    BY <2>5, <2>6
<1> QED
  BY <1>2, <1>7

\* Every step of a thread in an unfused dispatch.
LEMMA UnfusedStep ==
  ASSUME IInv, \A p \in Plans : BP!Placed(p), running, ~Fused,
         NEW t \in Threads, WorkerStep(t)
  PROVE  IInv'
<1>1. /\ TypeInv /\ RoundInv /\ RingInv /\ IdleInv
      /\ DispatchInv /\ SlotInv /\ CountInv
  BY DEF IInv, UnfusedInv
<1>2. BP!Placed(plan)
  BY <1>1 DEF TypeInv, BP!TypeInv
<1>3. TypeInv' /\ plan' = plan
  BY <1>1, <1>2, WorkerTypes
<1>4. DoRows(t) \/ Ssm(t)
  BY <1>1 DEF WorkerStep, StartRows, Grab, RowsDone, Prepare, BarrierStep,
              DispatchInv
<1>5. CountInv' /\ at' = [at EXCEPT ![t] = "done"]
  BY <1>4, UnfusedRows, UnfusedScan
<1>6. UNCHANGED <<barrierVars, running, call, quant, convPos, unfusedVars>>
  BY <1>4 DEF DoRows, Ssm
<1>7. /\ Threads' = Threads /\ running' /\ ~Fused' /\ RowPhase' = RowPhase
      /\ \A u \in Threads : at'[u] = "done" \/ at'[u] = at[u]
  BY <1>1, <1>3, <1>5, <1>6
  DEF Threads, Fused, CanFuse, RowPhase, unfusedVars, TypeInv
<1>8. RoundInv'
  BY <1>1, <1>6, <1>7 DEF RoundInv, barrierVars, DispatchInv
<1>9. RingInv' /\ IdleInv'
  BY <1>1, <1>6, <1>7 DEF RingInv, IdleInv, unfusedVars
<1>10. DispatchInv'
  <2>1. /\ Many(tokens)' = Many(tokens) /\ Blocks' = Blocks /\ Phase' = Phase
        /\ Used(DInner)' = Used(DInner)
        /\ RowThreads(ProjRows, tokens)' = RowThreads(ProjRows, tokens)
    BY <1>3, <1>6
    DEF Many, Blocks, Phase, Used, RowThreads, ProjRows, unfusedVars
  <2> QED
    BY <1>1, <1>6, <1>7, <2>1 DEF DispatchInv, unfusedVars, barrierVars
<1>11. SlotInv'
  BY <1>1, <1>6 DEF SlotInv, RowTokens, unfusedVars
<1> QED
  BY <1>3, <1>5, <1>7, <1>8, <1>9, <1>10, <1>11 DEF IInv, UnfusedInv

\* What the dispatches of a call share: the placement, the kernel and the
\* tokens are the call's, and no thread is in the barrier.
Redispatch ==
  /\ running /\ running' /\ ~Fused
  /\ UNCHANGED <<plan, bpc, written, call, kernel, tokens, total>>

LEMMA RedispatchFacts ==
  ASSUME IInv, Redispatch
  PROVE  /\ Threads' = Threads /\ ~Fused' /\ RowPhase' = RowPhase
         /\ Blocks' = Blocks /\ Many(tokens)' = Many(tokens)
         /\ Used(DInner)' = Used(DInner)
         /\ \A rows : RowThreads(rows, tokens)' = RowThreads(rows, tokens)
         /\ \A t \in Threads : bpc'[t] = "out"
<1>1. /\ Threads' = Threads /\ ~Fused' /\ RowPhase' = RowPhase
      /\ Blocks' = Blocks /\ Many(tokens)' = Many(tokens)
      /\ Used(DInner)' = Used(DInner)
      /\ \A rows : RowThreads(rows, tokens)' = RowThreads(rows, tokens)
  BY DEF Redispatch, Threads, Fused, CanFuse, RowPhase, Blocks, Many, Used,
         RowThreads
<1>2. \A t \in Threads : bpc[t] = "out"
  BY DEF Redispatch, IInv, UnfusedInv, DispatchInv, RoundInv
<1> QED
  BY <1>1, <1>2 DEF Redispatch

LEMMA NextBlockStep ==
  ASSUME IInv, NextBlock
  PROVE  IInv'
<1>1. /\ Joined /\ step \in {"in", "out"} /\ block + 1 < Blocks /\ block' = block + 1
      /\ Start(RowThreads(ProjRows, tokens), "rows")
      /\ UNCHANGED <<round, convPos, quant, step, token, total, kernel, tokens>>
      /\ written' = written
  BY DEF NextBlock, InProjection, barrierVars
<1>2. Redispatch
  BY DEF NextBlock, InProjection, Redispatch, barrierVars
<1>3. TypeInv /\ TypeInv' /\ RingInv /\ IdleInv /\ UnfusedInv
  BY <1>2, DispatchTypes DEF IInv, Redispatch
<1>4. /\ RowTokens(tokens)' = RowTokens(tokens) /\ ProjRows' = ProjRows
      /\ Phase' = Phase
  BY <1>1 DEF RowTokens, ProjRows, Phase, Many
<1>5. /\ RowThreads(ProjRows, tokens) \in 1 .. plan.n /\ ProjRows \in Nat \ {0}
      /\ RowThreads(ProjRows, tokens)' = RowThreads(ProjRows, tokens)
  BY <1>1, <1>2, <1>3, ThreadsUsed, RedispatchFacts DEF ProjRows, RowThreads, Used
<1>6. /\ \A t \in Threads : \/ at'[t] = "done"
                            \/ at'[t] = "rows" /\ t < RowThreads(ProjRows, tokens)
      /\ \A i \in 0 .. ProjRows - 1 :
           PassedBy(at', plan.n, i, RowThreads(ProjRows, tokens), ProjRows) = 0
  BY <1>1, <1>3, <1>5, Started
<1>7. RoundInv'
  BY <1>1, <1>2, <1>3, <1>6, RedispatchFacts
  DEF RoundInv, RowPhase, UnfusedInv, DispatchInv, Phase
<1>8. RingInv' /\ IdleInv'
  BY <1>1, <1>2, <1>3, RedispatchFacts DEF RingInv, IdleInv, Redispatch
<1>9. DispatchInv'
  <2>1. block' \in 0 .. Blocks - 1
    BY <1>1, <1>3, ThreadsUsed DEF TypeInv
  <2> QED
    BY <1>1, <1>2, <1>3, <1>4, <1>5, <1>6, <2>1, RedispatchFacts
    DEF UnfusedInv, DispatchInv
<1>10. SlotInv'
  BY <1>1, <1>3, <1>4 DEF SlotInv, UnfusedInv
<1>11. CountInv'
  <2> SUFFICES ASSUME NEW b \in Bufs, NEW k \in 0 .. Many(tokens) - 1,
                      NEW i \in 0 .. Elems(b) - 1
               PROVE  Count(b, k, i)' = Count(b, k, i)
    BY <1>1, <1>3, SameCount DEF UnfusedInv
  <2>1. i \in 0 .. ProjRows - 1 => RowCount(k, i)' = RowCount(k, i)
    <3> SUFFICES ASSUME i \in 0 .. ProjRows - 1
                 PROVE  RowCount(k, i)' = RowCount(k, i)
      OBVIOUS
    <3>1. Passed(i, RowThreads(ProjRows, tokens), ProjRows)'
            = PassedBy(at', plan.n, i, RowThreads(ProjRows, tokens), ProjRows)
      BY <1>2, <1>4, <1>5 DEF Passed, Redispatch
    <3>2. RowCount(k, i)' = IF k \in RowTokens(tokens) THEN block + 1
                            ELSE IF k < token THEN Blocks ELSE 0
      BY <1>1, <1>2, <1>3, <1>4, <1>6, <3>1, RedispatchFacts DEF RowCount, TypeInv
    <3> QED
      BY <1>1, <1>3, <3>2, JoinedCount
  <2> QED
    BY <1>1, <1>2, <2>1, RedispatchFacts
    DEF Count, Bufs, Elems, ProjRows
<1> QED
  BY <1>2, <1>3, <1>7, <1>8, <1>9, <1>10, <1>11, RedispatchFacts
  DEF IInv, UnfusedInv, Redispatch

LEMMA NextTokenStep ==
  ASSUME IInv, NextToken
  PROVE  IInv'
<1>1. /\ Joined /\ step \in {"in", "out"} /\ kernel = "scalar"
      /\ block + 1 = Blocks /\ token + 1 < Many(tokens)
      /\ token' = token + 1 /\ block' = 0
      /\ Quantise({token + 1}, IF step = "in" THEN "u" ELSE "y")
      /\ Start(RowThreads(ProjRows, tokens), "rows")
      /\ UNCHANGED <<round, convPos, step, total, kernel, tokens>>
      /\ written' = written
  BY DEF NextToken, InProjection, barrierVars
<1>2. Redispatch
  BY DEF NextToken, InProjection, Redispatch, barrierVars
<1>3. TypeInv /\ TypeInv' /\ RingInv /\ IdleInv /\ UnfusedInv
  BY <1>2, DispatchTypes DEF IInv, Redispatch
<1>4. /\ RowTokens(tokens) = {token} /\ RowTokens(tokens)' = {token + 1}
      /\ ProjRows' = ProjRows /\ Phase' = Phase
      /\ token \in Nat /\ token + 1 \in 0 .. Many(tokens) - 1
  BY <1>1, <1>3, ThreadsUsed DEF RowTokens, ProjRows, Phase, TypeInv
<1>5. /\ RowThreads(ProjRows, tokens) \in 1 .. plan.n /\ ProjRows \in Nat \ {0}
      /\ RowThreads(ProjRows, tokens)' = RowThreads(ProjRows, tokens)
  BY <1>1, <1>2, <1>3, ThreadsUsed, RedispatchFacts DEF ProjRows, RowThreads, Used
<1>6. /\ \A t \in Threads : \/ at'[t] = "done"
                            \/ at'[t] = "rows" /\ t < RowThreads(ProjRows, tokens)
      /\ \A i \in 0 .. ProjRows - 1 :
           PassedBy(at', plan.n, i, RowThreads(ProjRows, tokens), ProjRows) = 0
  BY <1>1, <1>3, <1>5, Started
<1>7. RoundInv'
  BY <1>1, <1>2, <1>3, <1>6, RedispatchFacts
  DEF RoundInv, RowPhase, UnfusedInv, DispatchInv, Phase
<1>8. RingInv' /\ IdleInv'
  BY <1>1, <1>2, <1>3, RedispatchFacts DEF RingInv, IdleInv, Redispatch
<1>9. DispatchInv'
  <2>1. block' \in 0 .. Blocks - 1 /\ token' \in 0 .. Many(tokens) - 1
    BY <1>1, <1>3, <1>4, ThreadsUsed
  <2> QED
    BY <1>1, <1>2, <1>3, <1>4, <1>5, <1>6, <2>1, RedispatchFacts
    DEF UnfusedInv, DispatchInv
<1>10. SlotInv'
  <2>1. {token + 1} \subseteq 0 .. Many(tokens) - 1 /\ tokens \in Batches \cup {0}
    BY <1>3, <1>4 DEF TypeInv
  <2>2. quant'[token + 1] = IF step = "in" THEN "u" ELSE "y"
    BY <1>1, <1>3, <2>1, Quantised
  <2> QED
    BY <1>1, <1>4, <2>2 DEF SlotInv
<1>11. CountInv'
  <2> SUFFICES ASSUME NEW b \in Bufs, NEW k \in 0 .. Many(tokens) - 1,
                      NEW i \in 0 .. Elems(b) - 1
               PROVE  Count(b, k, i)' = Count(b, k, i)
    BY <1>1, <1>3, SameCount DEF UnfusedInv
  <2>1. i \in 0 .. ProjRows - 1 => RowCount(k, i)' = RowCount(k, i)
    <3> SUFFICES ASSUME i \in 0 .. ProjRows - 1
                 PROVE  RowCount(k, i)' = RowCount(k, i)
      OBVIOUS
    <3>1. Passed(i, RowThreads(ProjRows, tokens), ProjRows)'
            = PassedBy(at', plan.n, i, RowThreads(ProjRows, tokens), ProjRows)
      BY <1>2, <1>4, <1>5 DEF Passed, Redispatch
    <3>2. RowCount(k, i)' = IF k < token + 1 THEN Blocks ELSE 0
      BY <1>1, <1>2, <1>3, <1>4, <1>6, <3>1, RedispatchFacts DEF RowCount
    <3>3. RowCount(k, i) = IF k = token THEN Blocks
                           ELSE IF k < token THEN Blocks ELSE 0
      BY <1>1, <1>3, <1>4, JoinedCount
    <3>4. k \in Nat /\ (k < token + 1 <=> k = token \/ k < token)
      BY <1>3, <1>4, ThreadsUsed
    <3> QED
      BY <3>2, <3>3, <3>4
  <2> QED
    BY <1>1, <1>2, <2>1, RedispatchFacts
    DEF Count, Bufs, Elems, ProjRows
<1> QED
  BY <1>2, <1>3, <1>7, <1>8, <1>9, <1>10, <1>11, RedispatchFacts
  DEF IInv, UnfusedInv, Redispatch

\* The last dispatch of a projection joined, all of it has been computed.
LEMMA ProjectionCounts ==
  ASSUME TypeInv, UnfusedInv, ProjectionDone, NEW k \in 0 .. Many(tokens) - 1,
         NEW i
  PROVE  RowCount(k, i) = Blocks
<1>1. /\ Joined /\ block + 1 = Blocks
      /\ kernel = "scalar" => token + 1 = Many(tokens)
  BY DEF ProjectionDone, InProjection
<1>2. token \in Nat /\ Many(tokens) \in Nat \ {0}
  BY ThreadsUsed DEF TypeInv
<1>3. k \in RowTokens(tokens) \/ k < token
  BY <1>1, <1>2 DEF RowTokens
<1> QED
  BY <1>1, <1>3, JoinedCount

LEMMA ScanStep ==
  ASSUME IInv, Scan
  PROVE  IInv'
<1>1. /\ ProjectionDone /\ step = "in" /\ step' = "scan" /\ token' = 0 /\ block' = 0
      /\ Start(Used(DInner), "ssm")
      /\ UNCHANGED <<round, convPos, quant, total, kernel, tokens>>
      /\ written' = written
  BY DEF Scan, barrierVars
<1>2. Redispatch
  BY DEF Scan, ProjectionDone, InProjection, Redispatch, barrierVars
<1>3. TypeInv /\ TypeInv' /\ RingInv /\ IdleInv /\ UnfusedInv
  BY <1>2, DispatchTypes DEF IInv, Redispatch
<1>4. Phase' = Phase /\ Phase = 0
  BY <1>1 DEF Phase
<1>5. /\ \A t \in Threads : \/ at'[t] = "done"
                            \/ at'[t] = "ssm" /\ t < Used(DInner)
      /\ \A i \in 0 .. DInner - 1 :
           PassedBy(at', plan.n, i, Used(DInner), DInner) = 0
  <2>1. Used(DInner) \in 1 .. plan.n /\ DInner \in Nat
    BY <1>3, ThreadsUsed
  <2> QED
    BY <1>1, <1>3, <2>1, Started
<1>6. RoundInv'
  BY <1>1, <1>2, <1>3, <1>5, RedispatchFacts DEF RoundInv
<1>7. RingInv' /\ IdleInv'
  BY <1>1, <1>2, <1>3, RedispatchFacts DEF RingInv, IdleInv, Redispatch
<1>8. DispatchInv'
  <2>1. 0 \in 0 .. Many(tokens) - 1 /\ 0 \in 0 .. Blocks - 1
    BY <1>3, ThreadsUsed
  <2> QED
    BY <1>1, <1>2, <1>3, <1>4, <1>5, <2>1, RedispatchFacts
    DEF UnfusedInv, DispatchInv
<1>9. SlotInv'
  BY <1>1 DEF SlotInv
<1>10. CountInv'
  <2> SUFFICES ASSUME NEW b \in Bufs, NEW k \in 0 .. Many(tokens) - 1,
                      NEW i \in 0 .. Elems(b) - 1
               PROVE  Count(b, k, i)' = Count(b, k, i)
    BY <1>1, <1>3, SameCount DEF UnfusedInv
  <2>1. RowCount(k, i) = Blocks
    BY <1>1, <1>3, ProjectionCounts
  <2>2. b = "y" => Passed(i, Used(DInner), DInner)' = 0
    <3>1. Passed(i, Used(DInner), DInner)'
            = PassedBy(at', plan.n, i, Used(DInner), DInner)
      BY <1>2, RedispatchFacts DEF Passed, Redispatch
    <3> QED
      BY <1>5, <3>1 DEF Elems
  <2> QED
    BY <1>1, <1>2, <2>1, <2>2, RedispatchFacts DEF Count, Bufs
<1> QED
  BY <1>2, <1>3, <1>6, <1>7, <1>8, <1>9, <1>10, RedispatchFacts
  DEF IInv, UnfusedInv, Redispatch

\* Moving on by m from where k tokens have led.
LEMMA RingMoves ==
  ASSUME NEW k \in Nat, NEW m \in Nat
  PROVE  ((k % 3) + m) % 3 = (k + m) % 3
<1> DEFINE q == k \div 3
           r == k % 3
           d == (r + m) \div 3
           j == (r + m) % 3
<1>1. q \in Nat /\ r \in 0 .. 2 /\ k = 3 * q + r
  OBVIOUS
<1>2. r + m \in Nat
  BY <1>1
<1>3. d \in Nat /\ j \in 0 .. 2 /\ r + m = 3 * d + j
  BY <1>2
<1> HIDE DEF q, r, d, j
<1>4. k + m = (q + d) * 3 + j /\ q + d \in Nat
  BY <1>1, <1>3
<1>5. (k + m) % 3 = j
  <2>1. 3 \in Nat \ {0} /\ j \in 0 .. 3 - 1
    BY <1>3
  <2>2. ((q + d) * 3 + j) % 3 = j
    BY <1>4, <2>1, Digits
  <2> QED
    BY <1>4, <2>2
<1> QED
  BY <1>5 DEF j, r

LEMMA ScanDoneStep ==
  ASSUME IInv, ScanDone
  PROVE  IInv'
<1>1. /\ Joined /\ step = "scan" /\ step' = "out"
      /\ convPos' = (convPos + Many(tokens)) % 3
      /\ Quantise(RowTokens(tokens), "y")
      /\ round' = [t \in Threads |-> 3]
      /\ Start(RowThreads(OutRows, tokens), "rows")
      /\ UNCHANGED <<total, kernel, tokens, token, block>>
      /\ written' = written
  BY DEF ScanDone
<1>2. Redispatch
  BY DEF ScanDone, Redispatch
<1>3. TypeInv /\ TypeInv' /\ RingInv /\ IdleInv /\ UnfusedInv
  BY <1>2, DispatchTypes DEF IInv, Redispatch
<1>4. /\ RowTokens(tokens)' = RowTokens(tokens) /\ ProjRows' = OutRows /\ Phase' = 3
      /\ token = 0 /\ block = 0
      /\ RowThreads(ProjRows, tokens)' = RowThreads(OutRows, tokens)
  BY <1>1, <1>2, <1>3, RedispatchFacts
  DEF RowTokens, ProjRows, Phase, Many, UnfusedInv, DispatchInv, RowThreads, Used
<1>5. /\ RowThreads(OutRows, tokens) \in 1 .. plan.n /\ OutRows \in Nat
      /\ RowTokens(tokens) \subseteq 0 .. Many(tokens) - 1
  BY <1>3, <1>4, ThreadsUsed DEF RowTokens
<1>6. /\ \A t \in Threads : \/ at'[t] = "done"
                            \/ at'[t] = "rows" /\ t < RowThreads(OutRows, tokens)
      /\ \A i \in 0 .. OutRows - 1 :
           PassedBy(at', plan.n, i, RowThreads(OutRows, tokens), OutRows) = 0
  BY <1>1, <1>3, <1>5, Started
<1>7. RoundInv'
  BY <1>1, <1>2, <1>3, <1>6, RedispatchFacts DEF RoundInv, RowPhase
<1>8. RingInv' /\ IdleInv'
  <2>1. convPos = total % 3 /\ total \in Nat /\ Many(tokens) \in Nat
    BY <1>1, <1>2, <1>3, ThreadsUsed DEF RingInv, Redispatch, TypeInv
  <2>2. convPos' = (total + Many(tokens)) % 3
    BY <1>1, <2>1, RingMoves
  <2>3. RingInv'
    BY <1>1, <1>2, <2>2, RedispatchFacts DEF RingInv, Redispatch
  <2> QED
    BY <1>2, <1>3, <2>3, RedispatchFacts DEF IdleInv, Redispatch
<1>9. DispatchInv'
  BY <1>1, <1>2, <1>3, <1>4, <1>6, RedispatchFacts DEF UnfusedInv, DispatchInv
<1>10. SlotInv'
  <2>1. tokens \in Batches \cup {0}
    BY <1>3 DEF TypeInv
  <2>2. \A k \in RowTokens(tokens) : quant'[k] = "y"
    BY <1>1, <1>3, <1>5, <2>1, Quantised
  <2> QED
    BY <1>1, <1>4, <2>2 DEF SlotInv
<1>11. CountInv'
  <2> SUFFICES ASSUME NEW b \in Bufs, NEW k \in 0 .. Many(tokens) - 1,
                      NEW i \in 0 .. Elems(b) - 1
               PROVE  Count(b, k, i)' = Count(b, k, i)
    BY <1>1, <1>3, SameCount DEF UnfusedInv
  <2>1. Passed(i, Used(DInner), DInner) = 1
    BY <1>1, <1>3, JoinedCount
  <2>2. b = "out" => RowCount(k, i)' = 0
    <3> SUFFICES ASSUME b = "out" PROVE RowCount(k, i)' = 0
      OBVIOUS
    <3>1. Passed(i, RowThreads(ProjRows, tokens), ProjRows)'
            = PassedBy(at', plan.n, i, RowThreads(OutRows, tokens), OutRows)
      BY <1>2, <1>4 DEF Passed, Redispatch
    <3>2. i \in 0 .. OutRows - 1
      BY DEF Elems
    <3>3. ~(k < 0)
      BY <1>3, ThreadsUsed
    <3> QED
      BY <1>1, <1>4, <1>6, <3>1, <3>2, <3>3 DEF RowCount
  <2> QED
    BY <1>1, <1>2, <2>1, <2>2, RedispatchFacts DEF Count, Bufs
<1> QED
  BY <1>2, <1>3, <1>7, <1>8, <1>9, <1>10, <1>11, RedispatchFacts
  DEF IInv, UnfusedInv, Redispatch

LEMMA ReturnUnfusedStep ==
  ASSUME IInv, ReturnUnfused
  PROVE  IInv'
<1>1. /\ ProjectionDone /\ running /\ ~Fused /\ Joined /\ step = "out"
      /\ ~running' /\ total' = total + Many(tokens) /\ token' = 0 /\ block' = 0
      /\ UNCHANGED <<barrierVars, call, at, written, convPos, kernel, tokens, step>>
  BY DEF ReturnUnfused, ProjectionDone, InProjection
<1>2. TypeInv /\ TypeInv' /\ RoundInv /\ RingInv /\ IdleInv /\ UnfusedInv
  BY <1>1, DispatchTypes DEF IInv
<1>3. Threads' = Threads /\ Blocks' = Blocks /\ RowPhase' = RowPhase
      /\ \A b : Places(b, tokens)' = Places(b, tokens)
  BY <1>1 DEF barrierVars, Threads, Blocks, Places, RowPhase
<1>4. RoundInv'
  BY <1>1, <1>2, <1>3 DEF RoundInv, barrierVars
<1>5. RingInv'
  <2>1. convPos = (total + Many(tokens)) % 3
    BY <1>1, <1>2 DEF RingInv
  <2>2. total + Many(tokens) \in Nat
    BY <1>2, ThreadsUsed, SMTT(30) DEF TypeInv
  <2> QED
    BY <1>1, <2>1, <2>2 DEF RingInv
<1>6. ASSUME NEW b \in Bufs, NEW c \in Places(b, tokens)
      PROVE  written[b][c] = IF b = "y" THEN 1 ELSE Blocks
  <2> DEFINE k == c \div Elems(b)
             i == c % Elems(b)
  <2>1. k \in 0 .. Many(tokens) - 1
    BY <1>2, PlaceParts DEF TypeInv
  <2>2. written[b][c] = Count(b, k, i)
    BY <1>2 DEF UnfusedInv, CountInv
  <2> HIDE DEF k, i
  <2>3. RowCount(k, i) = Blocks
    BY <1>1, <1>2, <2>1, ProjectionCounts
  <2> QED
    BY <1>1, <2>2, <2>3 DEF Count, Bufs
<1>7. IdleInv'
  <2>1. call \in Nat /\ call > 0
    BY <1>1, <1>2 DEF IdleInv, TypeInv
  <2>2. \A b \in Bufs : \A c \in Places(b, tokens) :
          written[b][c] = IF call = 0 THEN 0 ELSE IF b = "y" THEN 1 ELSE Blocks
    BY <1>6, <2>1
  <2> QED
    BY <1>1, <1>3, <2>2 DEF IdleInv, Joined
<1> QED
  BY <1>1, <1>2, <1>4, <1>5, <1>7 DEF IInv
-----------------------------------------------------------------------------
(* The theorems.                                                           *)

LEMMA InitInv == Init => IInv
<1> SUFFICES ASSUME Init PROVE IInv
  OBVIOUS
<1>1. TypeInv
  BY TypeInit
<1>2. /\ ~running /\ call = 0 /\ written = Blank(0) /\ convPos = 0 /\ total = 0
      /\ tokens = 0 /\ token = 0 /\ block = 0
      /\ \A t \in Threads : at[t] = "done"
  BY DEF Init
<1>3. \A t \in Threads : bpc[t] = "out"
  BY SameThreads DEF Init, B!Init, B!Threads, BP!Threads
<1>4. RoundInv
  BY <1>2, <1>3 DEF RoundInv
<1>5. RingInv
  BY <1>2 DEF RingInv
<1>6. IdleInv
  BY <1>2, Blanks DEF IdleInv
<1> QED
  BY <1>1, <1>2, <1>4, <1>5, <1>6 DEF IInv

LEMMA Stutter ==
  ASSUME IInv, \A p \in Plans : BP!Placed(p), UNCHANGED vars
  PROVE  IInv'
<1> USE DEF vars, barrierVars, workVars, unfusedVars
<1>1. /\ Threads' = Threads /\ Slots' = Slots /\ RowPhase' = RowPhase
      /\ Steal' = Steal /\ Fused' = Fused /\ Blocks' = Blocks /\ Phase' = Phase
      /\ ProjRows' = ProjRows /\ RowTokens(tokens)' = RowTokens(tokens)
      /\ Many(tokens)' = Many(tokens) /\ Used(DInner)' = Used(DInner)
      /\ RowThreads(ProjRows, tokens)' = RowThreads(ProjRows, tokens)
  BY DEF Threads, Slots, RowPhase, Steal, Fused, CanFuse, Blocks, Phase,
         ProjRows, RowTokens, Many, Used, RowThreads
<1>2. \A b : Elems(b)' = Elems(b) /\ Places(b, tokens)' = Places(b, tokens)
  BY DEF Elems, Places, Many
<1>3. TypeInv'
  <2>1. BP!TypeInv' <=> BP!TypeInv
    BY DEF BP!TypeInv, BP!Counters, BP!Nodes, BP!Global, BP!Threads, BP!Pc
  <2> QED
    BY <1>1, <1>2, <2>1 DEF IInv, TypeInv
<1>4. RoundInv' /\ RingInv' /\ IdleInv'
  BY <1>1, <1>2 DEF IInv, RoundInv, RingInv, IdleInv
<1>5. ASSUME running, Fused PROVE FusedInv'
  <2>1. BP!IInv'
    BY <1>5, SizesAssumption, BP!InvariantStep DEF IInv, FusedInv, BP!vars
  <2>2. /\ \A p : Size(p)' = Size(p) /\ Chunk(p)' = Chunk(p)
                  /\ NChunks(p)' = NChunks(p) /\ Steals(p)' = Steals(p)
        /\ \A t : Past(t)' = Past(t)
        /\ \A t, p : Held(t, p)' = Held(t, p) /\ (Waits(t, p)' <=> Waits(t, p))
    BY <1>1 DEF Past, Held, Waits, Size, Elems, Buffer, Chunk, NChunks, Rows,
                Steals
  <2>3. /\ \A t, p : Left(t, p)' = Left(t, p)
        /\ \A p : Untaken(p)' = Untaken(p)
    BY <2>2 DEF Left, Untaken
  <2>4. PlaceInv' /\ OrderInv' /\ QuantInv'
    BY <1>1, <1>5, <2>2 DEF IInv, FusedInv, PlaceInv, OrderInv, QuantInv
  <2>5. ChunkInv'
    BY <1>1, <1>5, <2>2 DEF IInv, FusedInv, ChunkInv
  <2>6. WorkInv'
    BY <1>1, <1>5, <2>2, <2>3 DEF IInv, FusedInv, WorkInv
  <2> QED
    BY <2>1, <2>4, <2>5, <2>6 DEF FusedInv
<1>6. ASSUME running, ~Fused PROVE UnfusedInv'
  <2>1. UnfusedInv
    BY <1>6 DEF IInv
  <2>2. DispatchInv' /\ SlotInv'
    BY <1>1, <2>1 DEF UnfusedInv, DispatchInv, SlotInv
  <2>3. \A i, threads, many : Passed(i, threads, many)' = Passed(i, threads, many)
    BY DEF Passed
  <2>4. \A b, k, i : Count(b, k, i)' = Count(b, k, i)
    BY <1>1, <2>3 DEF Count, RowCount, Passed, ProjRows, RowThreads, Used
  <2>5. CountInv'
    BY <1>2, <2>1, <2>4 DEF UnfusedInv, CountInv
  <2> QED
    BY <2>2, <2>5 DEF UnfusedInv
<1> QED
  BY <1>1, <1>3, <1>4, <1>5, <1>6 DEF IInv

LEMMA NextInv ==
  ASSUME IInv, \A p \in Plans : BP!Placed(p), [Next]_vars
  PROVE  IInv'
<1>1. CASE UNCHANGED vars
  BY <1>1, Stutter
<1>2. CASE Begin \/ Return
  BY <1>2, BeginStep, ReturnStep
<1>3. CASE BeginUnfused \/ NextBlock \/ NextToken \/ Scan \/ ScanDone
             \/ ReturnUnfused
  BY <1>3, BeginUnfusedStep, NextBlockStep, NextTokenStep, ScanStep,
     ScanDoneStep, ReturnUnfusedStep
<1>4. ASSUME NEW t \in Threads, WorkerStep(t) PROVE IInv'
  <2>1. running
    BY <1>4 DEF IInv, IdleInv, WorkerStep, StartRows, DoRows, Grab, RowsDone,
                Ssm, Prepare, BarrierStep
  <2> QED
    BY <1>4, <2>1, FusedStep, UnfusedStep
<1>5. ASSUME NEW t \in Threads, SpinStep(t) PROVE IInv'
  <2>1. UNCHANGED vars
    BY <1>5 DEF SpinStep, B!Spin, B!vars, vars, barrierVars
  <2> QED
    BY <2>1, Stutter
<1> QED
  BY <1>1, <1>2, <1>3, <1>4, <1>5 DEF Next

\* The invariant holds of every call, fused or not: block_step and
\* block_step_batch with their dispatches, chunk counters and barrier, for
\* every placement in which each thread has a CPU of its own.
THEOREM FusedInvariant ==
  ASSUME \A p \in Plans : BP!PlanFits(p)
  PROVE  Spec => []IInv
<1>1. \A p \in Plans : BP!Placed(p)
  BY SizesAssumption, BP!Placement
<1>2. Init => IInv
  BY InitInv
<1>3. IInv /\ [Next]_vars => IInv'
  BY <1>1, NextInv
<1> QED
  BY <1>2, <1>3, PTL DEF Spec

\* A phase everybody is past has computed everything.
LEMMA PhaseOver ==
  ASSUME TypeInv, RoundInv, PlaceInv, ChunkInv, WorkInv, Fused,
         NEW p \in {0, 1, 3}, \A t \in Threads : Past(t) > p
  PROVE  \A c \in DOMAIN written[Buffer(p)] : written[Buffer(p)][c] = 1
<1>1. /\ Buffer(p) \in Bufs /\ Size(p) \in Nat \ {0} /\ 0 \in Threads
      /\ DOMAIN written[Buffer(p)] = 0 .. Size(p) - 1
  BY Sizes, FusedFacts DEF TypeInv, Size
<1>2. \A t \in Threads : Left(t, p) = {}
  <2> SUFFICES ASSUME NEW t \in Threads PROVE ~Waits(t, p)
    BY DEF Left
  <2>1. round[t] \in 0 .. 3 /\ Past(t) > p
    BY RoundBound
  <2> QED
    BY <2>1 DEF Waits, Past
<1>3. Untaken(p) = {}
  <2>1. CASE Steals(p)
    <3>1. p \in RowPhase /\ Steal /\ Past(0) > p
      BY <1>1, <2>1 DEF Steals
    <3>2. NChunks(p) <= ctr[p] /\ NChunks(p) \in Nat /\ ctr[p] \in Nat
      BY <1>1, <3>1, Sizes DEF ChunkInv, TypeInv
    <3>3. ctr[p] .. NChunks(p) - 1 = {}
      BY <3>2
    <3> QED
      BY <3>3 DEF Untaken
  <2>2. CASE ~Steals(p)
    BY <2>2 DEF Untaken
  <2> QED
    BY <2>1, <2>2
<1> QED
  BY <1>1, <1>2, <1>3 DEF WorkInv

LEMMA UnfusedCounts ==
  ASSUME TypeInv, UnfusedInv, NEW b \in Bufs, NEW c \in DOMAIN written[b]
  PROVE  \E k \in 0 .. Many(tokens) - 1, i \in 0 .. Elems(b) - 1 :
           /\ k = c \div Elems(b)
           /\ written[b][c] = Count(b, k, i)
           /\ RowCount(k, i) \in 0 .. Blocks
           /\ k \in RowTokens(tokens) => RowCount(k, i) <= block + 1
           /\ Passed(i, Used(DInner), DInner) \in 0 .. 1
<1> DEFINE k == c \div Elems(b)
           i == c % Elems(b)
<1>1. c \in Places(b, tokens)
  BY DEF TypeInv
<1>2. k \in 0 .. Many(tokens) - 1 /\ i \in 0 .. Elems(b) - 1
  BY <1>1, PlaceParts DEF TypeInv
<1>3. written[b][c] = Count(b, k, i)
  BY <1>1 DEF UnfusedInv, CountInv
<1> HIDE DEF k, i
<1>4. \A threads, many : Passed(i, threads, many) \in 0 .. 1
  BY DEF Passed, PassedBy
<1>5. block \in 0 .. Blocks - 1 /\ Blocks \in Nat
  BY ThreadsUsed DEF UnfusedInv, DispatchInv
<1>6. /\ RowCount(k, i) \in 0 .. Blocks
      /\ k \in RowTokens(tokens) => RowCount(k, i) <= block + 1
  <2> DEFINE P == Passed(i, RowThreads(ProjRows, tokens), ProjRows)
  <2>1. P \in 0 .. 1
    BY <1>4
  <2> HIDE DEF P
  <2>2. RowCount(k, i) = IF k \in RowTokens(tokens) THEN block + P
                         ELSE IF k < token THEN Blocks ELSE 0
    BY DEF RowCount, P
  <2> QED
    BY <1>5, <2>1, <2>2
<1> QED
  BY <1>2, <1>3, <1>4, <1>6 DEF k

LEMMA InputsReady == IInv => PhaseInputsReady
<1> SUFFICES ASSUME IInv PROVE PhaseInputsReady
  OBVIOUS
<1>1. TypeInv /\ RoundInv /\ IdleInv
  BY DEF IInv
<1> SUFFICES ASSUME NEW t \in Threads
             PROVE  /\ at[t] = "ssm" => Written("proj_out")
                    /\ at[t] = "prepare" => YComputed
                    /\ at[t] = "rows" =>
                         /\ \A k \in RowTokens(tokens) :
                              quant[k] = IF round[t] = 0 THEN "u" ELSE "y"
                         /\ round[t] = 3 => YComputed /\ (Fused => input[t])
  BY DEF PhaseInputsReady, ProjOutWritten
<1>2. CASE at[t] # "done" /\ Fused
  <2>1. running
    BY <1>1, <1>2 DEF IdleInv
  <2>2. PlaceInv /\ OrderInv /\ QuantInv /\ ChunkInv /\ WorkInv
    BY <1>2, <2>1 DEF IInv, FusedInv
  <2>3. \A u \in Threads : /\ Past(u) \in 0 .. 3 /\ round[u] \in 0 .. 3
                           /\ Past(u) >= round[t] /\ Past(t) >= round[u]
    BY <1>1, <2>2, RoundBound DEF OrderInv
  <2>4. Blocks = 1 /\ RowTokens(tokens) = {0} /\ 0 \in Threads
    BY <1>1, <1>2, FusedFacts, Sizes
  <2>5. round[t] > 0 => Written("proj_out")
    <3> SUFFICES ASSUME round[t] > 0 PROVE Written("proj_out")
      OBVIOUS
    <3>1. \A u \in Threads : Past(u) > 0
      BY <2>3
    <3>2. Buffer(0) = "proj_out" /\ 0 \in {0, 1, 3}
      BY DEF Buffer
    <3> QED
      BY <1>1, <1>2, <2>2, <2>4, <3>1, <3>2, PhaseOver DEF Written
  <2>6. round[t] > 1 => YComputed
    <3> SUFFICES ASSUME round[t] > 1 PROVE YComputed
      OBVIOUS
    <3>1. \A u \in Threads : Past(u) > 1
      BY <2>3
    <3>2. Buffer(1) = "y" /\ 1 \in {0, 1, 3}
      BY DEF Buffer
    <3> QED
      BY <1>1, <1>2, <2>2, <3>1, <3>2, PhaseOver DEF YComputed
  <2>7. at[t] = "rows" => quant[0] = IF round[t] = 0 THEN "u" ELSE "y"
    <3> SUFFICES ASSUME at[t] = "rows"
                 PROVE  quant[0] = IF round[t] = 0 THEN "u" ELSE "y"
      OBVIOUS
    <3>1. round[t] \in {0, 3} /\ Past(t) = round[t]
      BY <1>1 DEF RoundInv, RowPhase, Past
    <3>2. Past(0) = 3 <=> round[t] = 3
      BY <2>3, <2>4, <3>1 DEF Past
    <3> QED
      BY <2>2, <3>1, <3>2 DEF QuantInv
  <2> QED
    BY <2>2, <2>4, <2>5, <2>6, <2>7 DEF PlaceInv, QuantInv
<1>3. CASE at[t] # "done" /\ ~Fused
  <2>1. running
    BY <1>1, <1>3 DEF IdleInv
  <2>2. UnfusedInv /\ DispatchInv /\ SlotInv
    BY <1>3, <2>1 DEF IInv, UnfusedInv
  <2>3. "proj_out" \in Bufs /\ "y" \in Bufs
    BY DEF Bufs
  <2>4. step = "scan" => Written("proj_out")
    <3> SUFFICES ASSUME step = "scan", NEW c \in DOMAIN written["proj_out"]
                 PROVE  written["proj_out"][c] = Blocks
      BY DEF Written
    <3> QED
      BY <1>1, <2>2, <2>3, UnfusedCounts DEF Count
  <2>5. step = "out" => YComputed
    <3> SUFFICES ASSUME step = "out", NEW c \in DOMAIN written["y"]
                 PROVE  written["y"][c] = 1
      BY DEF YComputed
    <3> QED
      BY <1>1, <2>2, <2>3, UnfusedCounts DEF Count
  <2> QED
    BY <1>1, <1>3, <2>2, <2>4, <2>5 DEF DispatchInv, SlotInv, Phase, TypeInv
<1>4. CASE at[t] = "done"
  BY <1>4
<1> QED
  BY <1>2, <1>3, <1>4

\* No phase of a block step reads what an earlier one has not finished: the
\* three barriers of fused_block_worker, and the joins of the unfused path,
\* are enough for every number of threads, placement, size and batch.
THEOREM FusedInputsReady ==
  ASSUME \A p \in Plans : BP!PlanFits(p)
  PROVE  Spec => []PhaseInputsReady
  BY FusedInvariant, InputsReady, PTL

LEMMA OnceEach == IInv => EveryRowOnce
<1> SUFFICES ASSUME IInv PROVE EveryRowOnce
  OBVIOUS
<1>1. TypeInv /\ RingInv /\ IdleInv
  BY DEF IInv
<1>2. /\ Blocks \in Nat \ {0} /\ block \in Nat
      /\ "proj_out" \in Bufs /\ "y" \in Bufs /\ "out" \in Bufs
      /\ \A b \in Bufs : DOMAIN written[b] = Places(b, tokens)
  BY <1>1, ThreadsUsed DEF TypeInv, Bufs
<1>3. ASSUME NEW b \in Bufs, NEW c \in DOMAIN written[b]
      PROVE  /\ b = "y" => written[b][c] <= 1
             /\ b # "y" => written[b][c] <= Blocks
             /\ step = "in" /\ ~Fused /\ running /\ b = "proj_out"
                  /\ c \div InRows \in RowTokens(tokens) =>
                    written[b][c] <= block + 1
  <2>1. CASE ~running
    <3>1. written[b][c] = IF call = 0 THEN 0 ELSE IF b = "y" THEN 1 ELSE Blocks
      BY <1>1, <1>2, <1>3, <2>1 DEF IdleInv
    <3> QED
      BY <1>2, <2>1, <3>1
  <2>2. CASE running /\ Fused
    <3>1. WorkInv /\ Blocks = 1
      BY <1>1, <2>2, FusedFacts DEF IInv, FusedInv
    <3>2. PICK p \in {0, 1, 3} : b = Buffer(p)
      BY DEF Buffer, Bufs
    <3>3. c \in 0 .. Size(p) - 1
      BY <1>1, <1>2, <1>3, <2>2, <3>2, FusedFacts DEF Size
    <3>4. written[b][c] \in {0, 1}
      BY <3>1, <3>2, <3>3 DEF WorkInv
    <3> QED
      BY <2>2, <3>1, <3>4
  <2>3. CASE running /\ ~Fused
    <3>1. UnfusedInv
      BY <2>3 DEF IInv
    <3>2. PICK k \in 0 .. Many(tokens) - 1, i \in 0 .. Elems(b) - 1 :
            /\ k = c \div Elems(b)
            /\ written[b][c] = Count(b, k, i)
            /\ RowCount(k, i) \in 0 .. Blocks
            /\ k \in RowTokens(tokens) => RowCount(k, i) <= block + 1
            /\ Passed(i, Used(DInner), DInner) \in 0 .. 1
      BY <1>1, <3>1, UnfusedCounts
    <3>3. step \in {"in", "scan", "out"}
      BY <1>1 DEF TypeInv
    <3>4. CASE b = "proj_out"
      <4>1. written[b][c] = IF step = "in" THEN RowCount(k, i) ELSE Blocks
        BY <3>2, <3>4 DEF Count
      <4>2. k = c \div InRows
        BY <3>2, <3>4 DEF Elems
      <4> QED
        BY <1>2, <3>2, <3>4, <4>1, <4>2
    <3>5. CASE b = "y"
      BY <3>2, <3>5 DEF Count
    <3>6. CASE b = "out"
      BY <1>2, <3>2, <3>6 DEF Count
    <3> QED
      BY <3>4, <3>5, <3>6 DEF Bufs
  <2> QED
    BY <2>1, <2>2, <2>3
<1>4. ~running /\ call > 0 => YComputed /\ Written("proj_out") /\ Written("out")
  BY <1>1, <1>2 DEF IdleInv, YComputed, Written, TypeInv
<1>5. ~running => convPos = total % 3
  BY <1>1 DEF RingInv, TypeInv
<1> QED
  BY <1>2, <1>3, <1>4, <1>5 DEF EveryRowOnce

\* Every row and element of a call is computed exactly once, whoever steals
\* what and in whichever token of a batch, and the convolution ring moves by
\* one tap per token.
THEOREM FusedEveryRowOnce ==
  ASSUME \A p \in Plans : BP!PlanFits(p)
  PROVE  Spec => []EveryRowOnce
  BY FusedInvariant, OnceEach, PTL
=============================================================================
