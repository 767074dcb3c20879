----------------------------- MODULE FusedBlock -----------------------------
(***************************************************************************)
(* One token through one block, block_step, or a batch of tokens,          *)
(* block_step_batch (src/src/block.c).  With a vector kernel and several   *)
(* threads block_step is fused: one bm_parallel_for in which every thread  *)
(* runs fused_block_worker, four phases of work on shared buffers with a   *)
(* barrier after each of the first three.                                  *)
(*                                                                         *)
(*   round 0  in_proj rows : x_quant -> proj_out                           *)
(*   round 1  SSM elements : proj_out, conv and SSM state -> y             *)
(*   round 2  tid 0 only   : y -> x_quant (the same buffer), inv_scale     *)
(*   round 3  out_proj rows: x_quant, inv_scale -> out                     *)
(*                                                                         *)
(* The barrier is the concrete one of module Barrier, and the row phases   *)
(* steal chunks on one NUMA node and use static ranges on several.         *)
(*                                                                         *)
(* Otherwise it is unfused, as a batch always is: in_proj, the scan and    *)
(* out_proj are dispatches of their own, each joined before the next.  The *)
(* scalar kernel makes one per token and column block, adding to its rows; *)
(* a vector kernel quantises all tokens of a batch and makes one, in which *)
(* a thread keeps its rows and goes through the tokens.                    *)
(***************************************************************************)
EXTENDS Integers, FiniteSets, FiniteSetsExt

CONSTANTS
  Plans,       \* thread placements, as in Barrier
  MaxThreads,  \* as in Barrier
  InRows, DInner, OutRows,  \* rows of in_proj, elements of y, rows of out_proj
  MinChunk,    \* 8 in the code
  ParThreshold,  \* BM_PAR_THRESHOLD: fewer tasks are done by the caller
  ColBlocks,   \* column blocks of a scalar row, a block of 256 groups each
  Kernels,     \* "vector" (AVX2 or NEON) or "scalar"
  Batches,     \* numbers of tokens of block_step_batch to consider
  Calls        \* bound: calls made

ASSUME SizesAssumption ==
  /\ MaxThreads \in Nat
  /\ \A p \in Plans : p.n \in 1 .. MaxThreads /\ p.nodes \in Nat \ {0}
  /\ {InRows, DInner, OutRows, MinChunk, ColBlocks} \subseteq Nat \ {0}
  /\ ParThreshold \in Nat
  /\ Kernels \subseteq {"vector", "scalar"}
  /\ Batches \subseteq Nat /\ IsFiniteSet(Batches)

VARIABLES
  plan, arrived, phase, bpc, cur, gcur, round,  \* Barrier
  running,  \* a dispatch is open
  call,     \* calls of block_step so far
  at,       \* what each thread does in its phase
  chunk,    \* its local chunk number
  ctr,      \* in_proj_steal_ctr and out_proj_steal_ctr
  quant,    \* whose quantised input bl_x_quant holds: "u" or "y", by the
            \* token of a batch
  ready,    \* fw->out_proj_rw.x_quant and inv_scale are filled in
  input,    \* the thread's local copy of the row work saw them filled in
  written,  \* history: writes of this call to proj_out, y and out, by index
  convPos,  \* b->conv_pos
  total,    \* history: tokens of all calls that have returned
  kernel,   \* g_kernels.name
  tokens,   \* n_tokens of block_step_batch, 0 in block_step
  step,     \* the unfused call in progress: "in", "scan", "out"
  token, block  \* the scalar kernel's token and column block

B == INSTANCE Barrier WITH Rounds <- 3
W == INSTANCE WorkRange

unfusedVars == <<total, kernel, tokens, step, token, block>>
workVars == <<running, call, at, chunk, ctr, quant, ready, input, written,
              convPos, unfusedVars>>
barrierVars == <<plan, arrived, phase, bpc, cur, gcur, round>>
vars == <<barrierVars, workVars>>

Threads == 0 .. plan.n - 1
Steal   == plan.nodes <= 1
CanFuse == kernel = "vector" /\ plan.n > 1
Fused   == CanFuse /\ tokens = 0

\* The tokens of a call; a batch has a slot of x_quant for each.
Many(n) == IF n = 0 THEN 1 ELSE n
Slots   == 0 .. Max({Many(n) : n \in Batches \cup {0}}) - 1

\* The threads an unfused dispatch of some tasks uses, the caller included.
Used(tasks) ==
  IF plan.n = 1 \/ tasks < ParThreshold THEN 1
  ELSE IF tasks < plan.n THEN tasks ELSE plan.n

\* A vector kernel dispatches the rows of a batch only from two tokens on.
RowThreads(rows, n) == IF kernel = "vector" /\ n <= 1 THEN 1 ELSE Used(rows)

\* The two row phases, by round.
RowPhase == {0, 3}
Rows(p)  == IF p = 0 THEN InRows ELSE OutRows
Buffer(p) == CASE p = 0 -> "proj_out" [] p = 1 -> "y" [] p = 3 -> "out"

Chunk(p)   == W!ChunkSize(Rows(p), plan.n, MinChunk)
NChunks(p) == W!TotalChunks(Rows(p), Chunk(p))

Blank(n) == [proj_out |-> [r \in 0 .. Many(n) * InRows - 1 |-> 0],
             y        |-> [i \in 0 .. Many(n) * DInner - 1 |-> 0],
             out      |-> [r \in 0 .. Many(n) * OutRows - 1 |-> 0]]

Init ==
  /\ B!Init
  /\ running = FALSE /\ call = 0
  /\ at = [t \in Threads |-> "done"]
  /\ chunk = [t \in Threads |-> 0]
  /\ ctr = [p \in RowPhase |-> 0]
  /\ quant = [k \in Slots |-> "u"] /\ ready = FALSE
  /\ input = [t \in Threads |-> FALSE]
  /\ written = Blank(0)
  /\ convPos = 0 /\ total = 0
  /\ kernel \in Kernels /\ tokens = 0 /\ step = "in" /\ token = 0 /\ block = 0

\* Mutant: the chunk counters start at the first chunk.
BeginFromZero ==
  /\ CanFuse /\ ~running /\ call < Calls
  /\ running' = TRUE /\ call' = call + 1 /\ tokens' = 0
  /\ quant' = [quant EXCEPT ![0] = "u"] /\ ready' = FALSE
  /\ ctr' = [p \in RowPhase |-> 0]
  /\ arrived' = [k \in DOMAIN arrived |-> 0]
  /\ phase' = [k \in DOMAIN phase |-> 0]
  /\ round' = [t \in Threads |-> 0]
  /\ at' = [t \in Threads |-> "start"]
  /\ written' = Blank(0)
  /\ UNCHANGED <<plan, bpc, cur, gcur, chunk, input, convPos, total, kernel,
                 step, token, block>>

\* block_step up to bm_parallel_for: quantise u, set up the shared work
\* record (both counters start after the chunks handed out by tid) and a new
\* barrier.
Begin ==
  /\ CanFuse /\ ~running /\ call < Calls
  /\ running' = TRUE /\ call' = call + 1 /\ tokens' = 0
  /\ quant' = [quant EXCEPT ![0] = "u"] /\ ready' = FALSE
  /\ ctr' = [p \in RowPhase |-> plan.n]
  /\ arrived' = [k \in DOMAIN arrived |-> 0]
  /\ phase' = [k \in DOMAIN phase |-> 0]
  /\ round' = [t \in Threads |-> 0]
  /\ at' = [t \in Threads |-> "start"]
  /\ written' = Blank(0)
  /\ UNCHANGED <<plan, bpc, cur, gcur, chunk, input, convPos, total, kernel,
                 step, token, block>>

\* bm_parallel_for returns when every thread has; the ring position advances.
Return ==
  /\ Fused /\ running /\ \A t \in Threads : at[t] = "done"
  /\ running' = FALSE
  /\ convPos' = IF convPos + 1 < 3 THEN convPos + 1 ELSE 0
  /\ total' = total + 1
  /\ UNCHANGED <<barrierVars, call, at, chunk, ctr, quant, ready, input,
                 written, kernel, tokens, step, token, block>>

-----------------------------------------------------------------------------
(* The unfused path.                                                       *)

Blocks == IF kernel = "scalar" THEN ColBlocks ELSE 1

\* A dispatch to the first threads, or to the caller alone.
Start(threads, what) ==
  at' = [t \in Threads |-> IF t < threads THEN what ELSE "done"]

Joined == \A t \in Threads : at[t] = "done"

\* The tokens the current row dispatch is for, out of n.
RowTokens(n) == IF kernel = "scalar" THEN {token} ELSE 0 .. Many(n) - 1

\* bitlinear_prepare for some tokens of a batch.
Quantise(S, what) ==
  quant' = [k \in Slots |-> IF k \in S THEN what ELSE quant[k]]

\* bitlinear_forward on u, or bitlinear_forward_batch: quantise, dispatch the
\* rows.
BeginUnfused ==
  /\ ~running /\ call < Calls
  /\ \E n \in Batches \cup {0} :
       /\ n = 0 => ~CanFuse
       /\ tokens' = n
       /\ Quantise(RowTokens(n), "u")
       /\ Start(RowThreads(InRows, n), "rows")
       /\ written' = Blank(n)
  /\ running' = TRUE /\ call' = call + 1
  /\ step' = "in"
  /\ round' = [t \in Threads |-> 0]
  /\ UNCHANGED <<plan, arrived, phase, bpc, cur, gcur, chunk, ctr, ready,
                 input, convPos, total, kernel, token, block>>

ProjRows == IF step = "in" THEN InRows ELSE OutRows

InProjection == ~Fused /\ running /\ Joined /\ step \in {"in", "out"}

\* The scalar kernel's next column block of the same rows.
NextBlock ==
  /\ InProjection /\ block + 1 < Blocks
  /\ block' = block + 1
  /\ Start(RowThreads(ProjRows, tokens), "rows")
  /\ UNCHANGED <<barrierVars, running, call, chunk, ctr, quant, ready, input,
                 written, convPos, total, kernel, tokens, step, token>>

\* The scalar kernel's next token of a batch.
NextToken ==
  /\ InProjection /\ kernel = "scalar"
  /\ block + 1 = Blocks /\ token + 1 < Many(tokens)
  /\ token' = token + 1 /\ block' = 0
  /\ Quantise({token + 1}, IF step = "in" THEN "u" ELSE "y")
  /\ Start(RowThreads(ProjRows, tokens), "rows")
  /\ UNCHANGED <<barrierVars, running, call, chunk, ctr, ready, input, written,
                 convPos, total, kernel, tokens, step>>

ProjectionDone ==
  /\ InProjection /\ block + 1 = Blocks
  /\ kernel = "scalar" => token + 1 = Many(tokens)

\* ssm_scan_token, or ssm_batch_worker over all tokens.
Scan ==
  /\ ProjectionDone /\ step = "in"
  /\ step' = "scan" /\ token' = 0 /\ block' = 0
  /\ Start(Used(DInner), "ssm")
  /\ UNCHANGED <<barrierVars, running, call, chunk, ctr, quant, ready, input,
                 written, convPos, total, kernel, tokens>>

\* The scan returns and moves the ring; bitlinear_forward on y.
ScanDone ==
  /\ ~Fused /\ running /\ Joined
  /\ step = "scan"
  /\ convPos' = (convPos + Many(tokens)) % 3
  /\ step' = "out"
  /\ Quantise(RowTokens(tokens), "y")
  /\ round' = [t \in Threads |-> 3]
  /\ Start(RowThreads(OutRows, tokens), "rows")
  /\ UNCHANGED <<plan, arrived, phase, bpc, cur, gcur, running, call, chunk,
                 ctr, ready, input, written, total, kernel, tokens, token,
                 block>>

ReturnUnfused ==
  /\ ProjectionDone /\ step = "out"
  /\ running' = FALSE
  /\ total' = total + Many(tokens)
  /\ token' = 0 /\ block' = 0
  /\ UNCHANGED <<barrierVars, call, at, chunk, ctr, quant, ready, input,
                 written, convPos, kernel, tokens, step>>

-----------------------------------------------------------------------------

\* Mutant: the row work is copied once, on entry.
StartRowsEarlyCopy(t) ==
  /\ at[t] = "start"
  /\ input' = [input EXCEPT ![t] = IF round[t] = 0 THEN ready ELSE @]
  /\ chunk' = [chunk EXCEPT ![t] = t]
  /\ at' = [at EXCEPT ![t] = "rows"]
  /\ UNCHANGED <<barrierVars, running, call, ctr, quant, ready, written,
                 convPos, unfusedVars>>

\* A row phase begins: copy the row work, take the chunk numbered tid.
StartRows(t) ==
  /\ at[t] = "start"
  /\ input' = [input EXCEPT ![t] = ready]
  /\ chunk' = [chunk EXCEPT ![t] = t]
  /\ at' = [at EXCEPT ![t] = "rows"]
  /\ UNCHANGED <<barrierVars, running, call, ctr, quant, ready, written,
                 convPos, unfusedVars>>

\* The rows thread t is computing.
MyRows(t) ==
  IF ~Fused THEN W!TaskRange(t, RowThreads(Rows(round[t]), tokens),
                             Rows(round[t]))
  ELSE IF Steal THEN W!ChunkRows(chunk[t], Rows(round[t]), Chunk(round[t]))
  ELSE W!TaskRange(t, plan.n, Rows(round[t]))

AfterRows(t) == IF Fused /\ round[t] = 0 THEN "barrier" ELSE "done"

\* The places of some rows or elements, out of many, in a batch's buffer.
Cells(S, T, many) == {k * many + i : k \in T, i \in S}

Write(buf, S) ==
  written' = [written EXCEPT ![buf] =
                [i \in DOMAIN @ |-> IF i \in S THEN @[i] + 1 ELSE @[i]]]

\* The row block is computed; a stealing thread goes back for another chunk.
DoRows(t) ==
  /\ at[t] = "rows"
  /\ Fused /\ Steal => chunk[t] < NChunks(round[t])
  /\ Write(Buffer(round[t]),
           Cells(MyRows(t), RowTokens(tokens), Rows(round[t])))
  /\ at' = [at EXCEPT ![t] = IF Fused /\ Steal THEN "grab" ELSE AfterRows(t)]
  /\ UNCHANGED <<barrierVars, running, call, chunk, ctr, quant, ready, input,
                 convPos, unfusedVars>>

\* fetch_add on the phase's chunk counter.
Grab(t) ==
  /\ at[t] = "grab"
  /\ chunk' = [chunk EXCEPT ![t] = ctr[round[t]]]
  /\ ctr' = [ctr EXCEPT ![round[t]] = @ + 1]
  /\ at' = [at EXCEPT ![t] = "rows"]
  /\ UNCHANGED <<barrierVars, running, call, quant, ready, input, written,
                 convPos, unfusedVars>>

\* No chunk is left.
RowsDone(t) ==
  /\ at[t] = "rows" /\ Fused /\ Steal /\ chunk[t] >= NChunks(round[t])
  /\ at' = [at EXCEPT ![t] = AfterRows(t)]
  /\ UNCHANGED <<barrierVars, running, call, chunk, ctr, quant, ready, input,
                 written, convPos, unfusedVars>>

\* The SSM kernel over the thread's range of elements, for every token.
Ssm(t) ==
  /\ at[t] = "ssm"
  /\ Write("y", Cells(W!TaskRange(t, IF Fused THEN plan.n ELSE Used(DInner),
                                  DInner),
                      0 .. Many(tokens) - 1, DInner))
  /\ at' = [at EXCEPT ![t] = IF Fused THEN "barrier" ELSE "done"]
  /\ UNCHANGED <<barrierVars, running, call, chunk, ctr, quant, ready, input,
                 convPos, unfusedVars>>

\* bitlinear_prepare on y, into the buffer in_proj has read from.
Prepare(t) ==
  /\ at[t] = "prepare"
  /\ quant' = [quant EXCEPT ![0] = "y"] /\ ready' = TRUE
  /\ at' = [at EXCEPT ![t] = "barrier"]
  /\ UNCHANGED <<barrierVars, running, call, chunk, ctr, input, written,
                 convPos, unfusedVars>>

\* Mutant: only thread 0 waits at the third barrier.
NextPhaseTidZeroOnly(t, r) ==
  CASE r = 1 -> "ssm"
    [] r = 2 -> IF t = 0 THEN "prepare" ELSE "done"
    [] r = 3 -> "start"

\* What a thread does when it comes out of its r-th barrier.
NextPhase(t, r) ==
  CASE r = 1 -> "ssm"
    [] r = 2 -> IF t = 0 THEN "prepare" ELSE "barrier"
    [] r = 3 -> "start"

\* A step inside bm_barrier_wait.
BarrierStep(t) ==
  /\ at[t] = "barrier"
  /\ B!Step(t)
  /\ at' = [at EXCEPT ![t] =
              IF bpc'[t] = "out" THEN NextPhase(t, round'[t]) ELSE @]
  /\ UNCHANGED <<running, call, chunk, ctr, quant, ready, input, written,
                 convPos, unfusedVars>>

WorkerStep(t) ==
  \/ StartRows(t) \/ DoRows(t) \/ Grab(t) \/ RowsDone(t) \/ Ssm(t)
  \/ Prepare(t) \/ BarrierStep(t)

\* A thread spins in the barrier.
SpinStep(t) == at[t] = "barrier" /\ B!Spin(t) /\ UNCHANGED workVars

Finished == ~running /\ call = Calls

Next ==
  \/ Begin \/ Return
  \/ BeginUnfused \/ NextBlock \/ NextToken \/ Scan \/ ScanDone
  \/ ReturnUnfused
  \/ \E t \in Threads : WorkerStep(t) \/ SpinStep(t)
  \/ Finished /\ UNCHANGED vars

Spec ==
  /\ Init /\ [][Next]_vars
  /\ WF_vars(Return)
  /\ WF_vars(NextBlock \/ NextToken \/ Scan \/ ScanDone \/ ReturnUnfused)
  /\ \A t \in 0 .. MaxThreads - 1 : WF_vars(t \in Threads /\ WorkerStep(t))

-----------------------------------------------------------------------------
\* All of a buffer has been computed, column block by column block.
Written(buf) == \A i \in DOMAIN written[buf] : written[buf][i] = Blocks
YComputed    == \A i \in DOMAIN written.y : written.y[i] = 1

\* The SSM phase reads proj_out only when every row of it has been written:
\* the claim of the first barrier.
ProjOutWritten == \A t \in Threads : at[t] = "ssm" => Written("proj_out")

\* No phase reads what an earlier one has not finished: the scan reads a
\* finished proj_out, y is quantised when all of it is there (the second
\* barrier, or the join of the scan), and row work reads the vector it was
\* dispatched for, of each of its tokens: in_proj never the buffer already
\* reused for y, out_proj never before it is, and with a filled-in scale (the
\* third barrier).
PhaseInputsReady ==
  /\ ProjOutWritten
  /\ \A t \in Threads :
       /\ at[t] = "prepare" => YComputed
       /\ at[t] = "rows" /\ MyRows(t) # {} =>
            /\ \A k \in RowTokens(tokens) :
                 quant[k] = IF round[t] = 0 THEN "u" ELSE "y"
            /\ round[t] = 3 => YComputed /\ (Fused => input[t])

\* No element is computed twice in a call (a scalar row once per column
\* block), none is missing when it returns, whoever stole what and in
\* whichever token of a batch, and the convolution ring has moved by one tap
\* per token.
EveryRowOnce ==
  /\ \A i \in DOMAIN written.y : written.y[i] <= 1
  /\ \A buf \in {"proj_out", "out"} : \A i \in DOMAIN written[buf] :
       /\ written[buf][i] <= Blocks
       /\ step = "in" /\ ~Fused /\ running /\ buf = "proj_out"
            /\ i \div InRows \in RowTokens(tokens) =>
              written[buf][i] <= block + 1
  /\ ~running /\ call > 0 =>
       YComputed /\ Written("proj_out") /\ Written("out")
  /\ ~running => convPos = total % 3

\* Every call returns.
BlockCallsReturn == running ~> ~running
=============================================================================
