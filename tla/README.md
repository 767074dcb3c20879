# A verification development for bitmamba.c

bitmamba.c runs a ternary-weight Mamba language model on a CPU, with an
optional Metal path for prefill: one process, a pool of worker threads, a
memory-mapped model file, and a chat front end that can keep its state across
restarts.  This directory holds TLA+ modules translated from that code, TLC
configurations that check them on small instances, and proofs for TLAPS.

    tlc -workers 2 -config MCThreadPool.cfg MCThreadPool
    tlapm ThreadPoolProofs.tla

and likewise for the other runs of section 3 and the other proof modules:
`WorkRangeProofs`, `BarrierProofs`, `FusedBlockProofs`, `PrefillProofs`,
`GenerateProofs`, `ChatSessionProofs`, `StartupProofs`.  Each takes from some
seconds to some minutes.

`PROJECT.json` lists components, runs, mutants (a plausible bug for each
property, which the run must catch), the source lines of each definition, the
hazards of the code, and the theorems.  Paths below are relative to
`src/src/`.

## 1. The system

| Component | State | Operations | Works with |
|---|---|---|---|
| Thread pool (`threadpool.c`) | `g_pool`: generation, job, per-worker mailboxes, condition variables, shutdown flag | `bm_set_threads`, `bm_parallel_for`, `bm_thread_pool_free`, `worker_entry` | everything that computes in parallel |
| NUMA placement and barrier (`threadpool.c`) | `node_first_tid`, `node_threads`, phase counters | `pool_create`, `bm_barrier_init`, `bm_barrier_wait` | fused block, loader (replicas) |
| Fused block step (`block.c`, `arch/avx2.c`) | `proj_out`, `y`, `x_quant`, `out`, chunk counters | `block_step`, `fused_block_worker`, `avx2_row_worker` | pool, barrier, kernels |
| Convolution ring and scan (`block.c`) | `conv_state`, `conv_pos`, `ssm_state` per layer | `ssm_scan_token`, `ssm_batch_worker` | pool, state file, prefill |
| Prefill (`model.c`) | batch buffers, layers | `model_prefill`, `model_prefill_metal`, `block_step_batch` | Metal, ring |
| Metal backend (`metal/bm_metal.c`) | device, queue, mutex, command buffer, scratch buffers, view of the model file | `bm_metal_init`, `_set_mmap`, `_batch_begin`, `_encode_bitlinear`, `_submit_and_wait`, `_batch_end`, `_bitlinear_forward_batch`, `_cleanup` | prefill, loader |
| Response generation (`chat.c`) | stop-rule state: run length, ring of recent tokens, newline count | `generate_response` | prefill, forward step, session |
| Chat session (`chat.c`) | repetition history, interrupt flag, state file | `chat_run`, `handle_turn`, `state_save`, `state_load`, `state_reset`, signal handler | generation, arithmetic |
| Arithmetic (`chat.c`) | none | `extract_math_expr`, `eval_expr`, `try_eval_math`, `try_eval_comparison` | session |
| Loader and release (`model.c`, `main.c`) | mapping, layers, buffers, replicas, GPU | `model_load`, `model_free`, `block_init_cache`, `block_free`, `tokenizer_load` | all |
| Sampler (`model.c`) | none | `sample_advanced`, `filter_and_sample`, repetition penalty | forward step, random numbers |
| Forward step (`model.c`) | activations | `model_forward_step` | blocks, sampler |
| Kernels (`kernel.c`, `arch/`, `quantization.c`) | look-up tables, `x_quant_buf` | `bitlinear_forward` and row workers | blocks |
| Kernel dispatch (`dispatch.c`) | the table `g_kernels` | `dispatch_init` | kernels, fused block |
| Tokenizer (`tokenizer.c`) | vocabulary, hash table | `tokenizer_load`, `tokenizer_encode`, `tokenizer_decode_to_bytes`, `match_gpt2_word` | session, one-shot mode |
| Random numbers, statistics, command line, export scripts | seed, counters | | |

What is hard here, and therefore what the properties are about:

* **Interleavings.**  Workers wait by spinning and then on a condition
  variable; dispatches follow one another without a global lock; four phases
  share four buffers inside one dispatch and are separated by hand-written
  barriers; chunks of rows are stolen.
* **Failure part-way.**  `pthread_create` fails at the third worker; the GPU
  prefill gives up half-way through its set-up; the model file ends at any
  tensor; the disk is full at `fclose`; the state file is cut.
* **Incremental state that must agree with a definition over the past.**  The
  ring position that every thread follows privately, the stop rules, the
  repetition history, the state file.
* **Shutdown, restart, signals.**  A pool is freed and made again; a session is
  continued from a file by another process; a second signal kills at once.
* **Numbers at a boundary.**  Uneven shares of rows, a ring that wraps inside a
  pattern, heads that do not divide channels, operator precedence, columns that
  are left over after 32 or 64 at a time, sums of bytes that could saturate,
  ties between logits, a hash table that wraps.
* **Short cuts that must agree with the plain definition.**  The sampler avoids
  sorting in three ways, the kernels permute columns and fold an offset in and
  out, the tokenizer looks words up by hash.

## 2. Modules

| Module | Models | Abstract specification it implements |
|---|---|---|
| `ThreadPool` (+ `ThreadPoolProofs`) | the pool | `ForkJoin` |
| `NumaPlan`, `Barrier` (+ `BarrierProofs`) | placement, barrier | `RoundBarrier` |
| `WorkRange` (+ `WorkRangeProofs`) | shares and chunks | |
| `FusedBlock` (+ `FusedBlockProofs`) | a block step, fused over the concrete `Barrier` or unfused | |
| `ConvRing` (+ `PrefillProofs`) | ring and scan, for tokens and batches, in each kernel | `SlidingWindow` |
| `Ternary` (+ `PrefillProofs`) | one row of a projection in each kernel | the plain product, in `PrefixExact` |
| `Generate` (+ `GenerateProofs`) | one response | `TokenStream` |
| `ChatSession` (+ `ChatSessionProofs`) | several runs of the program on one state file | |
| `Prefill` (+ `PrefillProofs`) | both prefill paths and the GPU calls under them | |
| `Sampler` (+ `GenerateProofs`) | from the logits to a token | sort, cut and draw, in `NaiveMasses` |
| `Arithmetic` | questions answered without the model | an independent reading of the grammar, in `MCText` |
| `Tokenizer` (+ `StartupProofs`) | texts to tokens and back | the pattern and the vocabulary, in its properties |
| `Startup` (+ `StartupProofs`) | from `main`'s first call to its last | |

Each `MC*` module gives constants their values for TLC; nothing of the models
is replaced there.  Two of them join modules: `MCKernels` lets `ConvRing` and
`Ternary` work under the one dispatch table of `dispatch_init`, and `MCText`
builds up what a user types, questions for `Arithmetic` and, with the actions of
`Tokenizer`, texts.

### ThreadPool

`mpc` is where the client is in the API, `wpc[w]` where worker `w` is in
`worker_entry`, `cursor` the index of the client's loops.  Each access to a
shared variable is a step.  `CreatePool`, `Spawn`, `SpawnFail`, `SpawnDone` are
`pool_create`; `ParallelFor`, `WakeWorker`, `SignalWorker`, `MainWork`,
`JoinWorker` are `bm_parallel_for` (`ParallelForInline` its short path); `Free`
to `HaltDone` are `bm_thread_pool_free`; `Claim`, `StartFn`, `FinishFn`,
`ReportDone`, `Exit` are the worker, and `GiveUpSpin`, `Recheck`, `CondWait`,
`SpuriousWakeup` its slow path.  A worker in `mustWait` has re-checked its
mailbox and still holds its mutex.  `fn` and `arg` become the number of the
call that published them; the spin budget becomes a choice.

* `JoinSafe`: after `bm_parallel_for` every active thread has run the task
  exactly once and none is inside it.
* `JobIntegrity`: a worker runs only the job of the dispatch in progress.
* `NoUseAfterFree`: mailboxes and condition variables are released only when no
  worker can reach them.
* `CallsReturn`: every dispatch and every shutdown returns.  This is where a
  lost wake-up would show.
* `ImplementsForkJoin`: to its caller the pool is a fork-join of `n` tasks.

### NumaPlan, Barrier, FusedBlock

`NumaPlan!Plan(cpus, asked, made)` is the placement `pool_create` computes,
recomputed after a partial creation; `PlanCounted` says that a node's barrier
expects exactly the threads that were placed there.  `Barrier` has one step per atomic access
of `bm_barrier_wait`, flat or two-level.  `FusedBlock` composes it with the
four phases of `fused_block_worker`; written elements are counted, values are
not computed.  With the scalar kernel or one thread, `block_step` takes its other
branch: three dispatches, each joined before the next, and the scalar kernel
makes one per column block and adds to its rows.  `block_step_batch` always goes
that way, and each buffer has a place per token: a vector kernel quantises all
tokens and dispatches once, a thread keeping its rows while it goes through the
tokens; the scalar kernel goes token by token.

* `PhaseInputsReady` is the reason for each barrier: the scan reads a finished
  `proj_out`, `y` is quantised when it is complete, and row work reads the
  quantised vector it was dispatched for.  One buffer, `x_quant`, holds the input
  for the first row phase and `y` for the second, and the scale is copied by every
  thread, so too early a copy is as wrong as too early a read.
* `EveryRowOnce`: whoever steals what, no row is computed twice or missed.
* `BlockCallsReturn`: all threads get through the barriers of every call.  The threads
  here neither sleep nor shut down; lost wake-ups are `CallsReturn` of the pool.

### ConvRing

A dispatch scans one token or a batch.  Every thread walks all tokens of its
own channels with a private position, in any interleaving, and `conv_pos` jumps
when the dispatch has returned.  Values are token numbers, so that
`ReadsLastThree` says which inputs a channel convolved.  `HeadsOwnScalars` says
the same of the scalars of a head (`A`, `D`, `dt`), which the scalar kernel looks
up per channel while the vector kernels look them up when a head begins; a share
may begin in the middle of one.  The refinement to
`SlidingWindow` shows that batching and the number of threads are invisible.

### Ternary

A row is multiplied in steps, one per loop iteration of a kernel: groups of four
by two look-ups per packed byte in column blocks (scalar), 32 columns by
`maddubs` with an offset of 128 (AVX2), 64 and 16 columns by `vld4q` (NEON), and
what is left column by column.  Shuffles are modelled as permutations, narrowing
and saturation by what they do.  `kernel`, `entry` say which code runs: the
kernel's `bitlinear_forward`, or its row worker alone, as the fused block and the
replicated LM head use it.  Activations come in quarter steps, which is enough
to have ties, and the scale factors are left out: they are the same for
all columns.

* `QuantNearest`: each activation is rounded to a nearest integer in its own
  column, whatever the narrowing shuffles did.
* `PrefixExact`: after any number of steps the sum is the product of the columns
  passed, and at the end all of them have been passed.

### Generate and ChatSession

`Generate` keeps the code's stop-rule variables; the sampled token is a free
choice among ordinary tokens, newlines, a turn marker and an end token.  In
one-shot mode the loop of `main` takes the same model steps, keeps every token
(`Keep`) and has one stop rule.  The
properties define the rules over the whole text (`OutputClean`, `NoLoopShown`,
`StopsJustified`) and compare.  `TokenStream` says what the model must be fed:
the prompt, then every shown token, each exactly once and in order.

`ChatSession` runs the program several times on one state file.  A layer's
state is the sequence of tokens it has absorbed, so `Lineage` can say that all
layers always hold the same conversation, whatever was cut, lost or damaged.
`ExitIsSaved` says that a clean exit leaves a file which restores the final
state.  The first start may find a damaged file.

### Prefill

A buffer carries the tag `<<call, layer>>` of what was computed into it.
`AbsorbedOnce`: whichever path gives up wherever, each layer has absorbed each
call once.  `AbsorbedReal`: what it absorbed was computed from this call's
tokens through all earlier layers, unless a command buffer or the scratch
buffers of the standalone call failed or the width is not a multiple of 16; in
those cases the code promises only a message.  `NoSelfDeadlock`: the mutex is
free when the standalone call takes it.

### Sampler

Logits are integers, and a candidate at distance `d` below the best has weight
`Expf[d]`, an entry of a table that never grows with the distance and ends where
`expf` underflows, so that sums and comparisons are exact; `min_p` is then a
distance and `top_p` a fraction.  In the run the weight halves with each step
(`Powers`).  The loops of the histogram, the heap and the cut are functions over
their rounds.  `PenaliseNext` is one turn of the penalty's loop
over the history with its bitset, `Temperature` the greedy exit or the scaling.
`KeepTopK` is the path with a small `top_k` (buckets, cut-off, heap), `KeepMinP`
the other one (no sort, partial sort, full sort); `qsort` may leave equal
candidates in any order.  `Filter` and `Draw` are `filter_and_sample`.  The bitset
belongs to the model and outlives the call, so a call begins with whatever marks an
earlier one may have left (`LeftMarks`), and `ForwardPass` clears them.

* `PenalisedOnce`: a token is penalised once, however often it occurs and whatever
  was marked before the call.
* `KeptIsNaive`: what the short cuts keep has the weights a full sort would keep.
* `DrawProportional`: each candidate is drawn by its share of the random
  numbers, and a random number that rounds to 1 still names a candidate.

### Arithmetic and Tokenizer

A question is a sequence of words; numbers are exact fractions, so what is
shown is about structure and not about rounding.  `MCText` builds formulas
and spoken sentences together with their meaning.  `GrammarRespected` compares
the recursive descent with the set of all derivations of the formula;
`Understood` compares the extracted expression with what the speaker meant.  Of
a comparison ("five plus 2 vs 6") it says that an answer names the side that was
meant to be larger, and that there is an answer if all numbers are in digits and
the first word is one, or begins a question phrase.

A question has the length of its words with one blank between two of them, and one
of more than `MaxInputBytes` is not looked at (`chat.c:408` and `805`).  The other caps
follow from that one and are not modelled: the sides of a comparison are shorter
than the whole (`chat.c:846`, `893`), and at most 256 bytes in 32 words never fill the
480 bytes at which the loop over the words stops (`chat.c:496`).  The run's questions
are far shorter; there the cap is translated and not exercised.  A power with a
fractional exponent is one opaque value, none if the base is negative (`chat.c:752`
refuses it), and calculations with it lie beyond the bounds of the runs.  Numbers have
no width.

For the tokenizer a text is a sequence of bytes, typed one by one for one of the
vocabularies (`TextSpec`).  The hash is the code's own FNV-1a, in the run with a
smaller table, so that entries collide and probing runs over the end.
`MatchWord` is `match_gpt2_word`, `Greedy` the longest match inside a word,
`Encode` and `DecodeToBytes` the two directions, with both formats of the
vocabulary file.  Each loop of the code is a function over its rounds
(`DecodeRound`, `GreedyRound`, `EncodeRound`, `Enter`); a round past the end of
the loop changes nothing.  Exclusive or is a parameter (`XorByte`), so that the
proofs do not depend on how a hash comes about.

* `LookupIsFirst`: looking up finds the first token of that spelling, or none.
* `SplitsAsPattern`: words are cut where the pattern quoted in the source cuts.
* `TextSurvives`: decoding the tokens gives the text back; what the caller has no
  room for is cut at the end, and what the vocabulary has no token for is lost.

### Startup

A model file is a map from tensor names to layouts and may be as exported, have
one tensor laid out otherwise, or end at any tensor.  `held` is what the program
has acquired.  `LoadedFits` compares the validation with every access of
`block_step`, the kernels and the forward step; `NothingLeft` is about every way
out; `GpuReady` about a GPU that is half set up, and about its view of the model
file, which must go before the mapping.

## 3. Runs

| Run | Instance | States | Why it is enough |
|---|---|---|---|
| `pool` | 3 threads, 4 calls | 90,002 | two workers can be at different dispatches at once; four calls allow create, dispatch, free, create again |
| `barrier` | up to 4 threads, 3 nodes, 2 rounds | 11,912 | every placement of that size, also after partial creation; the second round reuses the counters of the first |
| `fused_block` | 1 to 3 threads, 1 and 2 nodes, vector and scalar, 3 calls of single tokens and batches of 1 and 2 | 62,690 | uneven rows, more chunks than threads, fewer rows than threads, two column blocks; three calls take `conv_pos` round, single tokens and batches in any order |
| `kernels` | rows of 4, 31, 32, 34, 36, 64, 67 and 100 columns; scans of 6 channels in 2 heads by up to 4 threads, batches to 4, 7 tokens | 65,818 | widths on both sides of every step of every kernel, two column blocks; batches shorter than, equal to and longer than the ring, shares that begin inside a head |
| `generate` | 8 tokens, 4 in one-shot mode, ring of 7, patterns to 3 | 457,338 | the ring wraps inside a pattern and all rules can fire |
| `sampling` | 6 tokens, 4 logits, 2 buckets, a heap of up to 4, 2-bit words | 441,163 | ties at every cut, candidates beyond the last bucket, a heap with two levels below its root, marks in three words, three sets of marks left by an earlier call |
| `chat_session` | 2 layers, 3 tokens, 3 starts | 440,426 | a file can be written, cut, loaded and written again |
| `prefill` | 3 layers, 3 calls | 21,879 | first, inner and last layer are treated differently by the pipeline |
| `text` | formulas to 7 symbols; sentences to about 12 words, with a comparison or without; every byte and texts to 4 of 8 bytes, 3 vocabularies of 265 tokens in 512 slots, room for 3 tokens | 670,661 | `-1^-1^2`, `(1-2)-1`, `1-2-1` and their errors fit; a contraction and what follows it, a space before each kind of word |
| `startup` | 2 layers, 1–5 heads, 3 nodes | 101,732 | every single odd tensor and every cut |

Bounds on behaviour (`MaxCalls`, `MaxTokens`, `MaxOneShot`, `MaxClock`, `MaxStarts`, `Calls`,
`Rounds`, `MaxFormula`, `MaxSentence`, `MaxText`) appear in guards and are named as bounds
where they are declared.  Where the system may stop, its module says so with a
stuttering step (`Terminated`, `Finished`, `Done`, `Over`), and deadlock is checked.

Two runs show where the code and what is written about it differ:

* `fused_block_crowded`: with more threads than CPUs on a machine of several NUMA
  nodes, `threadpool.c:287` caps the count of a node by its CPUs, so the surplus
  threads are in nobody's count, the barrier opens too early, and the scan reads
  rows of `proj_out` that are not written.  `block.c` says of that barrier that
  it ensures the contrary.
* `prefill_scratch`: `metal/bm_metal.c:129` says the caller should fall back to
  the CPU when scratch buffers cannot be allocated; `bm_metal.c:417` zeroes the
  output of a function that returns nothing, and the layers absorb the zeros.

### Differences seen while reading, without a run

* `chat.h:32` calls `newline_limit` a limit on *consecutive* newline tokens;
  `chat.c:1098` adds two for a double newline.
* `chat.h:31`: `repeat_limit` above 6 has no effect on one repeated token, since
  the pattern test with k = 3 (`chat.c:1120`) fires at the sixth; the comment at
  `chat.c:1112` says k starts at 4.
* `chat.c:1076` says a double newline stops the answer; it only counts as two.
* `chat.c:1493` clears the interrupt flag: a SIGTERM during an answer ends the
  answer and is forgotten, although the handler (`chat.c:926`) is for shutdown.
* `chat.c:1296` says the arithmetic exchange is fed to the model; with
  `--no-template` it is not (`chat.c:1306`).
* `threadpool.h:32` says all pool workers wake when a dispatch is capped; only
  the active ones do.  `threadpool.c:279` speaks of a cap in `block_step` that
  is not there.
* `chat.h:42` says a failed `state_load` leaves the state unchanged; it resets
  it once layers have been overwritten.  `Lineage` is stated for what the code
  does.
* `block.c:376` says the batched scan is sequential; it runs in parallel over
  channels.
* `utils.c:136`: a value of `rng_float` can round to 1.0.
* `chat.c:622` puts unary minus into `base`; the code (and `chat.c:664`) gives it
  lower precedence than `^`.  `GrammarRespected` follows the code.
* `chat.c:287` says "and" joins after hundred or thousand; after a thousand
  `cur` is 0, and "two thousand and five times two" is read as 2000 + 5 * 2.
* A leading "minus" in words is skipped (`chat.c:479`), a number after a number
  is appended to its digits, and a question of 33 words loses its last word
  although `chat.c:450` says truncation is refused.  The sentences of
  `MCText` avoid these.
* Behind a question phrase a comparison drops every word up to the first digit,
  parenthesis or minus sign; the comment at `chat.c:870` speaks of adjectives, but
  "what is five plus 2 vs 6" compares 2 with 6.  In `MCText` a number in digits
  follows the phrase.
* `tokenizer.c:135` quotes a pattern with `[^\s\w]`, which excludes the underscore;
  the code takes it for punctuation.  `SplitsAsPattern` follows the code.
* `dispatch.h:83` and `block.c:303` call the chunk size a multiple of 8; it is at
  least 8 and otherwise rows divided by threads.  No kernel needs the multiple.
* AVX2 rounds exact ties to even in blocks of 32 and away from zero in the rest,
  NEON and scalar away from zero throughout; results of the kernels may differ by
  one there.  `QuantNearest` allows both.
* The NEON row worker does not compute the last `cols % 4` columns, which
  `bitlinear_forward` and its batched form add afterwards; the exporter writes no such
  width, and the loader does not refuse it.  `PrefixExact` states the difference.
* With a small `top_k` the sampler cuts to it first and takes `top_p` of what is
  left; with a large one it is the other way round.  `KeptIsNaive` follows the code.
* `metal/bm_metal.c:926`: a failed command buffer, or a width that is no multiple
  of 16, is only reported.  `AbsorbedReal` excludes both.

## 4. Fairness

`ThreadPool`: weak fairness of the client and of each worker, that is, the
operating system runs every thread that can run.  Strong fairness of the two
steps that take a worker's mutex (`SignalWorker`, `HaltSignal`): a worker may
wake spuriously again and again and take its mutex each time, and a mutex is
assumed not to starve the client for ever.  `Barrier` and `FusedBlock`: weak
fairness per thread.  A spinning thread that sees no change takes no step.  The
other modules state no fairness and no liveness; a chat session need not go on.

The memory model is sequentially consistent.  Hand-over between threads goes
through acquire and release pairs on generations and phases, and the relaxed
accesses (`shutdown`, spin counters) are only read after such a pair or under
the mutex.

## 5. Proofs

`ThreadPoolProofs` proves, for any `MaxThreads` and `MaxCalls` (`BoundsAssumption`:
the first is a positive natural number, the second a natural number):

* `TypeCorrect`, `Invariance`: `Spec => []TypeOK`, `Spec => [](TypeOK /\ IInv)`;
* `PoolJoinSafe`, `PoolJobIntegrity`, `PoolNoUseAfterFree`;
* `PoolImplementsForkJoin`: `Spec => ImplementsForkJoin`.

None of the three safety properties is inductive: whether a worker can still run
an old job depends on where it is relative to the generations.  `IInv` adds that.
`ClientInv` says what holds at each place of the client (which workers it has
woken, when the pool exists, when it is being shut down).  `RanInv` says who has
run the current job, in terms of `doneGen`.  `WorkerInv(w)` orders the
generations of a mailbox, `doneGen[w] <= wakeGen[w] <= curGen`; says that a
mailbox with news carries the current generation and that its worker has not run
yet; that a worker inside the task holds the published job while the client is
still dispatching; that a mailbox which has reported the current generation means
the task has run; and bounds where a worker can be by how far the client's loop
has come.  `IInv` is also an invariant of the
run `pool`.  The proof goes conjunct by conjunct and action by action
(`ClientInvStep`, `RanInvStep`, `WorkerInvParallelFor`, `WorkerInvStep`).  The
refinement maps the publication of a job to `Begin`, `FinishFn` and `MainWork` to
`Exec`, the end of the join to `Return`; every other step stutters
(`OpenIsBegin`, `FinishIsExec`, `JoinIsReturn`).

`WorkRangeProofs` proves, for every number of threads and tasks, that the shares
of `bm_work_range` are disjoint (`SharesDisjoint`) and leave nothing out
(`SharesCover`), and that the chunks of work stealing partition the rows
(`ChunksPartition`).  Both rest on one closed form of a share, `t * base +
min(t, extra)` (`RangeForm`), and on division with remainder.  The module also
proves what the library states with operator parameters, which no installed
prover can instantiate, in a form with sets: `SetInduction` (a set of naturals
that contains 0 and each successor is `Nat`), `LeastNumber`, and `Recursion`
(a function with a first value and a step function exists), and for loops with a
last round `IntervalInduction` and `LoopExists`.  With these the
recursive functions of the models (`Offset` and `Capacity` of the placement,
`ScalarHeads`, the joining of sequences, the loops of the sampler and of the
tokenizer) can be reasoned
about.  `OrderExists` (a finite set with a total preorder can be listed in order)
and `SumReindex` (a sum over a list does not depend on its order) are about
sorting.

Every invariant below is proved in the same way: `Init => IInv`, `IInv /\
[Next]_vars => IInv'` with one step per action, `IInv` implies the property.

**Barrier** (`BarrierProofs`).  `BarrierPlanCounted`, `BarrierInvariant`,
`BarrierIsRoundBarrier`.  A counter alone says nothing about who has arrived, so
`IInv` ties counts and phases to the rounds of the threads: a thread is at most
one round behind the phase of its node and a node at most one behind the global
phase, which then has a leader on its way out (`LocalInv`, `LeaderInv`); a
counter is the number of threads inside, or 0 from the leader's reset on
(`CountInv`, `GlobalCountInv`).  Under this `IInv` the step that leaves a round
finds everybody in it, which is the refinement.  The theorems assume
`\A p \in Plans : PlanFits(p)`: the plans are those that `pool_create` computes,
after complete or partial creation, for machines with a CPU for every thread
asked for, or with one node.  This is not a convenience: without it the barrier
counts wrongly, as the run `fused_block_crowded` shows.  That such plans are
counted rightly is proved by induction over the nodes (`Placement`).

**Fused block** (`FusedBlockProofs`).  `FusedInvariant`, `FusedInputsReady`,
`FusedEveryRowOnce`, for every number of threads, size of the layer, chunk size and
batch, under the same hypothesis.  The barrier's invariant is taken over from
`BarrierProofs` (its steps are steps of the block with the same variables).  What
is added per phase is the work still to do: the share or the chunk of each
thread that has not finished, and the chunks nobody has taken (`ChunkInv`); an
element is written once exactly when it is in none of them (`WorkInv`).
`OrderInv` says that nobody begins a round before all have finished the one
before, `QuantInv` what the one quantised vector holds meanwhile.  On the unfused
path `DispatchInv` and the invariants next to it say the same of one dispatch, its
token and its column block.

**Prefill, ring and rows** (`PrefillProofs`).  `PrefillInvariance`,
`PrefillAbsorbedOnce`, `PrefillAbsorbedReal`, `PrefillNoSelfDeadlock`, for every
number of layers and calls.  `ProgressInv` says for each place of the call which layers
have absorbed it, `LockInv` that the mutex is held just on the GPU path, `DataInv`,
when nothing but the batch buffers can fail, what each buffer holds; the rest of a
submitted command buffer belongs to it, since its kernels run while the CPU
waits.  For the scan: `RingInvariant`, `RingReadsLastThree`,
`RingHeadsOwnScalars`, `RingIsSlidingWindow`, for every number of channels,
heads, threads and tokens.  The private position of a thread is the common one
moved by the tokens it has done (`PositionInv`); seen from there, the ring holds the
last three inputs of each of its channels (`WindowInv`), and each channel has one
owner (`OneOwner`, from the shares).  The heads are arithmetic and induction over
the channels of a share (`ScalarHeadsRight`, `SegmentStartsRight`).

For the rows of the projections: `RowsInvariant`, `RowsPrefixExact`,
`RowsQuantNearest`, for every width, all rows of codes and activations, and every
block size.  `TernaryInv` says that the sum is that of the columns passed, that
tables, once made, are those of the next columns, and that groups of four are not
cut before the tail.  What a step adds is a lemma for each kernel: `LutDotIs` (an
entry of a table is the sum of the activations its mask names), `Avx2Is`, with
`DeinterleavedPlace` (where the two shuffles bring a column), `ShiftDecodes` and
`PairDotIs` (nothing saturates and the offset cancels), and `NeonIs`.
`NarrowingInOrder` shows that the quantiser's packing is undone by its last
permutation.  The models sum with an operator whose order of summation is a
choice; that the order does not matter, and that sums can be split and grouped, is
proved in `WorkRangeProofs` (`SumSplit`, `SumJoin`, `SumGroups`).
`TernaryAssumption` gives the types of widths and rows: codes have two bits, and
scaled activations at most 127 in magnitude, which is what the scale is for.

**Response generation** (`GenerateProofs`).  `GenerateInvariant`,
`GenerateNoLoopShown`, `GenerateStopsJustified`, `GenerateOutputClean`,
`GenerateIsTokenStream`, for every token set, ring size, pattern bound and limit.  The
detectors are incremental, the properties speak of the whole text, and `IInv` is
the bridge: `rcount` is the length of the last run, `para` the newlines of the
whole text, and the ring holds token `i` at `i` modulo its size for the newest
tokens.  `ParametersAssumption` demands of the constants what the code has: the ring
is at least twice the longest pattern, both newline tokens differ.

**Sampler** (also `GenerateProofs`).  `SamplerInvariant`, `PenaltyAppliedOnce`,
`ShortcutsLoseNothing`, `DrawnByWeight`, for every vocabulary, every vector of
logits, every set of marks left by earlier calls and every argument of the right type
(`InputsAssumption`), every word size of
the bitset, every number and width of buckets and both limits of the short cuts
(`SamplerAssumption`), and every table of weights that never grows with the
distance (`ExpfAssumption`).  The properties speak of the last steps only, and
`SamplerInv` carries what they need through the earlier ones:

* `PenaltyInv`: once the loop runs, the marked bits are the tokens it has seen, and the
  marked tokens, no others, have lost the penalty.  A token and its word and bit
  determine each other by division with remainder.
* `MaxInv`: `maxLogit` is the largest scaled logit, so that the weights are those
  of the definition.
* `FilterInv`: the candidates handed to the filter are `Ranked`.  They are all
  those eligible, or the best `top_k` of them, or a sorted beginning which reaches
  `top_p`, and they are sorted whenever the filter is going to cut.  `KeptIsNaive` is
  not inductive without this: from the candidates alone one cannot tell what has
  been left out.
* `DrawInv`: what is left has the masses of the plain definition.

That the histogram path gives ranked candidates is the longest part.  `CutoffIs`:
the bucket it stops at has at least `top_k` candidates in it and above it, so that no
candidate among the best `top_k` is in a lower one.  `SiftDownSinks` repairs a heap with
one bad place, `BuildHeapIs` builds one, and `HeapKeepsLargest` says that after any
number of candidates the heap holds the largest of those offered, whatever their
order and their ties.  The comparison with the definition goes through the weight
of the n-th candidate (`NthWeightIs`, `RankedIsFirst`, `CutIsLast`), which no
choice among equals changes, and the draw through prefix sums (`PickIs`): the
random numbers that fall between two of them are as many as the candidate's
weight.

**Chat session** (`ChatSessionProofs`).  `SessionInvariant`, `SessionTypes`,
`SessionLineage`, `SessionHistory`, `SessionExit`, for every number of layers, starts
and turns and every history size.  `StateInv` says that the layers are equal and hold
what the turns so far may have left, `FileInv` that a file with a good header is
the damaged one of the first start or a beginning of layers of one conversation, also while
it is being written, `LoadInv` how far a load has come, `HistInv` that the
history is the newest end of what was told since the last reset.

**Tokenizer** (in `StartupProofs`).  `LookupFindsFirst`, `SplitAsPattern`,
`SurvivesAsTold`: `TextSpec => []P` for the three properties, for every size of table
and every hash, every vocabulary in either format with a space as token 220 that
leaves a slot of the table free (`FilesAssumption`; 50257 tokens in 2^17 slots), and
texts of any length without zero bytes.  The state is a text and so its invariant
(`TextTyped`) is plain; the content is in the functions.

* The table.  `Tabled`, kept by every token entered (`TokenEntered`): no token is in
  two slots, and from the hash of each token on, up to its slot, there are only
  tokens entered before it.  A slot is free by counting (`SlotFree`), so probing
  ends, with the first of equal tokens, or at a free slot if there is none
  (`LookupFinds`).
* The encoding.  The first byte of a code tells its length and no first byte is a
  second one (`CodeTells`), so whatever is found in the code of a word begins and
  ends where bytes of the word do, even if greedy matching resumes in the middle of a
  code after skipping a byte (`CodeMatches`, `TokenInWord`).  Different texts have
  different codes (`CodedApart`), and decoding a code gives the text (`SpellingRead`).
* The words.  `WordMatched`: the code tries in turn what the pattern lists, and a run
  is the longest of its class; a word is never empty, so the outer loop advances.
* The way back.  `Shows(name, back, s, a, n)`: `back` is bytes `a + 1 .. n` of `s` in
  their order, without some that have no token.  Parts can be joined (`ShowsJoin`).
  `Kept` says that the tokens of a word so far show its beginning, up to where the
  loop is or, past a first byte without a token, one byte further; a round keeps it
  (`GreedyStep`).  `Told` is the same of the whole text and adds that nothing is
  missing while there is room (`EncodeRoundKeeps`).

**Startup** (`StartupProofs`).  `StartupInvariant`, `StartupNothingLeft`,
`StartupGpuReady`, `StartupLoadedFits`.  For each program point `MayHold` says
what can have been acquired; what each way out releases is compared with it.  Past
the loader the file is as validated, and validation bounds every access: that is
arithmetic about rows, heads and taps for arbitrary positive dimensions.

The bounds of section 3 (`MaxCalls`, `MaxTokens`, ...) are arbitrary in all these
theorems.  `BarrierInvariant`, `FusedInvariant`, `SamplerInvariant` and the like are not
themselves checked by runs that are kept; their consequences are.

Model-checked only:

* liveness under fairness, `CallsReturn`, `Completes` and `BlockCallsReturn`, which is beyond the
  prover;
* `GrammarRespected` and `Understood` of `Arithmetic`: the descent and the grammar
  it is compared with are mutually recursive operators, which the prover does not
  accept, and what they say is induction over the recursion.

## 6. Not modelled

* The export script and the build: they do not run with the program.
* CPU pinning, reading `/sys`, argument parsing, logging, profiling, the line
  editor: input and output.
* Floating-point values: RMS normalisation, the recurrence of the scan, the
  vectorised `exp`, and the shaders.  Where the models compute, they compute
  integers or fractions; elsewhere they say which elements are written and read.
* The 64-bit generator behind `rng_float`, timing and statistics.
* The prompt template and the formatting of numbers.
* Concurrent use of the pool by two clients: the header demands a single caller.

## 7. Plan

Modelled and checked, in the order of importance in which it was done:
`ThreadPool` with its proofs, `Barrier`, `FusedBlock` (fused, unfused, batched),
`ConvRing`, `Generate` (chat and one-shot), `ChatSession`, `Prefill`, `Arithmetic`
(formulas and comparisons), `Startup`, `Sampler`, `Ternary`, `Tokenizer`.

Proved: all safety properties and refinements of `ThreadPool`, `Barrier`,
`FusedBlock`, `ConvRing`, `Ternary`, `Prefill`, `Generate`, `Sampler`, `ChatSession`,
`Startup` and `Tokenizer`; that is, all but those of `Arithmetic`.

Left to prove: `Arithmetic`, if its descent can be written without recursive operators.
