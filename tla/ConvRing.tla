------------------------------ MODULE ConvRing ------------------------------
(***************************************************************************)
(* The convolution ring of one block (src/src/block.c): conv_state holds   *)
(* three taps per channel and conv_pos names the oldest.  A dispatch scans *)
(* one token (ssm_scan_token) or a batch (ssm_batch_worker), every thread  *)
(* looping over the tokens of its own channels with a private position;    *)
(* conv_pos moves when the dispatch has returned.                          *)
(*                                                                         *)
(* HeadDim channels form a head and share scalars computed from the token  *)
(* (decay, B dt, C).  A thread's channels may start in the middle of a     *)
(* head, and each ssm_inner kernel has its own way of keeping them.        *)
(***************************************************************************)
EXTENDS Integers, Sequences

CONSTANTS
  DInner,      \* number of channels, d_inner
  HeadDim,     \* channels of a head, head_dim
  MaxThreads,  \* threads a dispatch may use
  MaxBatch,    \* bound: tokens of one batch
  MaxTokens    \* bound: tokens absorbed between resets

ASSUME SizesAssumption ==
  /\ HeadDim \in Nat \ {0}
  /\ DInner \in Nat \ {0} /\ MaxThreads \in Nat \ {0}
  /\ MaxBatch \in Nat /\ MaxTokens \in Nat

VARIABLES
  conv,   \* b->conv_state, by tap and channel
  pos,    \* b->conv_pos
  fed,    \* history: tokens absorbed before the open dispatch
  n,      \* tokens of the open dispatch, 0 when there is none
  k,      \* its threads (n_active)
  tok,    \* the token each thread is at in its loop
  lpos,   \* and its local position
  seen,   \* history: the three taps and the input each channel last convolved
  kernel, \* g_kernels.ssm_inner
  used    \* history: head and input of the scalars each channel last used

vars == <<conv, pos, fed, n, k, tok, lpos, seen, kernel, used>>

W == INSTANCE WorkRange

Channels == 0 .. DInner - 1
Tids     == 0 .. MaxThreads - 1
Taps     == 3  \* d_conv - 1

\* (pos + i) wrapped by one conditional subtraction, as the code writes it.
Tap(p, i) == IF p + i < Taps THEN p + i ELSE p + i - Taps

Share(t) == W!TaskRange(t, k, DInner)

-----------------------------------------------------------------------------
(* The heads whose scalars a kernel uses for the channels from .. to - 1.  *)

HeadOf(c) == c \div HeadDim

\* scalar_ssm_inner: recomputed when the head differs from the previous one.
ScalarHeads(from, to) ==
  LET head[c \in from .. to - 1] ==
        IF c = from \/ head[c - 1] # HeadOf(c) THEN HeadOf(c) ELSE head[c - 1]
  IN  head

\* Mutant: a segment is a head long wherever it starts.
SegmentEndFromStart(idx, to) == IF idx + HeadDim > to THEN to ELSE idx + HeadDim

\* The vector kernels go from segment to segment, each ending with its head
\* or with the thread's channels.
SegmentEnd(idx, to) ==
  LET headEnd == (HeadOf(idx) + 1) * HeadDim
  IN  IF headEnd > to THEN to ELSE headEnd

SegmentStarts(from, to) ==
  LET start[c \in from .. to - 1] ==
        IF c = from \/ c = SegmentEnd(start[c - 1], to) THEN c ELSE start[c - 1]
  IN  start

\* avx2_ssm_inner and neon_ssm_inner: computed at the start of a segment.
SegmentHeads(from, to) ==
  LET start == SegmentStarts(from, to)
  IN  [c \in from .. to - 1 |-> HeadOf(start[c])]

\* neon_ssm_inner with Accelerate: tables of all heads touched, computed up
\* front and indexed from the first.
AccelerateHeads(from, to) ==
  LET first == HeadOf(from)
      nh    == HeadOf(to - 1) + 1 - first
      table == [i \in 0 .. nh - 1 |-> first + i]
      start == SegmentStarts(from, to)
  IN  [c \in from .. to - 1 |-> table[HeadOf(start[c]) - first]]

HeadsUsed(t) ==
  LET from == W!RangeStart(t, k, DInner)
      to   == W!RangeEnd(t, k, DInner)
  IN  CASE kernel = "scalar"     -> ScalarHeads(from, to)
        [] kernel = "vector"     -> SegmentHeads(from, to)
        [] kernel = "accelerate" -> AccelerateHeads(from, to)

-----------------------------------------------------------------------------

Init ==
  /\ conv = [i \in 0 .. Taps - 1 |-> [c \in Channels |-> 0]]
  /\ pos = 0 /\ fed = 0
  /\ n = 0 /\ k = 1
  /\ tok = [t \in Tids |-> 0]
  /\ lpos = [t \in Tids |-> 0]
  /\ seen = [c \in Channels |-> <<0, 0, 0, 0>>]
  /\ kernel \in {"scalar", "vector", "accelerate"}
  /\ used = [c \in Channels |-> <<HeadOf(c), 0>>]

\* A dispatch opens over m tokens with j threads: bm_parallel_for never uses
\* more threads than the d_inner tasks it is given, and the inline path is
\* j = 1.
Dispatch(m, j) ==
  /\ n = 0 /\ fed + m <= MaxTokens
  /\ j <= DInner
  /\ n' = m /\ k' = j
  /\ tok' = [t \in Tids |-> 0]
  /\ lpos' = [t \in Tids |-> pos]
  /\ UNCHANGED <<conv, pos, fed, seen, kernel, used>>

\* A thread runs the kernel for its next token on its channels: read the
\* taps, overwrite the oldest, and move its own position.
ScanToken(t) ==
  LET input == fed + tok[t] + 1
      p     == lpos[t]
  IN  /\ t < k /\ tok[t] < n
      /\ used' = [c \in Channels |->
                    IF c \in Share(t) THEN <<HeadsUsed(t)[c], input>>
                    ELSE used[c]]
      /\ seen' = [c \in Channels |->
                    IF c \in Share(t)
                    THEN <<conv[p][c], conv[Tap(p, 1)][c], conv[Tap(p, 2)][c],
                           input>>
                    ELSE seen[c]]
      /\ conv' = [conv EXCEPT ![p] =
                    [c \in Channels |-> IF c \in Share(t) THEN input ELSE @[c]]]
      /\ tok' = [tok EXCEPT ![t] = @ + 1]
      /\ lpos' = [lpos EXCEPT ![t] = Tap(@, 1)]
      /\ UNCHANGED <<pos, fed, n, k, kernel>>

\* Mutant: the batch advances the position like a single token.
ReturnByOne ==
  /\ n > 0 /\ \A t \in 0 .. k - 1 : tok[t] = n
  /\ pos' = Tap(pos, 1)
  /\ fed' = fed + n /\ n' = 0
  /\ UNCHANGED <<conv, k, tok, lpos, seen, kernel, used>>

\* The dispatch has returned: one token moves conv_pos by one, a batch by its
\* length modulo the ring's.
Return ==
  /\ n > 0 /\ \A t \in 0 .. k - 1 : tok[t] = n
  /\ pos' = (pos + n) % Taps
  /\ fed' = fed + n /\ n' = 0
  /\ UNCHANGED <<conv, k, tok, lpos, seen, kernel, used>>

\* Mutant: the taps keep the old conversation.
ResetPosOnly ==
  /\ n = 0
  /\ pos' = 0 /\ fed' = 0
  /\ seen' = [c \in Channels |-> <<0, 0, 0, 0>>]
  /\ used' = [c \in Channels |-> <<HeadOf(c), 0>>]
  /\ UNCHANGED <<conv, n, k, tok, lpos, kernel>>

\* state_reset, between dispatches.
Reset ==
  /\ n = 0
  /\ conv' = [i \in 0 .. Taps - 1 |-> [c \in Channels |-> 0]]
  /\ pos' = 0 /\ fed' = 0
  /\ seen' = [c \in Channels |-> <<0, 0, 0, 0>>]
  /\ used' = [c \in Channels |-> <<HeadOf(c), 0>>]
  /\ UNCHANGED <<n, k, tok, lpos, kernel>>

Next ==
  \/ \E m \in 1 .. MaxBatch, j \in 1 .. MaxThreads : Dispatch(m, j)
  \/ \E t \in Tids : ScanToken(t)
  \/ Return \/ Reset

Spec == Init /\ [][Next]_vars

-----------------------------------------------------------------------------
\* The thread that owns a channel in the open dispatch.
Owner(c) == CHOOSE t \in 0 .. k - 1 : c \in Share(t)

Absorbed(c) == fed + IF n > 0 THEN tok[Owner(c)] ELSE 0
Oldest(c)   == IF n > 0 THEN lpos[Owner(c)] ELSE pos

\* Whatever the other threads have done, a channel is convolved with exactly
\* the three inputs before the current one, oldest first: the taps are never
\* taken in the wrong order, skipped or shared between tokens.
ReadsLastThree ==
  \A c \in Channels : LET d == Absorbed(c)
                          old(i) == IF d > i THEN d - i ELSE 0
                      IN  seen[c] = <<old(3), old(2), old(1), old(0)>>

\* A channel's state is updated with the scalars of its own head and of the
\* current token, also where a thread starts in the middle of a head or a
\* kernel goes on from one head to the next.
HeadsOwnScalars ==
  \A c \in Channels : used[c] = <<HeadOf(c), Absorbed(c)>>

\* The ring, read from each channel's current position, is a sliding window
\* over its inputs; batches of any size with any number of threads leave the
\* state that absorbing the tokens one by one leaves.
SW == INSTANCE SlidingWindow WITH
        window <- [c \in Channels |->
                     LET p == Oldest(c)
                     IN <<conv[p][c], conv[Tap(p, 1)][c], conv[Tap(p, 2)][c]>>],
        count  <- [c \in Channels |-> Absorbed(c)]

ImplementsSlidingWindow == SW!Spec
=============================================================================
