------------------------------ MODULE Prefill -------------------------------
(***************************************************************************)
(* Prefill of a batch of tokens (model_prefill and model_prefill_metal in  *)
(* src/src/model.c, block_step_batch in src/src/block.c, the batch and the *)
(* standalone calls of src/src/metal/bm_metal.c): the pipelined GPU path,  *)
(* its fall back to the layer-by-layer path, whose projections again go to *)
(* the GPU, and the failures the code handles.  A buffer holds the tag     *)
(* <<call, layer>> of what has been computed into it, or Junk.             *)
(***************************************************************************)
EXTENDS Integers, Sequences

CONSTANTS
  NLayers,  \* config.n_layers
  MaxCalls  \* bound: prefill calls

ASSUME LayersAssumption == NLayers \in Nat \ {0} /\ MaxCalls \in Nat

Layer == 1 .. NLayers
Junk  == <<0, 0>>

VARIABLES
  useGpu,    \* m->use_gpu, fixed by model_load
  aligned,   \* d_model is a multiple of 16
  faults,    \* what may fail: the allocation of a batch's buffers, that of
             \* the standalone call's scratch buffers, a command buffer
  pc,        \* where the call is: "idle", on the GPU "begin", "prologue",
             \* "wait", "scan", "encode", on the CPU "embed", "in_proj",
             \* "step_scan", "out_proj", "residual"
  calls,     \* history: prefill calls so far, the current one included
  many,      \* n_tokens >= 2
  lock,      \* g_metal_mutex is held
  layer,     \* i
  cmds,      \* kernels encoded in ctx->cmd_buf, with their layer
  x, proj, y, out,  \* x_batch, proj_batch, y_batch, out_batch
  absorbed   \* history: the calls each layer's state has absorbed, 0 for junk

buffers == <<x, proj, y, out>>
prefillVars == <<useGpu, aligned, faults, pc, calls, many, lock, layer, cmds,
                 buffers, absorbed>>

\* What model_load leaves: the GPU works and the weights are mapped, or it is
\* not used at all.
PrefillInit ==
  /\ useGpu \in BOOLEAN /\ aligned \in BOOLEAN
  /\ faults \in SUBSET {"batch", "scratch", "command"}
  /\ pc = "idle" /\ calls = 0 /\ many = FALSE /\ lock = FALSE
  /\ layer = 1 /\ cmds = <<>>
  /\ x = Junk /\ proj = Junk /\ y = Junk /\ out = Junk
  /\ absorbed = [l \in Layer |-> <<>>]

\* The tag of a right result of layer l of this call, if the source was right.
Made(ok, l) == IF ok THEN <<calls, l>> ELSE Junk

InProj(l)   == Made(x = <<calls, l - 1>>, l)
OutProj(l)  == Made(y = <<calls, l>>, l)
Residual(l) == Made(x = <<calls, l - 1>> /\ out = <<calls, l>>, l)

\* The scan of one layer over all tokens of the batch.
Scan(l) ==
  /\ absorbed' = [absorbed EXCEPT ![l] =
                    Append(@, IF proj = <<calls, l>> THEN calls ELSE 0)]
  /\ y' = Made(proj = <<calls, l>>, l)
  /\ UNCHANGED <<x, proj, out>>

Call ==
  /\ pc = "idle" /\ calls < MaxCalls
  /\ calls' = calls + 1 /\ many' \in BOOLEAN
  /\ pc' = IF useGpu /\ many' THEN "begin" ELSE "embed"
  /\ layer' = 1
  /\ UNCHANGED <<useGpu, aligned, faults, lock, cmds, buffers,
                 absorbed>>

-----------------------------------------------------------------------------
(* model_prefill_metal *)

\* Mutant: the failing path keeps the mutex.
BatchBeginKeepsLock ==
  /\ pc = "begin" /\ ~lock
  /\ lock' = TRUE
  /\ \/ /\ pc' = "prologue"
        /\ x' = <<calls, 0>> /\ proj' = Junk /\ y' = Junk /\ out' = Junk
     \/ "batch" \in faults /\ pc' = "embed" /\ UNCHANGED buffers
  /\ UNCHANGED <<useGpu, aligned, faults, calls, many, layer, cmds, absorbed>>

\* bm_metal_batch_begin takes the mutex and allocates the buffers, into which
\* the tokens are embedded; if that fails it gives the mutex back.
BatchBegin ==
  /\ pc = "begin" /\ ~lock
  /\ \/ /\ lock' = TRUE /\ pc' = "prologue"
        /\ x' = <<calls, 0>> /\ proj' = Junk /\ y' = Junk /\ out' = Junk
     \/ /\ "batch" \in faults
        /\ pc' = "embed" /\ UNCHANGED <<lock, buffers>>
  /\ UNCHANGED <<useGpu, aligned, faults, calls, many, layer, cmds, absorbed>>

\* The first in_proj; the encoder refuses a width it cannot read.
Prologue ==
  /\ pc = "prologue"
  /\ IF aligned THEN pc' = "wait" /\ cmds' = <<<<"in", 1>>>> /\ UNCHANGED lock
                ELSE pc' = "embed" /\ lock' = FALSE /\ UNCHANGED cmds
  /\ UNCHANGED <<useGpu, aligned, faults, calls, many, layer, buffers,
                 absorbed>>

\* The GPU runs the next kernel of the submitted buffer while the CPU waits.
Kernel ==
  /\ pc = "wait" /\ cmds # <<>>
  /\ LET what == cmds[1][1]
         l    == cmds[1][2]
     IN  /\ proj' = IF what = "in" THEN InProj(l) ELSE proj
         /\ out'  = IF what = "out" THEN OutProj(l) ELSE out
         /\ x'    = IF what = "residual" THEN Residual(l) ELSE x
  /\ cmds' = Tail(cmds)
  /\ UNCHANGED <<useGpu, aligned, faults, pc, calls, many, lock, layer, y, absorbed>>

\* The command buffer fails: the rest of it does not run, which is reported.
CommandError ==
  /\ pc = "wait" /\ cmds # <<>> /\ "command" \in faults
  /\ cmds' = <<>>
  /\ UNCHANGED <<useGpu, aligned, faults, pc, calls, many, lock, layer, buffers,
                 absorbed>>

\* Mutant: the finished GPU path reports failure.
SubmittedFalse ==
  /\ pc = "wait" /\ cmds = <<>>
  /\ IF layer <= NLayers THEN pc' = "scan" /\ UNCHANGED lock
                         ELSE pc' = "embed" /\ lock' = FALSE
  /\ UNCHANGED <<useGpu, aligned, faults, calls, many, layer, cmds, buffers,
                 absorbed>>

\* waitUntilCompleted returns: the next layer, or bm_metal_batch_end.
Submitted ==
  /\ pc = "wait" /\ cmds = <<>>
  /\ IF layer <= NLayers THEN pc' = "scan" /\ UNCHANGED lock
                         ELSE pc' = "idle" /\ lock' = FALSE
  /\ UNCHANGED <<useGpu, aligned, faults, calls, many, layer, cmds, buffers,
                 absorbed>>

ScanGpu ==
  /\ pc = "scan" /\ pc' = "encode"
  /\ Scan(layer)
  /\ UNCHANGED <<useGpu, aligned, faults, calls, many, lock, layer, cmds>>

\* Mutant: the next in_proj is encoded before the residual it reads.
EncodeEarly ==
  /\ pc = "encode" /\ pc' = "wait"
  /\ cmds' = <<<<"out", layer>>>>
             \o (IF layer < NLayers THEN <<<<"in", layer + 1>>>> ELSE <<>>)
             \o <<<<"residual", layer>>>>
  /\ layer' = layer + 1
  /\ UNCHANGED <<useGpu, aligned, faults, calls, many, lock, buffers,
                 absorbed>>

\* out_proj and residual of this layer and in_proj of the next in one buffer;
\* the encoder accepts what it has accepted for the first layer, since all
\* layers have the same shapes.
Encode ==
  /\ pc = "encode" /\ pc' = "wait"
  /\ cmds' = <<<<"out", layer>>, <<"residual", layer>>>>
             \o IF layer < NLayers THEN <<<<"in", layer + 1>>>> ELSE <<>>
  /\ layer' = layer + 1
  /\ UNCHANGED <<useGpu, aligned, faults, calls, many, lock, buffers,
                 absorbed>>

-----------------------------------------------------------------------------
(* The layer-by-layer path *)

Embed ==
  /\ pc = "embed" /\ pc' = "in_proj"
  /\ x' = <<calls, 0>> /\ UNCHANGED <<proj, y, out>>
  /\ layer' = 1
  /\ UNCHANGED <<useGpu, aligned, faults, calls, many, lock, cmds, absorbed>>

Standalone == useGpu /\ many

\* A projection of the right result r into a buffer that holds old.  The
\* standalone GPU call leaves the output alone when it refuses the width, and
\* zeroes it after a failed allocation or command.
Projected(r, old, fits) ==
  IF ~Standalone THEN {r}
  ELSE IF ~fits THEN {old}
  ELSE {r} \cup (IF faults \cap {"scratch", "command"} # {} THEN {Junk} ELSE {})

StepInProj ==
  /\ pc = "in_proj" /\ pc' = "step_scan"
  /\ Standalone => ~lock
  /\ proj' \in Projected(InProj(layer), proj, aligned)
  /\ UNCHANGED <<useGpu, aligned, faults, calls, many, lock, layer, cmds, x, y, out,
                 absorbed>>

StepScan ==
  /\ pc = "step_scan" /\ pc' = "out_proj"
  /\ Scan(layer)
  /\ UNCHANGED <<useGpu, aligned, faults, calls, many, lock, layer, cmds>>

\* d_inner = 2 * d_model may be a multiple of 16 when d_model is not.
StepOutProj ==
  /\ pc = "out_proj" /\ pc' = "residual"
  /\ Standalone => ~lock
  /\ \E fits \in {TRUE, aligned} : out' \in Projected(OutProj(layer), out, fits)
  /\ UNCHANGED <<useGpu, aligned, faults, calls, many, lock, layer, cmds, x, proj, y,
                 absorbed>>

StepResidual ==
  /\ pc = "residual"
  /\ x' = Residual(layer) /\ UNCHANGED <<proj, y, out>>
  /\ IF layer < NLayers THEN pc' = "in_proj" /\ layer' = layer + 1
                        ELSE pc' = "idle" /\ UNCHANGED layer
  /\ UNCHANGED <<useGpu, aligned, faults, calls, many, lock, cmds, absorbed>>

Over == pc = "idle" /\ calls = MaxCalls /\ UNCHANGED prefillVars

PrefillNext ==
  \/ Call
  \/ BatchBegin \/ Prologue \/ Kernel \/ CommandError \/ Submitted
  \/ ScanGpu \/ Encode
  \/ Embed \/ StepInProj \/ StepScan \/ StepOutProj \/ StepResidual
  \/ Over

PrefillSpec == PrefillInit /\ [][PrefillNext]_prefillVars

-----------------------------------------------------------------------------
\* Every call is absorbed by every layer exactly once, whichever path it took
\* and wherever that path was given up.
AbsorbedOnce ==
  /\ \A l \in Layer : Len(absorbed[l]) <= calls
  /\ pc = "idle" => \A l \in Layer : Len(absorbed[l]) = calls

\* What a layer absorbs was computed from this call's tokens by the layers
\* before it: no projection is read before it is written, or from an earlier
\* layer or call, when only the batch buffers can fail to be allocated.
AbsorbedReal ==
  aligned /\ faults \subseteq {"batch"} =>
    \A l \in Layer : \A j \in 1 .. Len(absorbed[l]) : absorbed[l][j] = j

\* The mutex is free whenever a call that takes it is about to be made, and
\* when the prefill has returned.
NoSelfDeadlock ==
  lock => pc \in {"prologue", "wait", "scan", "encode"}

\* bm_metal.h on bm_metal_batch_begin, bm_metal.c on ensure_scratch: when a
\* Metal allocation fails, the computation falls back to the CPU.
FallsBackToCpu ==
  aligned /\ "command" \notin faults =>
    \A l \in Layer : 0 \notin {absorbed[l][j] : j \in DOMAIN absorbed[l]}
=============================================================================
