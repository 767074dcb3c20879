--------------------------- MODULE PrefillProofs ----------------------------
(***************************************************************************)
(* Proofs about prefill and the kernels below it (Prefill, ConvRing and    *)
(* Ternary as MCKernels joins them), for every number of layers and calls, *)
(* channels, heads, threads, tokens and columns: whatever path a prefill   *)
(* takes and wherever it gives one up, each layer absorbs each call once,  *)
(* in order, and from the right input; within a layer the ring is a        *)
(* sliding window over each channel's inputs, with the scalars of the      *)
(* channel's own head in every kernel; and a row of a projection is, in    *)
(* every kernel, the product of its weights and its rounded activations.   *)
(***************************************************************************)
EXTENDS Prefill, MCKernels, WorkRangeProofs, TLAPS

-----------------------------------------------------------------------------
(* Prefill: who has absorbed what, and from which buffers.                 *)

GpuPc == {"prologue", "wait", "scan", "encode"}
CpuPc == {"in_proj", "step_scan", "out_proj", "residual"}

\* The layers that have absorbed the call in progress.
Passed(l) ==
  \/ pc = "idle"
  \/ pc \in {"wait", "scan", "in_proj", "step_scan"} /\ l < layer
  \/ pc \in {"encode", "out_proj", "residual"} /\ l <= layer

PrefillTypes ==
  /\ pc \in {"idle", "begin", "embed"} \cup GpuPc \cup CpuPc
  /\ calls \in 0 .. MaxCalls
  /\ layer \in 1 .. NLayers + 1
  /\ absorbed \in [Layer -> Seq(Nat)]

\* Who has absorbed what, whether or not anything fails.
ProgressInv ==
  /\ pc # "idle" => calls > 0
  /\ pc \in {"scan", "encode"} \cup CpuPc => layer <= NLayers
  /\ pc \in {"begin", "prologue"} => layer = 1
  /\ \A l \in Layer :
       Len(absorbed[l]) = IF Passed(l) THEN calls ELSE calls - 1

\* The mutex is held by the GPU path and by nothing else.
LockInv == lock <=> pc \in GpuPc

\* Nothing fails but the allocation of the batch buffers.
OnlyBatch == aligned /\ faults \subseteq {"batch"}

\* The rest of the submitted command buffer, and what its kernels will read.
First == <<"in", layer>>
Out   == <<"out", layer - 1>>
Res   == <<"residual", layer - 1>>

CommandsInv ==
  IF layer <= NLayers
  THEN \/ cmds = <<>> /\ x = <<calls, layer - 1>> /\ proj = <<calls, layer>>
       \/ cmds = <<First>> /\ x = <<calls, layer - 1>>
       \/ /\ layer > 1 /\ x = <<calls, layer - 2>>
          /\ \/ cmds = <<Res, First>> /\ out = <<calls, layer - 1>>
             \/ cmds = <<Out, Res, First>> /\ y = <<calls, layer - 1>>
  ELSE \/ cmds = <<>>
       \/ /\ x = <<calls, layer - 2>>
          /\ \/ cmds = <<Res>> /\ out = <<calls, layer - 1>>
             \/ cmds = <<Out, Res>> /\ y = <<calls, layer - 1>>

\* What the buffers hold at each place, and what the layers have absorbed.
DataInv ==
  /\ pc = "prologue" => x = <<calls, 0>>
  /\ pc = "wait" => CommandsInv
  /\ pc \in {"scan", "encode"} \cup CpuPc => x = <<calls, layer - 1>>
  /\ pc \in {"scan", "step_scan"} => proj = <<calls, layer>>
  /\ pc \in {"encode", "out_proj"} => y = <<calls, layer>>
  /\ pc = "residual" => out = <<calls, layer>>
  /\ \A l \in Layer : \A j \in 1 .. Len(absorbed[l]) : absorbed[l][j] = j

PrefillInv == PrefillTypes /\ ProgressInv /\ LockInv /\ (OnlyBatch => DataInv)

-----------------------------------------------------------------------------
\* Appending to the conversation of one layer.
LEMMA ScanAppends ==
  ASSUME absorbed \in [Layer -> Seq(Nat)], calls \in Nat, NEW l \in Layer,
         Scan(l)
  PROVE  /\ absorbed' \in [Layer -> Seq(Nat)]
         /\ Len(absorbed'[l]) = Len(absorbed[l]) + 1
         /\ \A i \in Layer \ {l} : absorbed'[i] = absorbed[i]
         /\ \A j \in 1 .. Len(absorbed[l]) : absorbed'[l][j] = absorbed[l][j]
         /\ absorbed'[l][Len(absorbed[l]) + 1]
              = IF proj = <<calls, l>> THEN calls ELSE 0
<1> DEFINE made == IF proj = <<calls, l>> THEN calls ELSE 0
<1>1. made \in Nat
  OBVIOUS
<1>2. absorbed' = [absorbed EXCEPT ![l] = Append(@, made)]
  BY DEF Scan
<1> HIDE DEF made
<1>3. absorbed'[l] = Append(absorbed[l], made) /\ absorbed[l] \in Seq(Nat)
  BY <1>2
<1>4. Append(absorbed[l], made) \in Seq(Nat)
  BY <1>1, <1>3
<1> QED
  BY <1>1, <1>2, <1>3, <1>4 DEF made

LEMMA PrefillStart == PrefillInit => PrefillInv
<1>1. PrefillInit => PrefillTypes /\ ProgressInv /\ DataInv
  BY LayersAssumption
  DEF PrefillInit, PrefillTypes, ProgressInv, DataInv, CommandsInv, Passed,
      GpuPc, CpuPc, Layer
<1>2. PrefillInit => LockInv
  BY Zenon DEF PrefillInit, LockInv, GpuPc
<1> QED
  BY <1>1, <1>2 DEF PrefillInv

LEMMA LockStep ==
  ASSUME LockInv, [PrefillNext]_prefillVars
  PROVE  LockInv'
<1> USE DEF LockInv, GpuPc
<1>1. CASE Call
  <2>1. pc' \in {"begin", "embed"} /\ lock' = lock /\ pc = "idle"
    BY <1>1 DEF Call
  <2> QED
    BY <2>1, Zenon
<1>2. CASE BatchBegin BY <1>2, Zenon DEF BatchBegin
<1>3. CASE Prologue BY <1>3, Zenon DEF Prologue
<1>4. CASE Submitted BY <1>4, Zenon DEF Submitted
<1>5. CASE ScanGpu \/ Encode BY <1>5, Zenon DEF ScanGpu, Encode
<1>6. CASE UNCHANGED <<pc, lock>> BY <1>6, Zenon
<1>7. CASE Embed \/ StepInProj \/ StepScan \/ StepOutProj \/ StepResidual
  <2>1. pc \notin GpuPc /\ pc' \notin GpuPc /\ lock' = lock
    BY <1>7 DEF Embed, StepInProj, StepScan, StepOutProj, StepResidual
  <2> QED
    BY <2>1, Zenon
<1> QED
  BY <1>1, <1>2, <1>3, <1>4, <1>5, <1>6, <1>7
  DEF PrefillNext, Kernel, CommandError, Over, prefillVars

\* A scan takes the call past one more layer.
LEMMA ScanPasses ==
  ASSUME PrefillTypes, ProgressInv, layer \in Layer, calls \in Nat, Scan(layer),
         \/ pc = "scan" /\ pc' = "encode"
         \/ pc = "step_scan" /\ pc' = "out_proj",
         UNCHANGED <<calls, layer>>
  PROVE  PrefillTypes' /\ ProgressInv'
<1> USE DEF GpuPc, CpuPc
<1>1. /\ absorbed' \in [Layer -> Seq(Nat)]
      /\ Len(absorbed'[layer]) = Len(absorbed[layer]) + 1
      /\ \A i \in Layer \ {layer} : absorbed'[i] = absorbed[i]
  BY ScanAppends DEF PrefillTypes
<1>2. PrefillTypes'
  BY <1>1 DEF PrefillTypes
<1>3. ASSUME NEW l \in Layer
      PROVE  Len(absorbed'[l]) = IF Passed(l)' THEN calls' ELSE calls' - 1
  <2>1. ~Passed(layer) /\ Passed(layer)'
    BY LayersAssumption DEF Passed, Layer
  <2>2. l # layer => (Passed(l)' <=> Passed(l))
    BY LayersAssumption DEF Passed, Layer
  <2> QED
    BY <1>1, <2>1, <2>2 DEF ProgressInv
<1> QED
  BY <1>2, <1>3 DEF ProgressInv, PrefillTypes

\* Where the call is and which layers it has passed, action by action.
LEMMA ProgressStep ==
  ASSUME PrefillTypes, ProgressInv, [PrefillNext]_prefillVars
  PROVE  PrefillTypes' /\ ProgressInv'
<1> USE LayersAssumption
    DEF PrefillTypes, ProgressInv, Passed, GpuPc, CpuPc, Layer, buffers
<1>1. CASE Call BY <1>1 DEF Call
<1>2. CASE BatchBegin BY <1>2 DEF BatchBegin
<1>3. CASE Prologue BY <1>3 DEF Prologue
<1>4. CASE Kernel BY <1>4 DEF Kernel
<1>5. CASE CommandError BY <1>5 DEF CommandError
<1>6. CASE Submitted BY <1>6 DEF Submitted
<1>7. CASE ScanGpu
  <2>1. /\ layer \in Layer /\ Scan(layer) /\ calls \in Nat
        /\ pc = "scan" /\ pc' = "encode" /\ UNCHANGED <<calls, layer>>
    BY <1>7 DEF ScanGpu
  <2> QED
    BY <2>1, ScanPasses
<1>8. CASE Encode BY <1>8 DEF Encode
<1>9. CASE Embed BY <1>9 DEF Embed
<1>10. CASE StepInProj BY <1>10 DEF StepInProj
<1>11. CASE StepScan
  <2>1. /\ layer \in Layer /\ Scan(layer) /\ calls \in Nat
        /\ pc = "step_scan" /\ pc' = "out_proj" /\ UNCHANGED <<calls, layer>>
    BY <1>11 DEF StepScan
  <2> QED
    BY <2>1, ScanPasses
<1>12. CASE StepOutProj BY <1>12 DEF StepOutProj
<1>13. CASE StepResidual BY <1>13 DEF StepResidual
<1>14. CASE UNCHANGED prefillVars BY <1>14 DEF prefillVars
<1> QED
  BY <1>1, <1>2, <1>3, <1>4, <1>5, <1>6, <1>7, <1>8, <1>9, <1>10, <1>11,
     <1>12, <1>13, <1>14 DEF PrefillNext, Over

-----------------------------------------------------------------------------
LEMMA ScanData ==
  ASSUME PrefillTypes, ProgressInv, DataInv, layer \in Layer, Scan(layer),
         \/ pc = "scan" /\ pc' = "encode"
         \/ pc = "step_scan" /\ pc' = "out_proj",
         UNCHANGED <<calls, layer>>
  PROVE  DataInv'
<1> USE LayersAssumption DEF GpuPc, CpuPc
<1>1. calls \in Nat /\ proj = <<calls, layer>> /\ x = <<calls, layer - 1>>
  BY DEF DataInv, PrefillTypes
<1>2. x' = x /\ y' = <<calls, layer>>
  BY <1>1 DEF Scan, Made
<1>3. /\ \A i \in Layer \ {layer} : absorbed'[i] = absorbed[i]
      /\ Len(absorbed'[layer]) = Len(absorbed[layer]) + 1
      /\ \A j \in 1 .. Len(absorbed[layer]) :
           absorbed'[layer][j] = absorbed[layer][j]
      /\ absorbed'[layer][Len(absorbed[layer]) + 1] = calls
  BY <1>1, ScanAppends DEF PrefillTypes
<1>4. Len(absorbed[layer]) = calls - 1
  <2>1. ~Passed(layer)
    BY DEF Passed, PrefillTypes, Layer
  <2> QED
    BY <2>1 DEF ProgressInv
<1>5. ASSUME NEW l \in Layer, NEW j \in 1 .. Len(absorbed'[l])
      PROVE  absorbed'[l][j] = j
  <2>1. CASE l # layer
    BY <1>3, <1>5, <2>1 DEF DataInv
  <2>2. CASE l = layer
    BY <1>1, <1>3, <1>4, <1>5, <2>2 DEF DataInv
  <2> QED
    BY <2>1, <2>2
<1> QED
  BY <1>1, <1>2, <1>5 DEF DataInv

\* What the buffers hold, as long as nothing fails but the batch buffers.
LEMMA DataStep ==
  ASSUME PrefillTypes, ProgressInv, OnlyBatch, DataInv, [PrefillNext]_prefillVars
  PROVE  DataInv'
<1> USE LayersAssumption
    DEF PrefillTypes, ProgressInv, Passed, GpuPc, CpuPc, Layer, buffers,
        DataInv, OnlyBatch
<1>1. CASE Call BY <1>1 DEF Call
<1>2. CASE BatchBegin BY <1>2 DEF BatchBegin
<1>3. CASE Prologue
  BY <1>3 DEF Prologue, CommandsInv, First, Out, Res
<1>4. CASE Kernel
  <2>1. /\ pc = "wait" /\ CommandsInv /\ cmds # <<>>
        /\ UNCHANGED <<pc, calls, layer, y, absorbed>>
    BY <1>4 DEF Kernel
  <2> SUFFICES CommandsInv'
    BY <2>1
  <2>2. CASE layer <= NLayers /\ cmds = <<First>>
    <3>1. cmds[1] = First /\ Tail(cmds) = <<>>
      BY <2>2
    <3>2. cmds' = <<>> /\ x' = x /\ proj' = InProj(layer)
      BY <1>4, <3>1 DEF Kernel, First
    <3> QED
      BY <2>1, <2>2, <3>2 DEF CommandsInv, InProj, Made, First, Out, Res
  <2>3. CASE \/ layer <= NLayers /\ cmds = <<Res, First>>
             \/ ~(layer <= NLayers) /\ cmds = <<Res>>
    <3>1. /\ cmds[1] = Res
          /\ Tail(cmds) = IF layer <= NLayers THEN <<First>> ELSE <<>>
      <4>1. CASE layer <= NLayers
        <5>1. cmds = <<Res, First>>
          BY <2>3, <4>1
        <5> HIDE DEF Res, First
        <5> QED
          BY <4>1, <5>1
      <4>2. CASE ~(layer <= NLayers)
        <5>1. cmds = <<Res>>
          BY <2>3, <4>2
        <5> QED
          BY <4>2, <5>1
      <4> QED
        BY <4>1, <4>2
    <3>2. /\ cmds' = IF layer <= NLayers THEN <<First>> ELSE <<>>
          /\ x' = Residual(layer - 1)
      BY <1>4, <3>1 DEF Kernel, Res
    <3>3. x = <<calls, layer - 2>> /\ out = <<calls, layer - 1>>
      BY <2>1, <2>3 DEF CommandsInv, First, Out, Res
    <3>4. x' = <<calls, layer - 1>>
      BY <3>2, <3>3 DEF Residual, Made
    <3> QED
      BY <2>1, <3>2, <3>4 DEF CommandsInv, First
  <2>4. CASE \/ layer <= NLayers /\ cmds = <<Out, Res, First>>
             \/ ~(layer <= NLayers) /\ cmds = <<Out, Res>>
    <3>1. /\ cmds[1] = Out
          /\ Tail(cmds) = IF layer <= NLayers THEN <<Res, First>> ELSE <<Res>>
      <4>1. CASE layer <= NLayers
        <5>1. cmds = <<Out, Res, First>>
          BY <2>4, <4>1
        <5> QED
          BY <4>1, <5>1
      <4>2. CASE ~(layer <= NLayers)
        <5>1. cmds = <<Out, Res>>
          BY <2>4, <4>2
        <5> QED
          BY <4>2, <5>1
      <4> QED
        BY <4>1, <4>2
    <3>2. /\ cmds' = IF layer <= NLayers THEN <<Res, First>> ELSE <<Res>>
          /\ x' = x /\ out' = OutProj(layer - 1)
      BY <1>4, <3>1 DEF Kernel, Out
    <3>3. /\ layer > 1 /\ x = <<calls, layer - 2>>
          /\ y = <<calls, layer - 1>>
      BY <2>1, <2>4 DEF CommandsInv, First, Out, Res
    <3>4. out' = <<calls, layer - 1>>
      BY <3>2, <3>3 DEF OutProj, Made
    <3> QED
      BY <2>1, <3>2, <3>3, <3>4 DEF CommandsInv, First, Res
  <2> QED
    BY <2>1, <2>2, <2>3, <2>4 DEF CommandsInv
<1>5. CASE CommandError BY <1>5 DEF CommandError
<1>6. CASE Submitted
  <2>1. layer <= NLayers => x = <<calls, layer - 1>> /\ proj = <<calls, layer>>
    BY <1>6 DEF Submitted, CommandsInv, First, Out, Res
  <2> QED
    BY <1>6, <2>1 DEF Submitted
<1>7. CASE ScanGpu
  <2>1. layer \in Layer /\ Scan(layer) /\ pc = "scan" /\ pc' = "encode"
    BY <1>7 DEF ScanGpu
  <2> QED
    BY <1>7, <2>1, ScanData DEF ScanGpu
<1>8. CASE Encode
  <2>1. /\ pc' = "wait" /\ layer' = layer + 1
        /\ cmds' = <<<<"out", layer>>, <<"residual", layer>>>>
                     \o IF layer < NLayers THEN <<<<"in", layer + 1>>>>
                                           ELSE <<>>
        /\ x = <<calls, layer - 1>> /\ y = <<calls, layer>>
        /\ UNCHANGED <<calls, x, y, absorbed>>
    BY <1>8 DEF Encode
  <2>2. layer' - 1 = layer /\ layer' - 2 = layer - 1
    BY <2>1
  <2>3. cmds' = IF layer' <= NLayers THEN <<Out', Res', First'>>
                                     ELSE <<Out', Res'>>
    <3>1. layer' <= NLayers <=> layer < NLayers
      BY <2>1
    <3>2. /\ Out' = <<"out", layer>> /\ Res' = <<"residual", layer>>
          /\ First' = <<"in", layer + 1>>
      BY <2>1, <2>2 DEF Out, Res, First
    <3>3. CASE layer < NLayers
      <4>1. cmds' = <<Out', Res'>> \o <<First'>>
        BY <2>1, <3>2, <3>3
      <4> QED
        BY <3>1, <3>3, <4>1
    <3>4. CASE ~(layer < NLayers)
      <4>1. cmds' = <<Out', Res'>> \o <<>>
        BY <2>1, <3>2, <3>4
      <4> QED
        BY <3>1, <3>4, <4>1
    <3> QED
      BY <3>3, <3>4
  <2>4. CommandsInv'
    <3>1. /\ layer' > 1 /\ x' = <<calls', layer' - 2>>
          /\ y' = <<calls', layer' - 1>>
      BY <2>1, <2>2
    <3> QED
      BY <2>3, <3>1, Zenon DEF CommandsInv
  <2> QED
    BY <2>1, <2>4
<1>9. CASE Embed BY <1>9 DEF Embed
<1>10. CASE StepInProj BY <1>10 DEF StepInProj, Projected, InProj, Made
<1>12. CASE StepOutProj BY <1>12 DEF StepOutProj, Projected, OutProj, Made
<1>11. CASE StepScan
  <2>1. layer \in Layer /\ Scan(layer)
        /\ pc = "step_scan" /\ pc' = "out_proj"
    BY <1>11 DEF StepScan
  <2> QED
    BY <1>11, <2>1, ScanData DEF StepScan
<1>13. CASE StepResidual
  <2>1. x' = <<calls, layer>> /\ UNCHANGED <<calls, absorbed>>
    BY <1>13 DEF StepResidual, Residual, Made
  <2>2. \/ pc' = "in_proj" /\ layer' = layer + 1
        \/ pc' = "idle"
    BY <1>13 DEF StepResidual
  <2>3. pc' = "in_proj" => x' = <<calls', layer' - 1>>
    BY <2>1, <2>2
  <2> QED
    BY <2>1, <2>2, <2>3
<1>14. CASE UNCHANGED prefillVars
  BY <1>14 DEF prefillVars, CommandsInv, First, Out, Res
<1> QED
  BY <1>1, <1>2, <1>3, <1>4, <1>5, <1>6, <1>7, <1>8, <1>9, <1>10,
     <1>11, <1>12, <1>13, <1>14 DEF PrefillNext, Over

-----------------------------------------------------------------------------
(* The theorems *)

\* The inductive invariant: where the call is, what every layer has absorbed,
\* who holds the mutex and what the buffers hold.
THEOREM PrefillInvariance == PrefillSpec => []PrefillInv
<1>1. PrefillInv /\ [PrefillNext]_prefillVars => PrefillInv'
  <2>1. [PrefillNext]_prefillVars => UNCHANGED <<aligned, faults>>
    BY DEF PrefillNext, prefillVars, Call, BatchBegin, Prologue, Kernel,
       CommandError,
       Submitted, ScanGpu, Encode, Embed, StepInProj, StepScan, StepOutProj,
       StepResidual, Over
  <2>2. [PrefillNext]_prefillVars => (OnlyBatch' => OnlyBatch)
    BY <2>1 DEF OnlyBatch
  <2> QED
    BY <2>2, ProgressStep, LockStep, DataStep DEF PrefillInv
<1> QED
  BY <1>1, PrefillStart, PTL DEF PrefillSpec

\* Whichever path a prefill takes and wherever it gives one up, every layer
\* absorbs every call exactly once (model_prefill, block_step_batch).
THEOREM PrefillAbsorbedOnce == PrefillSpec => []AbsorbedOnce
<1>1. PrefillInv => AbsorbedOnce
  <2> SUFFICES ASSUME PrefillInv, NEW l \in Layer
               PROVE  /\ Len(absorbed[l]) <= calls
                      /\ pc = "idle" => Len(absorbed[l]) = calls
    BY DEF AbsorbedOnce
  <2> QED
    BY LayersAssumption DEF PrefillInv, PrefillTypes, ProgressInv, Passed
<1> QED
  BY <1>1, PrefillInvariance, PTL

\* What it absorbs is this call's, through all the layers before, when nothing
\* but the batch buffers can fail.
THEOREM PrefillAbsorbedReal == PrefillSpec => []AbsorbedReal
<1>1. PrefillInv => AbsorbedReal
  BY DEF PrefillInv, AbsorbedReal, OnlyBatch, DataInv
<1> QED
  BY <1>1, PrefillInvariance, PTL

\* The fall back never waits for a mutex the GPU path has kept.
THEOREM PrefillNoSelfDeadlock == PrefillSpec => []NoSelfDeadlock
<1>1. PrefillInv => NoSelfDeadlock
  BY Zenon DEF PrefillInv, LockInv, GpuPc, NoSelfDeadlock
<1> QED
  BY <1>1, PrefillInvariance, PTL

-----------------------------------------------------------------------------
(* Owners: the shares of a dispatch partition the channels. *)

LEMMA SameRange ==
  \A t, j, m : W!TaskRange(t, j, m) = TaskRange(t, j, m)
  BY DEF W!TaskRange, W!RangeStart, W!RangeEnd, TaskRange, RangeStart, RangeEnd

LEMMA OneOwner ==
  ASSUME NEW j \in Nat \ {0}, NEW z \in Channels
  PROVE  LET o == CHOOSE t \in 0 .. j - 1 : z \in W!TaskRange(t, j, DInner)
         IN  /\ o \in 0 .. j - 1
             /\ \A t \in 0 .. j - 1 : z \in W!TaskRange(t, j, DInner) <=> t = o
<1>1. DInner \in Nat /\ z \in 0 .. DInner - 1
  BY SizesAssumption DEF Channels
<1>2. \E t \in 0 .. j - 1 : z \in TaskRange(t, j, DInner)
  BY <1>1, SharesCover
<1>3. \A t, u \in 0 .. j - 1 :
        z \in TaskRange(t, j, DInner) /\ z \in TaskRange(u, j, DInner) => t = u
  <2> SUFFICES ASSUME NEW t \in 0 .. j - 1, NEW u \in 0 .. j - 1, t < u
               PROVE  ~ (/\ z \in TaskRange(t, j, DInner)
                         /\ z \in TaskRange(u, j, DInner))
    OBVIOUS
  <2> QED
    BY <1>1, SharesDisjoint
<1> QED
  BY <1>2, <1>3, SameRange

\* A share lies among the channels.
LEMMA ShareBounds ==
  ASSUME NEW j \in Nat \ {0}, NEW t \in 0 .. j - 1
  PROVE  W!RangeStart(t, j, DInner) \in Nat /\ W!RangeEnd(t, j, DInner) \in Nat
<1> DEFINE b == DInner \div j
           e == DInner % j
<1>1. b \in Nat /\ e \in 0 .. j - 1 /\ DInner \in Nat
  BY SizesAssumption, Division
<1>2. /\ RangeStart(t, j, DInner) = t * b + Extra(t, e)
      /\ RangeEnd(t, j, DInner) = (t + 1) * b + Extra(t + 1, e)
  BY <1>1, RangeForm
<1> HIDE DEF b, e
<1>3. t * b \in Nat /\ (t + 1) * b \in Nat
  BY <1>1, Product
<1>4. RangeStart(t, j, DInner) \in Nat /\ RangeEnd(t, j, DInner) \in Nat
  BY <1>1, <1>2, <1>3 DEF Extra
<1> QED
  BY <1>4 DEF W!RangeStart, W!RangeEnd, RangeStart, RangeEnd

-----------------------------------------------------------------------------
(* The heads a kernel uses.  What a recursive definition computes is shown *)
(* by a function that satisfies it and by its being the only one: two that *)
(* differ would differ at a least channel.                                 *)

\* The head of a channel: heads are HeadDim channels long.
LEMMA HeadBounds ==
  ASSUME NEW z \in Nat
  PROVE  /\ HeadOf(z) \in Nat
         /\ HeadOf(z) * HeadDim \in Nat
         /\ HeadOf(z) * HeadDim <= z
         /\ z < HeadOf(z) * HeadDim + HeadDim
         /\ (HeadOf(z) + 1) * HeadDim = HeadOf(z) * HeadDim + HeadDim
<1>1. /\ HeadOf(z) \in Nat /\ z % HeadDim \in 0 .. HeadDim - 1
      /\ z = HeadDim * HeadOf(z) + (z % HeadDim)
      /\ HeadDim \in Nat \ {0}
  BY SizesAssumption, Division DEF HeadOf
<1> DEFINE h == HeadOf(z)
<1> HIDE DEF h
<1>2. HeadDim * h = h * HeadDim /\ (h + 1) * HeadDim = h * HeadDim + HeadDim
  BY <1>1 DEF h
<1>3. h * HeadDim \in Nat
  BY <1>1, Product DEF h
<1> QED
  BY <1>1, <1>2, <1>3 DEF h

\* A channel between the ends of a head belongs to it.
LEMMA HeadIs ==
  ASSUME NEW z \in Nat, NEW h \in Nat, h * HeadDim <= z,
         z < h * HeadDim + HeadDim
  PROVE  HeadOf(z) = h
<1> DEFINE g == HeadOf(z)
<1>1. /\ g \in Nat /\ g * HeadDim \in Nat /\ g * HeadDim <= z
      /\ z < g * HeadDim + HeadDim
  BY HeadBounds
<1> HIDE DEF g
<1>2. HeadDim \in Nat \ {0} /\ h * HeadDim \in Nat
  BY SizesAssumption, Product
<1>3. ASSUME NEW a \in Nat, NEW b \in Nat, a < b
      PROVE  a * HeadDim + HeadDim <= b * HeadDim
  <2>1. (b - (a + 1)) * HeadDim \in Nat
    BY <1>2, <1>3, Product
  <2>2. b * HeadDim = (a + 1) * HeadDim + (b - (a + 1)) * HeadDim
    BY <1>2
  <2>3. (a + 1) * HeadDim = a * HeadDim + HeadDim
    BY <1>2
  <2>4. a * HeadDim \in Nat
    BY <1>2, Product
  <2> QED
    BY <1>2, <2>1, <2>2, <2>3, <2>4
<1>4. ~ (g < h) /\ ~ (h < g)
  BY <1>1, <1>2, <1>3
<1> QED
  BY <1>1, <1>4 DEF g

\* A function given from its value at the channel before is given altogether.
LEMMA OnlyOne ==
  ASSUME NEW from \in Nat, NEW to \in Nat, NEW f, NEW g,
         DOMAIN f = from .. to - 1, DOMAIN g = from .. to - 1,
         f = [z \in from .. to - 1 |-> f[z]],
         g = [z \in from .. to - 1 |-> g[z]],
         from < to => f[from] = g[from],
         \A z \in from + 1 .. to - 1 : f[z - 1] = g[z - 1] => f[z] = g[z]
  PROVE  f = g
<1> DEFINE U == {z \in from .. to - 1 : f[z] # g[z]}
<1>1. CASE U = {}
  BY <1>1
<1>2. CASE U # {}
  <2>1. U \subseteq Nat
    OBVIOUS
  <2>2. PICK z \in U : \A d \in U : z <= d
    BY <1>2, <2>1, LeastNumber
  <2>3. z # from /\ z \in from + 1 .. to - 1 /\ z - 1 \in from .. to - 1
    BY <2>2
  <2>4. z - 1 \notin U
    BY <2>2, <2>3
  <2> QED
    BY <2>2, <2>3, <2>4
<1> QED
  BY <1>1, <1>2

LEMMA ScalarHeadsRight ==
  ASSUME NEW from \in Nat, NEW to \in Nat
  PROVE  ScalarHeads(from, to) = [z \in from .. to - 1 |-> HeadOf(z)]
<1> DEFINE D        == from .. to - 1
           Eq(head) == head = [z \in D |->
                         IF z = from \/ head[z - 1] # HeadOf(z)
                         THEN HeadOf(z) ELSE head[z - 1]]
           own      == [z \in D |-> HeadOf(z)]
<1>1. Eq(own)
  <2> DEFINE e == [z \in D |-> IF z = from \/ own[z - 1] # HeadOf(z)
                               THEN HeadOf(z) ELSE own[z - 1]]
  <2>1. \A z \in D : own[z] = e[z]
    OBVIOUS
  <2> QED
    BY <2>1
<1>2. ScalarHeads(from, to) = CHOOSE head : Eq(head)
  BY DEF ScalarHeads
<1> DEFINE head == CHOOSE head : Eq(head)
<1>3. Eq(head)
  BY <1>1
<1> HIDE DEF head
<1>4. \A z \in D : head[z] = IF z = from \/ head[z - 1] # HeadOf(z)
                             THEN HeadOf(z) ELSE head[z - 1]
  BY <1>3
<1>5. \A z \in D : head[z] = HeadOf(z)
  BY <1>4
<1>6. head = [z \in D |-> head[z]]
  BY <1>3
<1> QED
  BY <1>2, <1>5, <1>6 DEF head

\* Where the segment of a channel starts: with its head, or with the share.
Start(from, z) == IF HeadOf(z) * HeadDim < from THEN from
                                                ELSE HeadOf(z) * HeadDim

LEMMA SegmentStartsRight ==
  ASSUME NEW from \in Nat, NEW to \in Nat
  PROVE  SegmentStarts(from, to) = [z \in from .. to - 1 |-> Start(from, z)]
<1> DEFINE D         == from .. to - 1
           Eq(start) == start = [z \in D |->
                          IF z = from \/ z = SegmentEnd(start[z - 1], to)
                          THEN z ELSE start[z - 1]]
           own       == [z \in D |-> Start(from, z)]
<1>1. from < to => Start(from, from) = from
  BY HeadBounds DEF Start
<1>2. ASSUME NEW z \in from + 1 .. to - 1
      PROVE  Start(from, z) = IF z = SegmentEnd(Start(from, z - 1), to)
                              THEN z ELSE Start(from, z - 1)
  <2> DEFINE p == z - 1
             h == HeadOf(p)
             s == Start(from, p)
  <2>1. p \in Nat /\ z \in Nat /\ from <= p /\ z = p + 1 /\ z < to
    OBVIOUS
  <2>2. /\ h \in Nat /\ h * HeadDim \in Nat /\ h * HeadDim <= p
        /\ p < h * HeadDim + HeadDim
        /\ (h + 1) * HeadDim = h * HeadDim + HeadDim
    BY <2>1, HeadBounds
  <2>3. s \in Nat /\ h * HeadDim <= s /\ s <= p
    BY <2>1, <2>2 DEF Start
  <2> HIDE DEF p, h
  <2>4. HeadOf(s) = h
    <3> HIDE DEF s
    <3>1. s < h * HeadDim + HeadDim
      BY <2>1, <2>2, <2>3, SizesAssumption
    <3> QED
      BY <2>2, <2>3, <3>1, HeadIs
  <2>5. SegmentEnd(s, to) = IF h * HeadDim + HeadDim > to
                            THEN to ELSE h * HeadDim + HeadDim
    BY <2>2, <2>4 DEF SegmentEnd
  <2>6. HeadDim \in Nat \ {0}
    BY SizesAssumption
  <2>7. CASE z = h * HeadDim + HeadDim
    <3>1. HeadOf(z) = h + 1
      <4>1. h + 1 \in Nat /\ (h + 1) * HeadDim <= z
            /\ z < (h + 1) * HeadDim + HeadDim
        BY <2>2, <2>6, <2>7
      <4> QED
        BY <2>1, <4>1, HeadIs
    <3>2. Start(from, z) = z
      BY <2>1, <2>2, <2>7, <3>1 DEF Start
    <3> QED
      BY <2>1, <2>2, <2>5, <2>6, <2>7, <3>2 DEF p
  <2>8. CASE z # h * HeadDim + HeadDim
    <3>1. HeadOf(z) = h
      BY <2>1, <2>2, <2>6, <2>8, HeadIs
    <3>2. Start(from, z) = s
      BY <3>1 DEF Start, h
    <3>3. z # SegmentEnd(s, to)
      BY <2>1, <2>2, <2>5, <2>6, <2>8
    <3> QED
      BY <3>2, <3>3 DEF p
  <2> QED
    BY <2>7, <2>8
<1>3. Eq(own)
  <2> DEFINE e == [z \in D |-> IF z = from \/ z = SegmentEnd(own[z - 1], to)
                               THEN z ELSE own[z - 1]]
  <2>1. ASSUME NEW z \in D PROVE own[z] = e[z]
    <3>1. CASE z = from
      BY <1>1, <3>1
    <3>2. CASE z # from
      <4>1. z \in from + 1 .. to - 1 /\ z - 1 \in D
        BY <3>2
      <4>2. own[z - 1] = Start(from, z - 1)
        BY <4>1
      <4> HIDE DEF own
      <4>3. e[z] = IF z = SegmentEnd(Start(from, z - 1), to)
                   THEN z ELSE Start(from, z - 1)
        BY <3>2, <4>2
      <4> QED
        BY <1>2, <4>1, <4>3 DEF own
    <3> QED
      BY <3>1, <3>2
  <2>2. own = e
    BY <2>1
  <2> QED
    BY <2>2
<1>4. SegmentStarts(from, to) = CHOOSE start : Eq(start)
  BY DEF SegmentStarts
<1> DEFINE start == CHOOSE start : Eq(start)
<1>5. Eq(start)
  BY <1>3
<1> HIDE DEF start, own
<1>6. start = own
  <2>1. ASSUME NEW f, Eq(f)
        PROVE  /\ DOMAIN f = D /\ f = [z \in D |-> f[z]]
               /\ from < to => f[from] = from
               /\ \A z \in from + 1 .. to - 1 :
                    f[z] = IF z = SegmentEnd(f[z - 1], to) THEN z ELSE f[z - 1]
    <3> DEFINE e(z) == IF z = from \/ z = SegmentEnd(f[z - 1], to)
                       THEN z ELSE f[z - 1]
    <3>1. f = [z \in D |-> e(z)]
      BY <2>1
    <3>2. \A z \in from + 1 .. to - 1 : z \in D /\ z # from
      OBVIOUS
    <3>3. from < to => from \in D
      OBVIOUS
    <3>4. \A z \in D : f[z] = e(z)
      <4> HIDE DEF e
      <4> QED
        BY <3>1
    <3>5. DOMAIN f = D /\ f = [z \in D |-> f[z]]
      <4> HIDE DEF e, D
      <4> QED
        BY <3>1
    <3> HIDE DEF D
    <3> QED
      BY <3>2, <3>3, <3>4, <3>5
  <2> HIDE DEF Eq
  <2>2. \A z \in from + 1 .. to - 1 :
          start[z - 1] = own[z - 1] => start[z] = own[z]
    BY <1>3, <1>5, <2>1
  <2> QED
    BY <1>3, <1>5, <2>1, <2>2, OnlyOne
<1> QED
  BY <1>4, <1>6 DEF start, own

\* Each kernel uses, for every channel of a share, the scalars of its head.
LEMMA KernelsUseOwnHead ==
  ASSUME kernel \in {"scalar", "vector", "accelerate"}, k \in Nat \ {0},
         NEW t \in 0 .. k - 1, NEW z \in Share(t)
  PROVE  HeadsUsed(t)[z] = HeadOf(z)
<1> DEFINE from == W!RangeStart(t, k, DInner)
           to   == W!RangeEnd(t, k, DInner)
<1>1. from \in Nat /\ to \in Nat
  BY ShareBounds
<1>2. z \in from .. to - 1
  BY DEF Share, W!TaskRange
<1> HIDE DEF from, to
<1>3. ScalarHeads(from, to)[z] = HeadOf(z)
  BY <1>1, <1>2, ScalarHeadsRight
<1>4. /\ SegmentStarts(from, to)[z] = Start(from, z)
      /\ Start(from, z) \in Nat
      /\ HeadOf(Start(from, z)) = HeadOf(z)
  <2>1. SegmentStarts(from, to)[z] = Start(from, z)
    BY <1>1, <1>2, SegmentStartsRight
  <2>2. z \in Nat /\ from <= z
    BY <1>1, <1>2
  <2>3. /\ HeadOf(z) \in Nat /\ HeadOf(z) * HeadDim \in Nat
        /\ HeadOf(z) * HeadDim <= z /\ z < HeadOf(z) * HeadDim + HeadDim
    BY <2>2, HeadBounds
  <2>4. /\ Start(from, z) \in Nat /\ HeadOf(z) * HeadDim <= Start(from, z)
        /\ Start(from, z) <= z
    BY <1>1, <2>2, <2>3 DEF Start
  <2>5. Start(from, z) < HeadOf(z) * HeadDim + HeadDim
    BY <2>2, <2>3, <2>4, SizesAssumption
  <2> QED
    BY <2>1, <2>3, <2>4, <2>5, HeadIs
<1>5. SegmentHeads(from, to)[z] = HeadOf(z)
  BY <1>2, <1>4 DEF SegmentHeads
<1>6. AccelerateHeads(from, to)[z] = HeadOf(z)
  <2> DEFINE first == HeadOf(from)
             last  == HeadOf(to - 1)
  <2>1. from \in Nat /\ z \in Nat /\ to - 1 \in Nat /\ from <= z /\ z <= to - 1
    BY <1>1, <1>2
  <2>2. ASSUME NEW a \in Nat, NEW b \in Nat, a <= b
        PROVE  HeadOf(a) <= HeadOf(b) /\ HeadOf(a) \in Nat /\ HeadOf(b) \in Nat
    <3> DEFINE g == HeadOf(a)
               h == HeadOf(b)
    <3>1. /\ g \in Nat /\ h \in Nat /\ g * HeadDim <= a
          /\ b < h * HeadDim + HeadDim
          /\ (h + 1) * HeadDim = h * HeadDim + HeadDim
      BY HeadBounds
    <3> HIDE DEF g, h
    <3>2. HeadDim \in Nat \ {0} /\ g * HeadDim \in Nat /\ (h + 1) * HeadDim \in Nat
      BY <3>1, SizesAssumption, Product
    <3>3. ~ (g > h)
      <4> SUFFICES ASSUME g > h PROVE FALSE
        OBVIOUS
      <4>1. (g - (h + 1)) * HeadDim \in Nat
        BY <3>1, <3>2, Product
      <4>2. g * HeadDim = (h + 1) * HeadDim + (g - (h + 1)) * HeadDim
        BY <3>1, <3>2
      <4> QED
        BY <2>2, <3>1, <3>2, <4>1, <4>2
    <3> QED
      BY <3>1, <3>3 DEF g, h
  <2>3. /\ first \in Nat /\ HeadOf(z) \in Nat /\ last \in Nat
        /\ first <= HeadOf(z) /\ HeadOf(z) <= last
    BY <2>1, <2>2
  <2> HIDE DEF first, last
  <2>4. HeadOf(z) - first \in 0 .. (last + 1 - first) - 1
    BY <2>3
  <2>5. AccelerateHeads(from, to)[z]
          = [i \in 0 .. (last + 1 - first) - 1 |-> first + i][HeadOf(z) - first]
    BY <1>2, <1>4 DEF AccelerateHeads, first, last
  <2> QED
    BY <2>3, <2>4, <2>5
<1> QED
  BY <1>3, <1>5, <1>6 DEF HeadsUsed, from, to

-----------------------------------------------------------------------------
(* The invariant *)

TypeInv ==
  /\ conv \in [0 .. 2 -> [Channels -> Nat]]
  /\ pos \in 0 .. 2 /\ fed \in Nat /\ n \in Nat
  /\ k \in Nat \ {0} /\ k <= MaxThreads
  /\ tok \in [Tids -> Nat]
  /\ lpos \in [Tids -> 0 .. 2]
  /\ kernel \in {"scalar", "vector", "accelerate"}

\* Every thread's own position is where the tokens it has done have moved
\* the common one.
PositionInv ==
  n > 0 => \A t \in 0 .. k - 1 : tok[t] <= n /\ lpos[t] = (pos + tok[t]) % 3

Back(z, i) == IF Absorbed(z) > i THEN Absorbed(z) - i ELSE 0

\* What the ring holds of a channel, from its own position on.
WindowInv ==
  \A z \in Channels :
    /\ conv[Oldest(z)][z] = Back(z, 2)
    /\ conv[Tap(Oldest(z), 1)][z] = Back(z, 1)
    /\ conv[Tap(Oldest(z), 2)][z] = Back(z, 0)

IInv == TypeInv /\ PositionInv /\ WindowInv /\ ReadsLastThree /\ HeadsOwnScalars

Window == [z \in Channels |->
             LET p == Oldest(z)
             IN <<conv[p][z], conv[Tap(p, 1)][z], conv[Tap(p, 2)][z]>>]
Count  == [z \in Channels |-> Absorbed(z)]

\* The thread that owns a channel.
LEMMA OwnerIs ==
  ASSUME k \in Nat \ {0}, NEW z \in Channels
  PROVE  /\ Owner(z) \in 0 .. k - 1
         /\ \A t \in 0 .. k - 1 : z \in Share(t) <=> t = Owner(z)
  BY OneOwner DEF Owner, Share

LEMMA ChannelPlace ==
  ASSUME TypeInv, NEW z \in Channels
  PROVE  Absorbed(z) \in Nat /\ Oldest(z) \in 0 .. 2
<1>1. Owner(z) \in Tids
  BY OwnerIs, SizesAssumption DEF TypeInv, Tids
<1> QED
  BY <1>1 DEF TypeInv, Absorbed, Oldest

LEMMA InitInv == Init => IInv
<1> SUFFICES ASSUME Init PROVE IInv
  OBVIOUS
<1>1. TypeInv /\ PositionInv
  BY SizesAssumption DEF Init, TypeInv, PositionInv, Taps
<1>2. \A z \in Channels : Absorbed(z) = 0 /\ Oldest(z) = 0
  BY DEF Init, Absorbed, Oldest
<1>3. WindowInv
  BY <1>2 DEF Init, WindowInv, Back, Tap, Taps
<1>4. ReadsLastThree /\ HeadsOwnScalars
  BY <1>2 DEF Init, ReadsLastThree, HeadsOwnScalars
<1> QED
  BY <1>1, <1>3, <1>4 DEF IInv

\* A step that leaves every channel where it is leaves what is known of it.
LEMMA Stays ==
  ASSUME WindowInv, ReadsLastThree, HeadsOwnScalars,
         UNCHANGED <<conv, seen, used>>,
         \A z \in Channels : /\ Absorbed(z)' = Absorbed(z)
                             /\ Oldest(z)' = Oldest(z)
  PROVE  /\ WindowInv' /\ ReadsLastThree' /\ HeadsOwnScalars'
         /\ UNCHANGED <<Window, Count>>
<1>1. WindowInv'
  BY DEF WindowInv, Back, Tap
<1>2. ReadsLastThree' /\ HeadsOwnScalars'
  BY DEF ReadsLastThree, HeadsOwnScalars, HeadOf
<1>3. UNCHANGED Window /\ UNCHANGED Count
  BY DEF Window, Count, Tap
<1> QED
  BY <1>1, <1>2, <1>3

LEMMA DispatchStep ==
  ASSUME IInv, NEW m \in 1 .. MaxBatch, NEW j \in 1 .. MaxThreads,
         Dispatch(m, j)
  PROVE  IInv' /\ UNCHANGED <<Window, Count>>
<1>1. /\ n' \in Nat /\ k' \in Nat \ {0} /\ k' <= MaxThreads
      /\ tok' = [t \in Tids |-> 0] /\ lpos' = [t \in Tids |-> pos]
      /\ UNCHANGED <<conv, pos, fed, kernel>>
  BY SizesAssumption DEF Dispatch
<1>2. TypeInv'
  BY <1>1 DEF IInv, TypeInv
<1>3. PositionInv'
  <2>1. j \in Nat \ {0} /\ j <= MaxThreads /\ k' = j
    BY SizesAssumption DEF Dispatch
  <2>2. \A t \in 0 .. j - 1 : t \in Tids
    BY <2>1, SizesAssumption DEF Tids
  <2>3. \A t \in 0 .. j - 1 : tok'[t] = 0 /\ lpos'[t] = pos
    BY <1>1, <2>2
  <2>4. pos \in 0 .. 2 /\ pos + 0 = pos /\ pos % 3 = pos /\ pos' = pos
    BY <1>1 DEF IInv, TypeInv
  <2> QED
    BY <1>1, <2>1, <2>3, <2>4 DEF PositionInv
<1>4. ASSUME NEW z \in Channels
      PROVE  Absorbed(z)' = Absorbed(z) /\ Oldest(z)' = Oldest(z)
  <2>1. Owner(z)' \in 0 .. j - 1
    BY OneOwner DEF Dispatch, Owner, Share
  <2>2. Owner(z)' \in Tids
    BY <2>1, SizesAssumption DEF Tids
  <2>3. n = 0 /\ n' > 0 /\ fed' = fed /\ tok'[Owner(z)'] = 0
        /\ lpos'[Owner(z)'] = pos
    BY <2>2, SizesAssumption DEF Dispatch
  <2> QED
    BY <2>3 DEF Absorbed, Oldest, IInv, TypeInv
<1> QED
  BY <1>2, <1>3, <1>4, Stays DEF IInv, Dispatch

LEMMA ReturnStep ==
  ASSUME IInv, Return
  PROVE  IInv' /\ UNCHANGED <<Window, Count>>
<1>1. pos' = (pos + n) % 3 /\ fed' = fed + n /\ n' = 0 /\ n > 0
      /\ UNCHANGED <<conv, k, tok, lpos, seen, kernel, used>>
      /\ \A t \in 0 .. k - 1 : tok[t] = n
  BY DEF Return, Taps
<1>2. TypeInv' /\ PositionInv'
  BY <1>1 DEF IInv, TypeInv, PositionInv
<1>3. ASSUME NEW z \in Channels
      PROVE  Absorbed(z)' = Absorbed(z) /\ Oldest(z)' = Oldest(z)
  <2>1. Owner(z) \in 0 .. k - 1
    BY OwnerIs DEF IInv, TypeInv
  <2>2. tok[Owner(z)] = n /\ lpos[Owner(z)] = (pos + n) % 3
    BY <1>1, <2>1 DEF IInv, PositionInv
  <2> QED
    BY <1>1, <2>2 DEF Absorbed, Oldest
<1> QED
  BY <1>1, <1>2, <1>3, Stays DEF IInv

LEMMA ResetStep ==
  ASSUME IInv, Reset
  PROVE  /\ IInv'
         /\ Window' = [z \in Channels |-> <<0, 0, 0>>]
         /\ Count' = [z \in Channels |-> 0]
<1>1. TypeInv' /\ PositionInv'
  BY DEF Reset, IInv, TypeInv, PositionInv, Taps
<1>2. \A z \in Channels : Absorbed(z)' = 0 /\ Oldest(z)' = 0
  BY DEF Reset, Absorbed, Oldest
<1>3. \A z \in Channels : conv'[0][z] = 0 /\ conv'[1][z] = 0 /\ conv'[2][z] = 0
  BY DEF Reset, Taps
<1>4. Tap(0, 1) = 1 /\ Tap(0, 2) = 2
  BY DEF Tap, Taps
<1>5. WindowInv'
  BY <1>2, <1>3, <1>4 DEF WindowInv, Back, Tap, Taps
<1>6. ReadsLastThree' /\ HeadsOwnScalars'
  BY <1>2 DEF Reset, ReadsLastThree, HeadsOwnScalars
<1>7. /\ Window' = [z \in Channels |-> <<0, 0, 0>>]
      /\ Count' = [z \in Channels |-> 0]
  BY <1>2, <1>3, <1>4 DEF Window, Count, Tap, Taps
<1> QED
  BY <1>1, <1>5, <1>6, <1>7 DEF IInv

\* The conditional subtraction is addition modulo the size of the ring.
LEMMA TapIsNext ==
  ASSUME NEW a \in Nat
  PROVE  Tap(a % 3, 1) = (a + 1) % 3
  BY DEF Tap, Taps

\* A thread scans a token: the window of each of its channels slides by one
\* input, and nobody else's moves.
LEMMA ScanStep ==
  ASSUME IInv, NEW t \in Tids, ScanToken(t)
  PROVE  /\ IInv'
         /\ SW!Absorb({z \in Channels : z \in Share(t)})
<1> DEFINE input == fed + tok[t] + 1
           p     == lpos[t]
<1> USE DEF Taps
<1>1. /\ t \in 0 .. k - 1 /\ t \in Tids /\ tok[t] < n /\ tok[t] \in Nat
      /\ n > 0 /\ p \in 0 .. 2 /\ fed \in Nat /\ pos \in 0 .. 2
      /\ n \in Nat /\ k \in Nat \ {0}
  <2>1. /\ t < k /\ tok[t] < n /\ tok[t] \in Nat /\ n \in Nat
        /\ p \in 0 .. 2 /\ fed \in Nat /\ pos \in 0 .. 2 /\ k \in Nat \ {0}
    BY DEF ScanToken, IInv, TypeInv
  <2>2. t \in 0 .. k - 1
    BY <2>1, SizesAssumption DEF Tids
  <2> QED
    BY <2>1, <2>2
<1>2. /\ used' = [z \in Channels |->
                    IF z \in Share(t) THEN <<HeadsUsed(t)[z], input>>
                    ELSE used[z]]
      /\ seen' = [z \in Channels |->
                    IF z \in Share(t)
                    THEN <<conv[p][z], conv[Tap(p, 1)][z], conv[Tap(p, 2)][z],
                           input>>
                    ELSE seen[z]]
      /\ conv' = [conv EXCEPT ![p] =
                    [z \in Channels |-> IF z \in Share(t) THEN input ELSE @[z]]]
      /\ tok' = [tok EXCEPT ![t] = tok[t] + 1]
      /\ lpos' = [lpos EXCEPT ![t] = Tap(p, 1)]
      /\ UNCHANGED <<pos, fed, n, k, kernel>>
  BY DEF ScanToken
<1>3. /\ Tap(p, 1) \in 0 .. 2 /\ Tap(p, 2) \in 0 .. 2
      /\ Tap(Tap(p, 1), 1) = Tap(p, 2) /\ Tap(Tap(p, 1), 2) = p
      /\ Tap(p, 1) # p /\ Tap(p, 2) # p
  BY <1>1 DEF Tap
<1>4. input \in Nat
  BY <1>1
<1> HIDE DEF input, p
<1>5. TypeInv'
  <2>1. conv' \in [0 .. 2 -> [Channels -> Nat]]
    BY <1>1, <1>2, <1>4 DEF IInv, TypeInv
  <2> QED
    BY <1>1, <1>2, <1>3, <2>1 DEF IInv, TypeInv
<1>6. PositionInv'
  <2>1. ASSUME NEW u \in 0 .. k - 1
        PROVE  tok'[u] <= n /\ lpos'[u] = (pos + tok'[u]) % 3
    <3>1. u \in Tids /\ tok[u] \in Nat /\ tok[u] <= n
          /\ lpos[u] = (pos + tok[u]) % 3
      BY <1>1, SizesAssumption DEF IInv, PositionInv, TypeInv, Tids
    <3>2. CASE u = t
      <4>1. tok'[u] = tok[t] + 1 /\ lpos'[u] = Tap(p, 1)
        BY <1>2, <3>1, <3>2 DEF IInv, TypeInv
      <4>2. p = (pos + tok[t]) % 3
        BY <3>1, <3>2 DEF p
      <4> DEFINE q == pos + tok[t]
      <4>3. q \in Nat /\ pos + tok'[u] = q + 1
        BY <1>1, <4>1
      <4>4. tok'[u] <= n
        BY <1>1, <4>1
      <4> HIDE DEF q
      <4>5. Tap(q % 3, 1) = (q + 1) % 3
        BY <4>3, TapIsNext
      <4> QED
        BY <4>1, <4>2, <4>3, <4>4, <4>5 DEF q
    <3>3. CASE u # t
      BY <1>2, <3>1, <3>3 DEF IInv, TypeInv
    <3> QED
      BY <3>2, <3>3
  <2> QED
    BY <1>2, <2>1 DEF PositionInv
<1>7. ASSUME NEW z \in Channels, z \notin Share(t)
      PROVE  /\ Absorbed(z)' = Absorbed(z) /\ Oldest(z)' = Oldest(z)
             /\ \A i \in 0 .. 2 : conv'[i][z] = conv[i][z]
             /\ seen'[z] = seen[z] /\ used'[z] = used[z]
  <2>1. Owner(z)' = Owner(z)
    BY <1>2 DEF Owner, Share
  <2>2. Owner(z) \in Tids /\ Owner(z) # t
    BY <1>1, <1>7, OwnerIs, SizesAssumption DEF IInv, TypeInv, Tids
  <2>3. tok'[Owner(z)] = tok[Owner(z)] /\ lpos'[Owner(z)] = lpos[Owner(z)]
    BY <1>2, <2>2 DEF IInv, TypeInv
  <2>4. \A i \in 0 .. 2 : conv'[i][z] = conv[i][z]
    BY <1>1, <1>2, <1>7 DEF IInv, TypeInv
  <2> QED
    BY <1>2, <1>7, <2>1, <2>3, <2>4 DEF Absorbed, Oldest
<1>8. ASSUME NEW z \in Channels, z \in Share(t)
      PROVE  /\ Absorbed(z) = input - 1 /\ Oldest(z) = p
             /\ Absorbed(z)' = input /\ Oldest(z)' = Tap(p, 1)
             /\ conv'[p][z] = input
             /\ \A i \in 0 .. 2 : i # p => conv'[i][z] = conv[i][z]
             /\ seen'[z] = <<conv[p][z], conv[Tap(p, 1)][z],
                            conv[Tap(p, 2)][z], input>>
             /\ used'[z] = <<HeadOf(z), input>>
  <2>1. Owner(z)' = Owner(z)
    BY <1>2 DEF Owner, Share
  <2>2. Owner(z) = t
    BY <1>1, <1>8, OwnerIs
  <2>3. tok'[t] = tok[t] + 1 /\ lpos'[t] = Tap(p, 1)
    BY <1>1, <1>2 DEF IInv, TypeInv
  <2>4. /\ Absorbed(z) = fed + tok[t] /\ Oldest(z) = p
        /\ Absorbed(z)' = fed + tok[t] + 1 /\ Oldest(z)' = Tap(p, 1)
    BY <1>1, <1>2, <2>1, <2>2, <2>3 DEF Absorbed, Oldest, p
  <2>5. /\ conv'[p][z] = input
        /\ \A i \in 0 .. 2 : i # p => conv'[i][z] = conv[i][z]
    BY <1>1, <1>2, <1>8 DEF IInv, TypeInv
  <2>6. HeadsUsed(t)[z] = HeadOf(z)
    BY <1>1, <1>8, KernelsUseOwnHead DEF IInv, TypeInv
  <2> QED
    BY <1>1, <1>2, <1>8, <2>4, <2>5, <2>6 DEF input
<1>9. WindowInv'
  <2> SUFFICES ASSUME NEW z \in Channels
               PROVE  /\ conv'[Oldest(z)'][z] = Back(z, 2)'
                      /\ conv'[Tap(Oldest(z)', 1)][z] = Back(z, 1)'
                      /\ conv'[Tap(Oldest(z)', 2)][z] = Back(z, 0)'
    BY DEF WindowInv, Tap
  <2>1. /\ conv[Oldest(z)][z] = Back(z, 2)
        /\ conv[Tap(Oldest(z), 1)][z] = Back(z, 1)
        /\ conv[Tap(Oldest(z), 2)][z] = Back(z, 0)
    BY DEF IInv, WindowInv
  <2>2. CASE z \in Share(t)
    BY <1>3, <1>4, <1>8, <2>1, <2>2 DEF Back
  <2>3. CASE z \notin Share(t)
    <3>1. Oldest(z) \in 0 .. 2
      BY ChannelPlace DEF IInv
    <3>2. Tap(Oldest(z), 1) \in 0 .. 2 /\ Tap(Oldest(z), 2) \in 0 .. 2
      BY <3>1 DEF Tap
    <3> QED
      BY <1>7, <2>1, <2>3, <3>1, <3>2 DEF Back
  <2> QED
    BY <2>2, <2>3
<1>10. ReadsLastThree'
  <2> SUFFICES ASSUME NEW z \in Channels
               PROVE  seen'[z] = <<Back(z, 3)', Back(z, 2)', Back(z, 1)',
                                   Back(z, 0)'>>
    BY DEF ReadsLastThree, Back
  <2>1. CASE z \in Share(t)
    <3>1. /\ conv[p][z] = Back(z, 2) /\ conv[Tap(p, 1)][z] = Back(z, 1)
          /\ conv[Tap(p, 2)][z] = Back(z, 0)
      BY <1>8, <2>1 DEF IInv, WindowInv
    <3>2. /\ Back(z, 3)' = Back(z, 2) /\ Back(z, 2)' = Back(z, 1)
          /\ Back(z, 1)' = Back(z, 0) /\ Back(z, 0)' = input
      BY <1>1, <1>8, <2>1 DEF Back, input
    <3> QED
      BY <1>8, <2>1, <3>1, <3>2
  <2>2. CASE z \notin Share(t)
    <3>1. seen[z] = <<Back(z, 3), Back(z, 2), Back(z, 1), Back(z, 0)>>
      BY DEF IInv, ReadsLastThree, Back
    <3> QED
      BY <1>7, <2>2, <3>1 DEF Back
  <2> QED
    BY <2>1, <2>2
<1>11. HeadsOwnScalars'
  BY <1>7, <1>8 DEF HeadsOwnScalars, HeadOf, IInv
<1>12. SW!Absorb({z \in Channels : z \in Share(t)})
  <2> DEFINE S == {z \in Channels : z \in Share(t)}
  <2>1. Count' = [z \in Channels |-> IF z \in S THEN Count[z] + 1 ELSE Count[z]]
    BY <1>1, <1>7, <1>8 DEF Count, input
  <2>2. ASSUME NEW z \in Channels
        PROVE  Window'[z] = IF z \in S
                            THEN <<Window[z][2], Window[z][3], Count[z] + 1>>
                            ELSE Window[z]
    <3>1. CASE z \in S
      <4>1. Window'[z] = <<conv'[Tap(p, 1)][z], conv'[Tap(p, 2)][z], conv'[p][z]>>
        BY <1>3, <1>8, <3>1 DEF Window, Tap
      <4>2. Window[z] = <<conv[p][z], conv[Tap(p, 1)][z], conv[Tap(p, 2)][z]>>
        BY <1>8, <3>1 DEF Window, Tap
      <4>3. Count[z] + 1 = input
        BY <1>1, <1>8, <3>1 DEF Count, input
      <4> QED
        BY <1>3, <1>8, <3>1, <4>1, <4>2, <4>3
    <3>2. CASE z \notin S
      <4>1. Oldest(z) \in 0 .. 2
        BY ChannelPlace DEF IInv
      <4>2. Tap(Oldest(z), 1) \in 0 .. 2 /\ Tap(Oldest(z), 2) \in 0 .. 2
        BY <4>1 DEF Tap
      <4> QED
        BY <1>7, <3>2, <4>1, <4>2 DEF Window, Tap
    <3> QED
      BY <3>1, <3>2
  <2>3. Window' = [z \in Channels |->
                     IF z \in S THEN <<Window[z][2], Window[z][3], Count[z] + 1>>
                                ELSE Window[z]]
    BY <2>2 DEF Window
  <2> QED
    BY <2>1, <2>3 DEF SW!Absorb, Window, Count
<1> QED
  BY <1>5, <1>6, <1>9, <1>10, <1>11, <1>12 DEF IInv

-----------------------------------------------------------------------------
(* The theorems *)

LEMMA InvariantStep == IInv /\ [Next]_vars => IInv'
<1> SUFFICES ASSUME IInv, [Next]_vars PROVE IInv'
  OBVIOUS
<1>1. CASE UNCHANGED vars
  <2>1. \A z \in Channels : Absorbed(z)' = Absorbed(z) /\ Oldest(z)' = Oldest(z)
    BY <1>1 DEF vars, Absorbed, Oldest, Owner, Share
  <2>2. TypeInv' /\ PositionInv'
    BY <1>1 DEF vars, IInv, TypeInv, PositionInv
  <2> QED
    BY <1>1, <2>1, <2>2, Stays DEF vars, IInv
<1> QED
  BY <1>1, DispatchStep, ScanStep, ReturnStep, ResetStep DEF Next

\* The inductive invariant: types, positions, windows, and what was read.
THEOREM RingInvariant == Spec => []IInv
  BY InitInv, InvariantStep, PTL DEF Spec

\* Whatever the other threads have done, a channel is convolved with the
\* three inputs before its current one (the ssm_inner kernels).
THEOREM RingReadsLastThree == Spec => []ReadsLastThree
  BY RingInvariant, PTL DEF IInv

\* It is updated with the scalars of its own head, in every kernel and
\* wherever a thread's share begins.
THEOREM RingHeadsOwnScalars == Spec => []HeadsOwnScalars
  BY RingInvariant, PTL DEF IInv

\* The ring implements a sliding window over each channel's inputs: batches
\* of any size with any number of threads leave what absorbing the tokens one
\* by one leaves.
THEOREM RingIsSlidingWindow == Spec => ImplementsSlidingWindow
<1>1. Init => SW!Init
  <2> SUFFICES ASSUME Init PROVE SW!Init
    OBVIOUS
  <2>1. \A z \in Channels : Absorbed(z) = 0 /\ Oldest(z) = 0
    BY DEF Init, Absorbed, Oldest
  <2> QED
    BY <2>1 DEF Init, SW!Init, Tap, Taps
<1>2. IInv /\ [Next]_vars => [SW!Next]_<<Window, Count>>
  <2> SUFFICES ASSUME IInv, [Next]_vars PROVE [SW!Next]_<<Window, Count>>
    OBVIOUS
  <2>1. CASE UNCHANGED vars
    <3>1. \A z \in Channels : /\ Absorbed(z)' = Absorbed(z)
                              /\ Oldest(z)' = Oldest(z)
      BY <2>1 DEF vars, Absorbed, Oldest, Owner, Share
    <3> QED
      BY <2>1, <3>1, Stays DEF vars, IInv
  <2>2. CASE Reset
    BY <2>2, ResetStep DEF SW!Next, SW!Reset, Window, Count
  <2>3. CASE Return
    BY <2>3, ReturnStep
  <2>4. ASSUME NEW m \in 1 .. MaxBatch, NEW j \in 1 .. MaxThreads,
               Dispatch(m, j)
        PROVE  UNCHANGED <<Window, Count>>
    BY <2>4, DispatchStep
  <2>5. ASSUME NEW t \in Tids, ScanToken(t)
        PROVE  SW!Next
    <3> DEFINE S == {z \in Channels : z \in Share(t)}
    <3>1. S \in SUBSET Channels
      OBVIOUS
    <3>2. SW!Absorb(S)
      BY <2>5, ScanStep
    <3> HIDE DEF S
    <3>3. \E S1 \in SUBSET Channels : SW!Absorb(S1)
      BY <3>1, <3>2 DEF SW!Absorb
    <3> QED
      BY <3>3 DEF SW!Next
  <2> QED
    BY <2>1, <2>2, <2>3, <2>4, <2>5 DEF Next
<1>3. IInv /\ [Next]_vars => [SW!Next]_(SW!vars)
  <2>1. SW!vars = <<Window, Count>>
    BY DEF SW!vars, Window, Count
  <2>2. SW!vars' = <<Window, Count>>'
    BY DEF SW!vars, Window, Count
  <2> QED
    BY <1>2, <2>1, <2>2
<1> QED
  BY <1>1, <1>3, RingInvariant, PTL DEF Spec, ImplementsSlidingWindow, SW!Spec

-----------------------------------------------------------------------------
(* Rows of the ternary projections.  The invariant says of every kernel    *)
(* that its sum is that of the columns it has passed, taken one by one;    *)
(* that a step adds what its columns add is a lemma about each kernel.     *)

Cols == 0 .. MaxWidth + 3

\* What the columns add to a row, one by one.
Terms == [i \in Cols |-> T!Weight(i) * quant[i]]

TernaryTypes ==
  /\ bitlinear \in {"scalar", "avx2", "neon"}
  /\ cols \in 1 .. MaxWidth
  /\ row \in [code : [Cols -> 0 .. 3], scaled : [Cols -> -508 .. 508]]
  /\ quant \in [Cols -> -127 .. 127]
  /\ c \in Nat /\ c <= cols
  /\ phase \in {"prepare", "rows", "tail", "done"}

\* The tables of a column block, once made, are those of the next columns.
LutsInv ==
  luts # <<>> =>
    /\ bitlinear = "scalar" /\ phase = "rows"
    /\ \E m \in Nat \ {0} :
         /\ c + 4 * m <= cols
         /\ luts = [g \in 1 .. m |->
              T!BuildLut(quant[c + 4 * (g - 1)], quant[c + 4 * (g - 1) + 1],
                         quant[c + 4 * (g - 1) + 2], quant[c + 4 * (g - 1) + 3])]

\* Groups of four are never cut before the tail, and the sum is that of the
\* columns passed.
SumInv ==
  /\ phase = "prepare" => c = 0 /\ luts = <<>> /\ total = 0
  /\ phase \in {"prepare", "rows"} => c % 4 = 0
  /\ phase = "tail" /\ bitlinear = "neon" => c = 4 * (cols \div 4)
  /\ phase = "done" =>
       c = IF bitlinear = "neon" /\ entry = "row_worker" THEN 4 * (cols \div 4)
           ELSE cols
  /\ total = SumOf(Terms, 0, c)

TernaryInv == TernaryTypes /\ LutsInv /\ SumInv /\ QuantNearest

-----------------------------------------------------------------------------
(* One column.                                                             *)

LEMMA SameSum == ASSUME NEW f PROVE T!SumFunction(f) = SumFunction(f)
  BY DEF SumFunction, SumFunctionOnSet, FoldFunctionOnSet, MapThenFoldSet,
         T!SumFunction, T!SumFunctionOnSet, T!FoldFunctionOnSet,
         T!MapThenFoldSet

LEMMA TermsAre ==
  ASSUME TernaryTypes, NEW i \in Cols
  PROVE  /\ T!Weight(i) \in {-1, 0, 1} /\ quant[i] \in Int /\ Terms[i] \in Int
         /\ quant[i] \in -127 .. 127
         /\ Terms[i] = T!Weight(i) * quant[i]
<1>1. quant[i] \in -127 .. 127 /\ T!Weight(i) \in {-1, 0, 1}
  BY DEF TernaryTypes, T!Weight
<1>2. Terms[i] = T!Weight(i) * quant[i]
  BY DEF Terms
<1> QED
  BY <1>1, <1>2

LEMMA ColsAre ==
  ASSUME TernaryTypes, NEW i \in Int, 0 <= i, i < cols
  PROVE  i \in Cols /\ i + 3 \in Cols /\ Terms[i] \in Int
<1>1. i \in Cols /\ i + 3 \in Cols
  BY TernaryAssumption DEF TernaryTypes, Cols
<1> QED
  BY <1>1, TermsAre

\* Two bits of a byte are the code of their column.
LEMMA BitsOfByte ==
  ASSUME NEW u \in 0 .. 3, NEW v \in 0 .. 3, NEW w \in 0 .. 3, NEW z \in 0 .. 3
  PROVE  LET b == T!PackByte(u, v, w, z)
         IN  /\ T!Bits(b, 0) = u /\ T!Bits(b, 1) = v
             /\ T!Bits(b, 2) = w /\ T!Bits(b, 3) = z
<1> DEFINE b == T!PackByte(u, v, w, z)
<1>1. b = u + 4 * v + 16 * w + 64 * z
  BY DEF T!PackByte
<1> HIDE DEF b
<1>2. 4 ^ 0 = 1 /\ 4 ^ 1 = 4 /\ 4 ^ 2 = 16 /\ 4 ^ 3 = 64
  OBVIOUS
<1>3. T!Bits(b, 0) = b % 4 /\ b % 4 = u
  BY <1>1, <1>2 DEF T!Bits
<1>4. T!Bits(b, 1) = (b \div 4) % 4 /\ (b \div 4) % 4 = v
  BY <1>1, <1>2 DEF T!Bits
<1>5. T!Bits(b, 2) = (b \div 16) % 4 /\ (b \div 16) % 4 = w
  BY <1>1, <1>2 DEF T!Bits
<1>6. T!Bits(b, 3) = (b \div 64) % 4 /\ (b \div 64) % 4 = z
  BY <1>1, <1>2 DEF T!Bits
<1> QED
  BY <1>3, <1>4, <1>5, <1>6 DEF b

\* Group g: its codes and what unpacking makes of them.
LEMMA GroupUnpacks ==
  ASSUME TernaryTypes, NEW g \in Nat, 4 * g < cols, NEW j \in 0 .. 3
  PROVE  /\ 4 * g + j \in Cols
         /\ T!Bits(T!PackedByte(g), j) = row.code[4 * g + j]
         /\ row.code[4 * g + j] \in 0 .. 3
         /\ T!Unpack(T!PackedByte(g), j) = T!Weight(4 * g + j)
<1>1. \A i \in 0 .. 3 : 4 * g + i \in Cols
  BY TernaryAssumption DEF TernaryTypes, Cols
<1>2. 4 * g + 0 = 4 * g
  OBVIOUS
<1>3. \A i \in 0 .. 3 : row.code[4 * g + i] \in 0 .. 3
  BY <1>1 DEF TernaryTypes
<1>4. T!Bits(T!PackedByte(g), j) = row.code[4 * g + j]
  <2> DEFINE u == row.code[4 * g]
             v == row.code[4 * g + 1]
             w == row.code[4 * g + 2]
             z == row.code[4 * g + 3]
  <2>1. u \in 0 .. 3 /\ v \in 0 .. 3 /\ w \in 0 .. 3 /\ z \in 0 .. 3
    BY <1>2, <1>3
  <2>2. T!PackedByte(g) = T!PackByte(u, v, w, z)
    BY DEF T!PackedByte
  <2> HIDE DEF u, v, w, z
  <2>3. /\ T!Bits(T!PackedByte(g), 0) = u /\ T!Bits(T!PackedByte(g), 1) = v
        /\ T!Bits(T!PackedByte(g), 2) = w /\ T!Bits(T!PackedByte(g), 3) = z
    BY <2>1, <2>2, BitsOfByte
  <2>4. j = 0 \/ j = 1 \/ j = 2 \/ j = 3
    OBVIOUS
  <2> QED
    BY <1>2, <2>3, <2>4 DEF u, v, w, z
<1>5. T!Unpack(T!PackedByte(g), j) = T!Weight(4 * g + j)
  BY <1>3, <1>4 DEF T!Unpack, T!DecodeWeight, T!Weight
<1> QED
  BY <1>1, <1>3, <1>4, <1>5

\* The column loops that finish a row.
LEMMA ColumnsDotIs ==
  ASSUME TernaryTypes, NEW a \in Nat, NEW b \in Nat, a <= b, b <= cols
  PROVE  T!ColumnsDot(a, b) = SumOf(Terms, a, b)
<1>1. ASSUME NEW i \in a .. b - 1 PROVE T!ColumnDot(i) = Terms[i]
  <2>1. i \in Nat /\ i < cols
    BY DEF TernaryTypes
  <2> DEFINE g == i \div 4
             j == i % 4
  <2>2. g \in Nat /\ j \in 0 .. 3 /\ 4 * g + j = i /\ 4 * g < cols
    BY <2>1 DEF TernaryTypes
  <2> HIDE DEF g, j
  <2>3. T!Unpack(T!PackedByte(g), j) = T!Weight(i)
    BY <2>2, GroupUnpacks
  <2>4. i \in Cols
    BY <2>1, ColsAre
  <2>5. Terms[i] = T!Weight(i) * quant[i]
    BY <2>4, TermsAre
  <2> QED
    BY <2>3, <2>5 DEF T!ColumnDot, g, j
<1>2. [i \in a .. b - 1 |-> T!ColumnDot(i)] = [i \in a .. b - 1 |-> Terms[i]]
  BY <1>1
<1> QED
  BY <1>2, SameSum DEF T!ColumnsDot, SumOf

LEMMA ProductIs ==
  ASSUME TernaryTypes, NEW m \in Nat, m <= cols
  PROVE  T!Product(m) = SumOf(Terms, 0, m)
<1>1. ASSUME NEW i \in 0 .. m - 1
      PROVE  T!Weight(i) * quant[i] = Terms[i]
  <2>1. i \in Cols
    BY ColsAre DEF TernaryTypes
  <2> QED
    BY <2>1, TermsAre
<1>2. [i \in 0 .. m - 1 |-> T!Weight(i) * quant[i]]
        = [i \in 0 .. m - 1 |-> Terms[i]]
  BY <1>1
<1> QED
  BY <1>2, SameSum DEF T!Product, SumOf

\* A step over the next columns extends the sum.
LEMMA SumExtends ==
  ASSUME NEW f, NEW b \in Nat, NEW m \in Nat,
         \A i \in 0 .. b + m - 1 : f[i] \in Int
  PROVE  SumOf(f, 0, b + m) = SumOf(f, 0, b) + SumOf(f, b, b + m)
<1>1. b + m \in Int /\ b <= b + m /\ 0 <= b /\ b \in Int
  OBVIOUS
<1> QED
  BY <1>1, SumJoin

LEMMA NextColumns ==
  ASSUME TernaryTypes, NEW m \in Nat, c + m <= cols
  PROVE  SumOf(Terms, 0, c + m) = SumOf(Terms, 0, c) + SumOf(Terms, c, c + m)
<1>1. c \in Nat /\ \A i \in 0 .. c + m - 1 : Terms[i] \in Int
  BY ColsAre DEF TernaryTypes
<1> HIDE DEF Terms
<1> QED
  BY <1>1, SumExtends

-----------------------------------------------------------------------------
(* Four columns.                                                           *)

\* Four columns at once, from an offset that is a multiple of four.
LEMMA FourTerms ==
  ASSUME TernaryTypes, NEW g \in Nat, 4 * g < cols, 4 * g + 3 < cols
  PROVE  \A j \in 0 .. 3 :
           /\ T!Unpack(T!PackedByte(g), j) \in {-1, 0, 1}
           /\ quant[4 * g + j] \in Int
           /\ Terms[4 * g + j]
                = T!Unpack(T!PackedByte(g), j) * quant[4 * g + j]
           /\ Terms[4 * g + j] \in Int
<1> SUFFICES ASSUME NEW j \in 0 .. 3
             PROVE  /\ T!Unpack(T!PackedByte(g), j) \in {-1, 0, 1}
                    /\ quant[4 * g + j] \in Int
                    /\ Terms[4 * g + j]
                         = T!Unpack(T!PackedByte(g), j) * quant[4 * g + j]
                    /\ Terms[4 * g + j] \in Int
  OBVIOUS
<1>1. /\ 4 * g + j \in Cols
      /\ T!Unpack(T!PackedByte(g), j) = T!Weight(4 * g + j)
  BY GroupUnpacks
<1> QED
  BY <1>1, TermsAre

\* Two look-ups and a subtraction multiply four columns: the entry of a mask
\* is the sum of the activations it names.
LEMMA LutDotIs ==
  ASSUME NEW x0 \in Int, NEW x1 \in Int, NEW x2 \in Int, NEW x3 \in Int,
         NEW b, \A j \in 0 .. 3 : T!Unpack(b, j) \in {-1, 0, 1}
  PROVE  T!LutDot(T!BuildLut(x0, x1, x2, x3), b)
           = T!Unpack(b, 0) * x0 + T!Unpack(b, 1) * x1
             + T!Unpack(b, 2) * x2 + T!Unpack(b, 3) * x3
<1> DEFINE u0 == T!Unpack(b, 0)
           u1 == T!Unpack(b, 1)
           u2 == T!Unpack(b, 2)
           u3 == T!Unpack(b, 3)
           Only(u, w, z) == IF u = w THEN z ELSE 0
           lut == T!BuildLut(x0, x1, x2, x3)
           Named(w) == Only(u0, w, x0) + Only(u1, w, x1)
                       + Only(u2, w, x2) + Only(u3, w, x3)
<1>1. u0 \in {-1, 0, 1} /\ u1 \in {-1, 0, 1} /\ u2 \in {-1, 0, 1} /\ u3 \in {-1, 0, 1}
  OBVIOUS
<1>2. ASSUME NEW w \in {-1, 1}
      PROVE  lut[T!MaskOf(b, w) + 1] = Named(w)
  <2>1. T!MaskOf(b, w) = (IF u0 = w THEN 1 ELSE 0) + (IF u1 = w THEN 2 ELSE 0)
                         + (IF u2 = w THEN 4 ELSE 0) + (IF u3 = w THEN 8 ELSE 0)
    BY DEF T!MaskOf
  <2> HIDE DEF u0, u1, u2, u3
  <2>2. CASE u2 # w /\ u3 # w
    BY <2>1, <2>2 DEF T!BuildLut
  <2>3. CASE u2 = w /\ u3 # w
    BY <2>1, <2>3 DEF T!BuildLut
  <2>4. CASE u2 # w /\ u3 = w
    BY <2>1, <2>4 DEF T!BuildLut
  <2>5. CASE u2 = w /\ u3 = w
    BY <2>1, <2>5 DEF T!BuildLut
  <2> QED
    BY <2>2, <2>3, <2>4, <2>5
<1>3. ASSUME NEW u \in {-1, 0, 1}, NEW z \in Int
      PROVE  Only(u, 1, z) - Only(u, -1, z) = u * z
  BY <1>3
<1>4. T!LutDot(lut, b) = Named(1) - Named(-1)
  <2> HIDE DEF Named, lut
  <2> QED
    BY <1>2 DEF T!LutDot, T!PMask, T!NMask
<1> HIDE DEF u0, u1, u2, u3, lut
<1>5. /\ Only(u0, 1, x0) - Only(u0, -1, x0) = u0 * x0
      /\ Only(u1, 1, x1) - Only(u1, -1, x1) = u1 * x1
      /\ Only(u2, 1, x2) - Only(u2, -1, x2) = u2 * x2
      /\ Only(u3, 1, x3) - Only(u3, -1, x3) = u3 * x3
  BY <1>1, <1>3
<1> QED
  BY <1>4, <1>5 DEF u0, u1, u2, u3, lut

-----------------------------------------------------------------------------
(* AVX2.                                                                   *)

\* The shuffles bring column 4j + p of a step to byte 8p + j.
LEMMA DeinterleavedPlace ==
  ASSUME NEW p \in 0 .. 3, NEW j \in 0 .. 7
  PROVE  T!Deinterleaved(8 * p + j) = 4 * j + p
<1> DEFINE b == 8 * p + j
           byte == 4 * T!LanePerm[b \div 4 + 1] + (b % 4)
<1>1. T!Deinterleaved(b) = 16 * (byte \div 16) + T!DeintShuf[(byte % 16) + 1]
  BY DEF T!Deinterleaved
<1>2. CASE j < 4
  <2>1. b \div 4 = 2 * p /\ b % 4 = j
    BY <1>2
  <2>2. T!LanePerm[2 * p + 1] = p
    BY DEF T!LanePerm
  <2>3. byte = 4 * p + j
    BY <2>1, <2>2
  <2>4. byte \div 16 = 0 /\ byte % 16 = 4 * p + j
    BY <1>2, <2>3
  <2>5. T!DeintShuf[4 * p + j + 1] = 4 * j + p
    BY <1>2 DEF T!DeintShuf
  <2> QED
    BY <1>1, <2>4, <2>5
<1>3. CASE j >= 4
  <2>1. b \div 4 = 2 * p + 1 /\ b % 4 = j - 4
    BY <1>3
  <2>2. T!LanePerm[(2 * p + 1) + 1] = 4 + p
    BY DEF T!LanePerm
  <2>3. byte = 16 + 4 * p + (j - 4)
    BY <2>1, <2>2
  <2>4. byte \div 16 = 1 /\ byte % 16 = 4 * p + (j - 4)
    BY <1>3, <2>3
  <2>5. T!DeintShuf[4 * p + (j - 4) + 1] = 4 * (j - 4) + p
    BY <1>3 DEF T!DeintShuf
  <2> QED
    BY <1>1, <1>3, <2>4, <2>5
<1> QED
  BY <1>2, <1>3

LEMMA NarrowingInOrder == \A i \in 0 .. 31 : T!PackSource(i) = i
  BY DEF T!PackSource, T!LanePerm

\* Shifting and masking decode the same column.
LEMMA ShiftDecodes ==
  ASSUME TernaryTypes, NEW g \in Nat, 4 * g + 31 < cols,
         NEW p \in 0 .. 3, NEW j \in 0 .. 7
  PROVE  /\ T!ShiftDecoded(g, 8 * p + j) = T!Weight(4 * g + (4 * j + p))
         /\ 4 * g + (4 * j + p) \in Cols
<1>1. (8 * p + j) % 8 = j /\ (8 * p + j) \div 8 = p
  OBVIOUS
<1>2. g + j \in Nat /\ 4 * (g + j) < cols /\ 4 * (g + j) + p = 4 * g + (4 * j + p)
  BY DEF TernaryTypes
<1>3. /\ T!Bits(T!PackedByte(g + j), p) = row.code[4 * g + (4 * j + p)]
      /\ row.code[4 * g + (4 * j + p)] \in 0 .. 3
      /\ 4 * g + (4 * j + p) \in Cols
  BY <1>2, GroupUnpacks
<1> QED
  BY <1>1, <1>3 DEF T!ShiftDecoded, T!Weight

\* No sum of two bytes saturates, and the offset cancels.
LEMMA PairDotIs ==
  ASSUME NEW x0 \in -127 .. 127, NEW x1 \in -127 .. 127,
         NEW w0 \in {-1, 0, 1}, NEW w1 \in {-1, 0, 1}
  PROVE  T!PairDot(x0, x1, w0, w1) = w0 * x0 + w1 * x1
<1>1. CASE w0 = -1
  BY <1>1 DEF T!PairDot, T!Maddubs, T!Saturate16
<1>2. CASE w0 = 0
  BY <1>2 DEF T!PairDot, T!Maddubs, T!Saturate16
<1>3. CASE w0 = 1
  BY <1>3 DEF T!PairDot, T!Maddubs, T!Saturate16
<1> QED
  BY <1>1, <1>2, <1>3

\* A function of 1 .. m sums up like a list.
LEMMA WholeSum ==
  ASSUME NEW m \in Nat, NEW G, G = [i \in 1 .. m |-> G[i]]
  PROVE  T!SumFunction(G) = SumOf(G, 1, m + 1)
<1>1. (m + 1) - 1 = m
  OBVIOUS
<1> QED
  BY <1>1, SameSum DEF SumOf

\* Group number i of those after column c.
LEMMA GroupPlace ==
  ASSUME TernaryTypes, c % 4 = 0, NEW m \in Nat, c + 4 * m <= cols,
         NEW i \in 1 .. m
  PROVE  LET g == c \div 4 + (i - 1)
         IN  /\ g \in Nat /\ 4 * g = c + 4 * (i - 1) /\ 4 * g < cols
             /\ 4 * g + 3 < cols /\ g = c \div 4 + i - 1
<1>1. c \in Nat /\ cols \in Nat
  BY DEF TernaryTypes
<1>2. c \div 4 \in Nat /\ 4 * (c \div 4) = c
  BY <1>1
<1> DEFINE q == c \div 4
<1> HIDE DEF q
<1>3. /\ q + (i - 1) \in Nat /\ q + (i - 1) = q + i - 1
      /\ 4 * (q + (i - 1)) = 4 * q + 4 * (i - 1)
  BY <1>2 DEF q
<1>4. c + 4 * (i - 1) + 3 < cols
  BY <1>1
<1> QED
  BY <1>1, <1>2, <1>3, <1>4 DEF q

\* What group g adds.
GroupDot(g) ==
  LET b == T!PackedByte(g)
  IN  T!Unpack(b, 0) * quant[4 * g] + T!Unpack(b, 1) * quant[4 * g + 1]
      + T!Unpack(b, 2) * quant[4 * g + 2] + T!Unpack(b, 3) * quant[4 * g + 3]

\* Groups of four that multiply as they should.
LEMMA GroupsSum ==
  ASSUME TernaryTypes, c % 4 = 0, NEW m \in Nat, c + 4 * m <= cols,
         NEW G, G = [i \in 1 .. m |-> G[i]],
         \A i \in 1 .. m : G[i] = GroupDot(c \div 4 + (i - 1))
  PROVE  T!SumFunction(G) = SumOf(Terms, c, c + 4 * m)
<1>1. c \in Int /\ \A i \in c .. c + 4 * m - 1 : Terms[i] \in Int
  <2> SUFFICES ASSUME NEW i \in c .. c + 4 * m - 1 PROVE Terms[i] \in Int
    BY DEF TernaryTypes
  <2>1. i \in Int /\ 0 <= i /\ i < cols
    BY DEF TernaryTypes
  <2> QED
    BY <2>1, ColsAre
<1>2. ASSUME NEW i \in 1 .. m
      PROVE  G[i] = Terms[c + 4 * (i - 1)] + Terms[c + 4 * (i - 1) + 1]
                    + Terms[c + 4 * (i - 1) + 2] + Terms[c + 4 * (i - 1) + 3]
  <2> DEFINE g == c \div 4 + (i - 1)
             b == T!PackedByte(g)
  <2>1. /\ g \in Nat /\ 4 * g = c + 4 * (i - 1) /\ 4 * g < cols
        /\ 4 * g + 3 < cols
    BY GroupPlace
  <2>2. G[i] = T!Unpack(b, 0) * quant[4 * g] + T!Unpack(b, 1) * quant[4 * g + 1]
               + T!Unpack(b, 2) * quant[4 * g + 2]
               + T!Unpack(b, 3) * quant[4 * g + 3]
    BY DEF GroupDot
  <2> HIDE DEF g
  <2>3. \A j \in 0 .. 3 : Terms[4 * g + j] = T!Unpack(b, j) * quant[4 * g + j]
    BY <2>1, FourTerms
  <2>4. 4 * g + 0 = 4 * g
    BY <2>1
  <2>5. /\ Terms[4 * g] = T!Unpack(b, 0) * quant[4 * g]
        /\ Terms[4 * g + 1] = T!Unpack(b, 1) * quant[4 * g + 1]
        /\ Terms[4 * g + 2] = T!Unpack(b, 2) * quant[4 * g + 2]
        /\ Terms[4 * g + 3] = T!Unpack(b, 3) * quant[4 * g + 3]
    BY <2>3, <2>4
  <2> QED
    BY <2>1, <2>2, <2>5
<1>3. SumOf(G, 1, m + 1) = SumOf(Terms, c, c + 4 * m)
  <2> HIDE DEF Terms
  <2> QED
    BY <1>1, <1>2, SumGroups
<1> QED
  BY <1>3, WholeSum

LEMMA ScalarIs ==
  ASSUME TernaryTypes, LutsInv, luts # <<>>, c % 4 = 0
  PROVE  /\ Len(luts) \in Nat \ {0} /\ c + 4 * Len(luts) <= cols
         /\ T!SumFunction([g \in DOMAIN luts |->
              T!LutDot(luts[g], T!PackedByte(c \div 4 + g - 1))])
              = SumOf(Terms, c, c + 4 * Len(luts))
<1>1. PICK m \in Nat \ {0} :
        /\ c + 4 * m <= cols
        /\ luts = [g \in 1 .. m |->
             T!BuildLut(quant[c + 4 * (g - 1)], quant[c + 4 * (g - 1) + 1],
                        quant[c + 4 * (g - 1) + 2], quant[c + 4 * (g - 1) + 3])]
  BY DEF LutsInv
<1>2. Len(luts) = m /\ DOMAIN luts = 1 .. m
  BY <1>1
<1> DEFINE G == [g \in 1 .. m |->
                   T!LutDot(luts[g], T!PackedByte(c \div 4 + g - 1))]
<1>3. ASSUME NEW i \in 1 .. m
      PROVE  G[i] = GroupDot(c \div 4 + (i - 1))
  <2> DEFINE g == c \div 4 + (i - 1)
             b == T!PackedByte(g)
  <2>1. /\ g \in Nat /\ 4 * g = c + 4 * (i - 1) /\ 4 * g < cols
        /\ 4 * g + 3 < cols /\ g = c \div 4 + i - 1
    BY <1>1, GroupPlace
  <2>2. luts[i] = T!BuildLut(quant[4 * g], quant[4 * g + 1], quant[4 * g + 2],
                             quant[4 * g + 3])
    BY <1>1, <2>1
  <2>3. G[i] = T!LutDot(luts[i], b)
    BY <2>1
  <2> HIDE DEF g, G
  <2>4. \A j \in 0 .. 3 : /\ T!Unpack(b, j) \in {-1, 0, 1}
                          /\ quant[4 * g + j] \in Int
    BY <2>1, FourTerms
  <2>5. 4 * g + 0 = 4 * g
    BY <2>1
  <2>6. /\ quant[4 * g] \in Int /\ quant[4 * g + 1] \in Int
        /\ quant[4 * g + 2] \in Int /\ quant[4 * g + 3] \in Int
    BY <2>4, <2>5
  <2> HIDE DEF b
  <2>7. G[i] = T!Unpack(b, 0) * quant[4 * g] + T!Unpack(b, 1) * quant[4 * g + 1]
               + T!Unpack(b, 2) * quant[4 * g + 2]
               + T!Unpack(b, 3) * quant[4 * g + 3]
    BY <2>2, <2>3, <2>4, <2>6, LutDotIs, SMTT(30)
  <2> QED
    BY <2>7 DEF g, b, GroupDot
<1>4. G = [i \in 1 .. m |-> G[i]]
  OBVIOUS
<1> HIDE DEF G
<1>5. T!SumFunction(G) = SumOf(Terms, c, c + 4 * m)
  BY <1>1, <1>3, <1>4, GroupsSum
<1> QED
  BY <1>1, <1>2, <1>5 DEF G

LEMMA NeonIs ==
  ASSUME TernaryTypes, c % 4 = 0, c + 64 <= cols
  PROVE  T!NeonDot(c) = SumOf(Terms, c, c + 64)
<1> DEFINE G == [i \in 1 .. 16 |->
                   LET b == T!PackedByte(c \div 4 + (i - 1))
                       o == c + 4 * (i - 1)
                   IN  T!DecodeWeight(T!Bits(b, 0)) * quant[o + 0]
                       + T!DecodeWeight(T!Bits(b, 1)) * quant[o + 1]
                       + T!DecodeWeight(T!Bits(b, 2)) * quant[o + 2]
                       + T!DecodeWeight(T!Bits(b, 3)) * quant[o + 3]]
<1>1. T!NeonDot(c) = T!SumFunction(G)
  BY DEF T!NeonDot
<1>2. ASSUME NEW i \in 1 .. 16
      PROVE  G[i] = GroupDot(c \div 4 + (i - 1))
  <2>1. /\ c + 4 * (i - 1) = 4 * (c \div 4 + (i - 1))
        /\ c + 4 * (i - 1) + 0 = c + 4 * (i - 1)
    BY DEF TernaryTypes
  <2> QED
    BY <2>1 DEF T!Unpack, GroupDot
<1>3. G = [i \in 1 .. 16 |-> G[i]] /\ 4 * 16 = 64 /\ 16 \in Nat
  OBVIOUS
<1> HIDE DEF G
<1>4. T!SumFunction(G) = SumOf(Terms, c, c + 4 * 16)
  BY <1>2, <1>3, GroupsSum, ZenonT(60)
<1> QED
  BY <1>1, <1>3, <1>4

\* A pair of bytes multiplies two columns.
LEMMA PairIs ==
  ASSUME TernaryTypes, c % 4 = 0, c + 32 <= cols,
         NEW p \in 0 .. 3, NEW h \in 0 .. 3
  PROVE  LET a == 8 * p + 2 * h
         IN  /\ T!PairDot(quant[c + T!Deinterleaved(a)],
                          quant[c + T!Deinterleaved(a + 1)],
                          T!ShiftDecoded(c \div 4, a),
                          T!ShiftDecoded(c \div 4, a + 1))
                  = Terms[c + (8 * h + p)] + Terms[c + (8 * h + 4 + p)]
             /\ Terms[c + (8 * h + p)] \in Int /\ Terms[c + (8 * h + 4 + p)] \in Int
<1> DEFINE a == 8 * p + 2 * h
           g == c \div 4
<1>1. /\ g \in Nat /\ 4 * g = c /\ 4 * g + 31 < cols /\ c \in Nat
  BY DEF TernaryTypes
<1>2. ASSUME NEW j \in {2 * h, 2 * h + 1}
      PROVE  /\ T!Deinterleaved(8 * p + j) = 4 * j + p
             /\ T!ShiftDecoded(g, 8 * p + j) = T!Weight(c + (4 * j + p))
             /\ c + (4 * j + p) \in Cols
  <2>1. j \in 0 .. 7
    OBVIOUS
  <2> HIDE DEF g
  <2> QED
    BY <1>1, <2>1, DeinterleavedPlace, ShiftDecodes
<1>3. /\ 8 * p + (2 * h + 1) = a + 1 /\ 4 * (2 * h) + p = 8 * h + p
      /\ 4 * (2 * h + 1) + p = 8 * h + 4 + p
  OBVIOUS
<1>4. /\ T!Deinterleaved(a) = 8 * h + p
      /\ T!ShiftDecoded(g, a) = T!Weight(c + (8 * h + p))
      /\ c + (8 * h + p) \in Cols
  BY <1>2, <1>3
<1>5. /\ T!Deinterleaved(a + 1) = 8 * h + 4 + p
      /\ T!ShiftDecoded(g, a + 1) = T!Weight(c + (8 * h + 4 + p))
      /\ c + (8 * h + 4 + p) \in Cols
  BY <1>2, <1>3
<1> DEFINE r == c + (8 * h + p)
           s == c + (8 * h + 4 + p)
<1> HIDE DEF a, g, r, s
<1>6. /\ T!Weight(r) \in {-1, 0, 1} /\ T!Weight(s) \in {-1, 0, 1}
      /\ quant[r] \in -127 .. 127 /\ quant[s] \in -127 .. 127
      /\ Terms[r] = T!Weight(r) * quant[r] /\ Terms[s] = T!Weight(s) * quant[s]
      /\ Terms[r] \in Int /\ Terms[s] \in Int
  BY <1>4, <1>5, TermsAre DEF r, s
<1>7. T!PairDot(quant[r], quant[s], T!Weight(r), T!Weight(s)) = Terms[r] + Terms[s]
  <2> DEFINE x0 == quant[r]
             x1 == quant[s]
             w0 == T!Weight(r)
             w1 == T!Weight(s)
  <2>1. /\ x0 \in -127 .. 127 /\ x1 \in -127 .. 127
        /\ w0 \in {-1, 0, 1} /\ w1 \in {-1, 0, 1}
    BY <1>6
  <2> HIDE DEF x0, x1, w0, w1
  <2>2. T!PairDot(x0, x1, w0, w1) = w0 * x0 + w1 * x1
    BY <2>1, PairDotIs
  <2> QED
    BY <1>6, <2>2 DEF x0, x1, w0, w1
<1> QED
  BY <1>4, <1>5, <1>6, <1>7 DEF a, g, r, s

LEMMA Avx2Is ==
  ASSUME TernaryTypes, c % 4 = 0, c + 32 <= cols
  PROVE  T!Avx2Dot(c) = SumOf(Terms, c, c + 32)
<1> DEFINE G == [i \in 1 .. 16 |->
                   T!PairDot(quant[c + T!Deinterleaved(2 * i - 2)],
                             quant[c + T!Deinterleaved(2 * i - 1)],
                             T!ShiftDecoded(c \div 4, 2 * i - 2),
                             T!ShiftDecoded(c \div 4, 2 * i - 1))]
           e(o) == Terms[c + o]
<1>1. T!Avx2Dot(c) = T!SumFunction(G)
  BY DEF T!Avx2Dot
<1>2. ASSUME NEW p \in 0 .. 3, NEW h \in 0 .. 3
      PROVE  /\ G[4 * p + h + 1] = e(8 * h + p) + e(8 * h + 4 + p)
             /\ e(8 * h + p) \in Int /\ e(8 * h + 4 + p) \in Int
  <2> DEFINE i == 4 * p + h + 1
  <2>1. /\ i \in 1 .. 16 /\ 2 * i - 2 = 8 * p + 2 * h
        /\ 2 * i - 1 = 8 * p + 2 * h + 1
    OBVIOUS
  <2>2. G[i] = T!PairDot(quant[c + T!Deinterleaved(8 * p + 2 * h)],
                         quant[c + T!Deinterleaved(8 * p + 2 * h + 1)],
                         T!ShiftDecoded(c \div 4, 8 * p + 2 * h),
                         T!ShiftDecoded(c \div 4, 8 * p + 2 * h + 1))
    BY <2>1
  <2> HIDE DEF G, i
  <2> QED
    BY <2>2, PairIs DEF i
<1>3. G = [i \in 1 .. 16 |-> G[i]]
  OBVIOUS
<1>4. c \in Int /\ \A i \in c .. c + 31 : Terms[i] \in Int
  <2> SUFFICES ASSUME NEW i \in c .. c + 31 PROVE Terms[i] \in Int
    BY DEF TernaryTypes
  <2>1. i \in Int /\ 0 <= i /\ i < cols
    BY DEF TernaryTypes
  <2> QED
    BY <2>1, ColsAre
<1> HIDE DEF G, e
<1>5. /\ G[1] = e(0) + e(4)    /\ G[2] = e(8) + e(12)
      /\ G[3] = e(16) + e(20)  /\ G[4] = e(24) + e(28)
  <2>1. \A h \in 0 .. 3 : G[4 * 0 + h + 1] = e(8 * h + 0) + e(8 * h + 4 + 0)
    BY <1>2
  <2> QED
    BY <2>1
<1>6. /\ G[5] = e(1) + e(5)    /\ G[6] = e(9) + e(13)
      /\ G[7] = e(17) + e(21)  /\ G[8] = e(25) + e(29)
  <2>1. \A h \in 0 .. 3 : G[4 * 1 + h + 1] = e(8 * h + 1) + e(8 * h + 4 + 1)
    BY <1>2
  <2> QED
    BY <2>1
<1>7. /\ G[9] = e(2) + e(6)    /\ G[10] = e(10) + e(14)
      /\ G[11] = e(18) + e(22) /\ G[12] = e(26) + e(30)
  <2>1. \A h \in 0 .. 3 : G[4 * 2 + h + 1] = e(8 * h + 2) + e(8 * h + 4 + 2)
    BY <1>2
  <2> QED
    BY <2>1
<1>8. /\ G[13] = e(3) + e(7)   /\ G[14] = e(11) + e(15)
      /\ G[15] = e(19) + e(23) /\ G[16] = e(27) + e(31)
  <2>1. \A h \in 0 .. 3 : G[4 * 3 + h + 1] = e(8 * h + 3) + e(8 * h + 4 + 3)
    BY <1>2
  <2> QED
    BY <2>1
<1>9. \A i \in 0 .. 31 : e(i) \in Int
  BY <1>4 DEF e
<1>10. SumOf(G, 1, 17)
         = G[1] + G[2] + G[3] + G[4] + (G[5] + G[6] + G[7] + G[8])
           + (G[9] + G[10] + G[11] + G[12]) + (G[13] + G[14] + G[15] + G[16])
  <2>1. \A i \in 1 .. 1 + 15 : G[i] \in Int
    <3> SUFFICES ASSUME NEW i \in 1 .. 16 PROVE G[i] \in Int
      OBVIOUS
    <3> DEFINE p == (i - 1) \div 4
               h == (i - 1) % 4
    <3>1. p \in 0 .. 3 /\ h \in 0 .. 3 /\ i = 4 * p + h + 1
      OBVIOUS
    <3> HIDE DEF p, h
    <3> QED
      BY <1>2, <3>1
  <2> DEFINE o == 1
  <2>2. /\ o = 1 /\ o \in Int /\ o + 16 = 17 /\ o + 1 = 2 /\ o + 2 = 3 /\ o + 3 = 4
        /\ o + 4 = 5 /\ o + 5 = 6 /\ o + 6 = 7 /\ o + 7 = 8 /\ o + 8 = 9
        /\ o + 9 = 10 /\ o + 10 = 11 /\ o + 11 = 12 /\ o + 12 = 13
        /\ o + 13 = 14 /\ o + 14 = 15 /\ o + 15 = 16
    OBVIOUS
  <2>3. \A i \in o .. o + 15 : G[i] \in Int
    BY <2>1
  <2> HIDE DEF o
  <2>4. SumOf(G, o, o + 16)
          = G[o] + G[o + 1] + G[o + 2] + G[o + 3]
            + (G[o + 4] + G[o + 5] + G[o + 6] + G[o + 7])
            + (G[o + 8] + G[o + 9] + G[o + 10] + G[o + 11])
            + (G[o + 12] + G[o + 13] + G[o + 14] + G[o + 15])
    BY <2>2, <2>3, SumSixteen
  <2> QED
    BY <2>2, <2>4
<1>11. SumOf(Terms, c, c + 32)
         = e(0) + e(1) + e(2) + e(3) + (e(4) + e(5) + e(6) + e(7))
           + (e(8) + e(9) + e(10) + e(11)) + (e(12) + e(13) + e(14) + e(15))
           + (e(16) + e(17) + e(18) + e(19) + (e(20) + e(21) + e(22) + e(23))
              + (e(24) + e(25) + e(26) + e(27))
              + (e(28) + e(29) + e(30) + e(31)))
  <2> HIDE DEF Terms
  <2> QED
    BY <1>4, SumThirtyTwo DEF e
<1>14. SumOf(G, 1, 17) = SumOf(Terms, c, c + 32)
  <2> DEFINE s == SumOf(G, 1, 17)
             t == SumOf(Terms, c, c + 32)
  <2>1. t = e(0) + e(1) + e(2) + e(3) + (e(4) + e(5) + e(6) + e(7))
            + (e(8) + e(9) + e(10) + e(11)) + (e(12) + e(13) + e(14) + e(15))
            + (e(16) + e(17) + e(18) + e(19) + (e(20) + e(21) + e(22) + e(23))
               + (e(24) + e(25) + e(26) + e(27))
               + (e(28) + e(29) + e(30) + e(31)))
    BY <1>11
  <2>2. s = (e(0) + e(4)) + (e(8) + e(12)) + (e(16) + e(20)) + (e(24) + e(28))
            + ((e(1) + e(5)) + (e(9) + e(13)) + (e(17) + e(21)) + (e(25) + e(29)))
            + ((e(2) + e(6)) + (e(10) + e(14)) + (e(18) + e(22)) + (e(26) + e(30)))
            + ((e(3) + e(7)) + (e(11) + e(15)) + (e(19) + e(23)) + (e(27) + e(31)))
    BY <1>5, <1>6, <1>7, <1>8, <1>10
  <2> HIDE DEF s, t
  <2>3. s = t
    BY <1>9, <2>1, <2>2
  <2> QED
    BY <2>3 DEF s, t
<1>15. T!SumFunction(G) = SumOf(G, 1, 16 + 1)
  BY <1>3, WholeSum
<1> QED
  BY <1>1, <1>14, <1>15

\* Every rounding is to a nearest integer, within what a byte holds.
LEMMA QuantisedIs ==
  ASSUME TernaryTypes, NEW i \in Nat, i < cols
  PROVE  /\ 4 * T!Quantised(i) - row.scaled[i] \in -2 .. 2
         /\ T!Quantised(i) \in -127 .. 127
<1>1. i \in Cols /\ row.scaled[i] \in -508 .. 508
  BY ColsAre DEF TernaryTypes
<1> DEFINE a == row.scaled[i]
<1>2. a \in -508 .. 508
  BY <1>1
<1>3. 32 * (i \div 32) + T!PackSource(i % 32) = i
  <2>1. i % 32 \in 0 .. 31 /\ 32 * (i \div 32) + (i % 32) = i
    OBVIOUS
  <2> QED
    BY <2>1, NarrowingInOrder
<1>4. T!Quantised(i) \in {T!Clamp(T!RoundEven(a)), T!Clamp(T!RoundAway(a))}
  BY <1>3 DEF T!Quantised
<1> HIDE DEF a
<1>5. T!RoundEven(a) \in -127 .. 127 /\ 4 * T!RoundEven(a) - a \in -2 .. 2
  <2> DEFINE low == a \div 4
             r == a % 4
  <2>1. low \in Int /\ r \in 0 .. 3 /\ a = 4 * low + r
    BY <1>2
  <2>2. T!RoundEven(a) = IF r > 2 \/ (r = 2 /\ low % 2 = 1) THEN low + 1 ELSE low
    BY DEF T!RoundEven
  <2> HIDE DEF low, r
  <2>3. low \in -127 .. 127 /\ (r > 0 => low < 127)
    BY <1>2, <2>1
  <2> QED
    BY <2>1, <2>2, <2>3
<1>6. T!RoundAway(a) \in -127 .. 127 /\ 4 * T!RoundAway(a) - a \in -2 .. 2
  <2>1. CASE a >= 0
    BY <1>2, <2>1 DEF T!RoundAway
  <2>2. CASE a < 0
    BY <1>2, <2>2 DEF T!RoundAway
  <2> QED
    BY <1>2, <2>1, <2>2
<1>7. \A q \in -127 .. 127 : T!Clamp(q) = q
  BY DEF T!Clamp
<1> QED
  BY <1>4, <1>5, <1>6, <1>7 DEF a

LEMMA TernaryStart == KernelsInit => TernaryInv
<1> SUFFICES ASSUME KernelsInit PROVE TernaryInv
  OBVIOUS
<1>1. /\ bitlinear \in {"scalar", "avx2", "neon"} /\ cols \in Widths
      /\ row \in Rows[cols] /\ quant = [j \in Cols |-> 0]
      /\ c = 0 /\ luts = <<>> /\ total = 0 /\ phase = "prepare"
  BY DEF KernelsInit, T!Init, Cols
<1>2. TernaryTypes
  <2>1. cols \in 1 .. MaxWidth
    BY <1>1, TernaryAssumption
  <2>2. row \in [code : [Cols -> 0 .. 3], scaled : [Cols -> -508 .. 508]]
    BY <1>1, TernaryAssumption DEF Cols
  <2>3. quant \in [Cols -> -127 .. 127]
    BY <1>1
  <2>4. c \in Nat /\ c <= cols
    BY <1>1, <2>1
  <2> QED
    BY <1>1, <2>1, <2>2, <2>3, <2>4 DEF TernaryTypes
<1>3. SumOf(Terms, 0, c) = 0
  <2> HIDE DEF Terms
  <2> QED
    BY <1>1, SumNone
<1>4. LutsInv /\ SumInv /\ QuantNearest
  BY <1>1, <1>3 DEF LutsInv, SumInv, QuantNearest, T!QuantNearest
<1> QED
  BY <1>2, <1>4 DEF TernaryInv

\* Columns are added to the sum while row and activations stand.
LEMMA TernaryFrame ==
  ASSUME TernaryInv, UNCHANGED <<bitlinear, entry, cols, row, quant>>,
         c' \in Nat, c' <= cols, phase # "prepare",
         phase' \in {"rows", "tail", "done"}
  PROVE  TernaryTypes' /\ Terms' = Terms /\ QuantNearest'
<1>1. TernaryTypes'
  BY DEF TernaryInv, TernaryTypes
<1>2. Terms' = Terms
  BY DEF Terms, T!Weight
<1>3. QuantNearest'
  BY DEF TernaryInv, QuantNearest, T!QuantNearest
<1> QED
  BY <1>1, <1>2, <1>3

LEMMA PrepareKeeps == TernaryInv /\ T!Prepare => TernaryInv'
<1> SUFFICES ASSUME TernaryInv, T!Prepare PROVE TernaryInv'
  OBVIOUS
<1> USE DEF TernaryInv
<1>1. /\ phase = "prepare" /\ phase' = "rows" /\ c = 0 /\ luts = <<>> /\ total = 0
      /\ UNCHANGED <<bitlinear, entry, cols, row, c, luts, total>>
      /\ quant' = [j \in DOMAIN quant |-> IF j < cols THEN T!Quantised(j)
                                          ELSE quant[j]]
  BY DEF T!Prepare, SumInv
<1>2. cols \in Nat /\ quant \in [Cols -> -127 .. 127] /\ Cols \subseteq Nat
  BY DEF TernaryTypes, Cols
<1>3. quant' \in [Cols -> -127 .. 127]
  BY <1>1, <1>2, QuantisedIs
<1>4. TernaryTypes'
  BY <1>1, <1>3 DEF TernaryTypes
<1>5. QuantNearest'
  <2> SUFFICES ASSUME NEW j \in 0 .. cols - 1
               PROVE  4 * quant'[j] - row.scaled[j] \in -2 .. 2
                      /\ quant'[j] \in -127 .. 127
    BY <1>1 DEF QuantNearest, T!QuantNearest
  <2>1. j \in Nat /\ j < cols /\ j \in Cols
    BY <1>2, ColsAre
  <2>2. quant'[j] = T!Quantised(j)
    BY <1>1, <1>2, <2>1
  <2> QED
    BY <2>1, <2>2, QuantisedIs
<1>6. LutsInv'
  BY <1>1 DEF LutsInv
<1>7. SumOf(Terms', 0, 0) = 0
  BY SumNone
<1>8. SumInv'
  BY <1>1, <1>7 DEF SumInv
<1> QED
  BY <1>4, <1>5, <1>6, <1>8

LEMMA BuildLutsKeeps == TernaryInv /\ T!BuildLuts => TernaryInv'
<1> SUFFICES ASSUME TernaryInv, T!BuildLuts PROVE TernaryInv'
  OBVIOUS
<1> DEFINE first == c \div 4
           m == IF first + TmacBlock > T!Groups THEN T!Groups - first ELSE TmacBlock
<1>1. /\ bitlinear = "scalar" /\ phase = "rows" /\ luts = <<>> /\ first < T!Groups
      /\ UNCHANGED <<bitlinear, entry, cols, row, quant, c, total, phase>>
      /\ luts' = [g \in 1 .. m |->
           T!BuildLut(quant[4 * (first + g - 1)], quant[4 * (first + g - 1) + 1],
                      quant[4 * (first + g - 1) + 2], quant[4 * (first + g - 1) + 3])]
  BY DEF T!BuildLuts
<1>2. /\ c \in Nat /\ c <= cols /\ cols \in Nat /\ c % 4 = 0
      /\ total = SumOf(Terms, 0, c)
  BY <1>1 DEF TernaryInv, TernaryTypes, SumInv
<1>3. /\ first \in Nat /\ c = 4 * first /\ T!Groups \in Nat /\ 4 * T!Groups <= cols
  BY <1>2 DEF T!Groups
<1>4. TmacBlock \in Nat \ {0}
  BY TernaryAssumption
<1>5. TernaryTypes' /\ Terms' = Terms /\ QuantNearest'
  BY <1>1, <1>2, TernaryFrame
<1> HIDE DEF first
<1>6. m \in Nat \ {0} /\ c + 4 * m <= cols
  BY <1>1, <1>2, <1>3, <1>4
<1> HIDE DEF m
<1>7. \A g \in 1 .. m : 4 * (first + g - 1) = c + 4 * (g - 1)
  BY <1>3, <1>6
<1>8. luts' = [g \in 1 .. m |->
           T!BuildLut(quant[c + 4 * (g - 1)], quant[c + 4 * (g - 1) + 1],
                      quant[c + 4 * (g - 1) + 2], quant[c + 4 * (g - 1) + 3])]
  BY <1>1, <1>7
<1>9. LutsInv'
  BY <1>1, <1>6, <1>8 DEF LutsInv
<1>10. SumInv'
  BY <1>1, <1>2, <1>5 DEF SumInv
<1> QED
  BY <1>5, <1>9, <1>10 DEF TernaryInv

\* A kernel goes on by m columns.
LEMMA StepOn ==
  ASSUME TernaryInv, UNCHANGED <<bitlinear, entry, cols, row, quant, phase>>,
         phase = "rows", NEW m \in Nat, m % 4 = 0, c + m <= cols,
         c' = c + m, luts' = <<>>, total' = total + SumOf(Terms, c, c + m)
  PROVE  TernaryInv'
<1>1. c \in Nat /\ c % 4 = 0 /\ TernaryTypes /\ total = SumOf(Terms, 0, c)
  BY DEF TernaryInv, TernaryTypes, SumInv
<1>2. c' \in Nat /\ c' <= cols /\ c' % 4 = 0
  BY <1>1
<1>3. TernaryTypes' /\ Terms' = Terms /\ QuantNearest'
  BY <1>2, TernaryFrame
<1>4. SumOf(Terms, 0, c + m) = SumOf(Terms, 0, c) + SumOf(Terms, c, c + m)
  BY <1>1, NextColumns
<1>5. total' = SumOf(Terms', 0, c')
  BY <1>1, <1>3, <1>4
<1>6. SumInv'
  BY <1>2, <1>5 DEF SumInv
<1> QED
  BY <1>3, <1>6 DEF TernaryInv, LutsInv

LEMMA ScalarBlockKeeps == TernaryInv /\ T!ScalarBlock => TernaryInv'
<1> SUFFICES ASSUME TernaryInv, T!ScalarBlock PROVE TernaryInv'
  OBVIOUS
<1>1. /\ phase = "rows" /\ luts # <<>>
      /\ total' = total + T!SumFunction([g \in DOMAIN luts |->
                            T!LutDot(luts[g], T!PackedByte(c \div 4 + g - 1))])
      /\ c' = c + 4 * Len(luts) /\ luts' = <<>>
      /\ UNCHANGED <<bitlinear, entry, cols, row, quant, phase>>
  BY DEF T!ScalarBlock
<1>2. TernaryTypes /\ LutsInv /\ c % 4 = 0
  BY <1>1 DEF TernaryInv, SumInv
<1> DEFINE m == 4 * Len(luts)
<1>3. /\ m \in Nat /\ m % 4 = 0 /\ c + m <= cols
      /\ total' = total + SumOf(Terms, c, c + m)
  BY <1>1, <1>2, ScalarIs
<1> HIDE DEF m
<1> QED
  BY <1>1, <1>3, StepOn DEF m

LEMMA Avx2StepKeeps == TernaryInv /\ T!Avx2Step => TernaryInv'
<1> SUFFICES ASSUME TernaryInv, T!Avx2Step PROVE TernaryInv'
  OBVIOUS
<1>1. /\ bitlinear = "avx2" /\ phase = "rows" /\ c + 32 <= cols
      /\ total' = total + T!Avx2Dot(c) /\ c' = c + 32
      /\ UNCHANGED <<bitlinear, entry, cols, row, quant, luts, phase>>
  BY DEF T!Avx2Step
<1>2. TernaryTypes /\ c % 4 = 0 /\ luts = <<>>
  BY <1>1 DEF TernaryInv, SumInv, LutsInv
<1>3. T!Avx2Dot(c) = SumOf(Terms, c, c + 32)
  BY <1>1, <1>2, Avx2Is
<1>4. 32 \in Nat /\ 32 % 4 = 0
  OBVIOUS
<1> QED
  BY <1>1, <1>2, <1>3, <1>4, StepOn

LEMMA NeonStepKeeps == TernaryInv /\ T!NeonStep => TernaryInv'
<1> SUFFICES ASSUME TernaryInv, T!NeonStep PROVE TernaryInv'
  OBVIOUS
<1>1. /\ bitlinear = "neon" /\ phase = "rows" /\ c \div 4 + 16 <= T!Groups
      /\ total' = total + T!NeonDot(c) /\ c' = c + 64
      /\ UNCHANGED <<bitlinear, entry, cols, row, quant, luts, phase>>
  BY DEF T!NeonStep
<1>2. TernaryTypes /\ c % 4 = 0 /\ luts = <<>>
  BY <1>1 DEF TernaryInv, SumInv, LutsInv
<1>3. c + 64 <= cols
  BY <1>1, <1>2 DEF TernaryTypes, T!Groups
<1>4. T!NeonDot(c) = SumOf(Terms, c, c + 64)
  BY <1>2, <1>3, NeonIs
<1>5. 64 \in Nat /\ 64 % 4 = 0
  OBVIOUS
<1> QED
  BY <1>1, <1>2, <1>3, <1>4, <1>5, StepOn

\* The end of the wide steps changes nothing but the phase.
LEMMA RowsDoneKeeps ==
  TernaryInv /\ (T!ScalarRowsDone \/ T!Avx2RowsDone) => TernaryInv'
<1> SUFFICES ASSUME TernaryInv, T!ScalarRowsDone \/ T!Avx2RowsDone
             PROVE  TernaryInv'
  OBVIOUS
<1>1. /\ bitlinear \in {"scalar", "avx2"} /\ phase = "rows" /\ phase' = "tail"
      /\ UNCHANGED <<bitlinear, entry, cols, row, quant, c, luts, total>>
      /\ luts = <<>>
  BY DEF T!ScalarRowsDone, T!Avx2RowsDone, TernaryInv, LutsInv
<1>2. c \in Nat /\ c <= cols /\ total = SumOf(Terms, 0, c)
  BY DEF TernaryInv, TernaryTypes, SumInv
<1>3. TernaryTypes' /\ Terms' = Terms /\ QuantNearest'
  BY <1>1, <1>2, TernaryFrame
<1>4. SumInv'
  BY <1>1, <1>2, <1>3 DEF SumInv
<1> QED
  BY <1>1, <1>3, <1>4 DEF TernaryInv, LutsInv

\* The narrower loops go on to column b.
LEMMA FinishTo ==
  ASSUME TernaryInv, NEW b \in Nat, c <= b, b <= cols
  PROVE  total + T!ColumnsDot(c, b) = SumOf(Terms, 0, b)
<1>1. c \in Nat /\ TernaryTypes /\ total = SumOf(Terms, 0, c)
  <2>1. TernaryTypes /\ total = SumOf(Terms, 0, c)
    BY DEF TernaryInv, SumInv
  <2> QED
    BY <2>1 DEF TernaryTypes
<1>2. T!ColumnsDot(c, b) = SumOf(Terms, c, b)
  BY <1>1, ColumnsDotIs
<1> DEFINE m == b - c
<1>3. m \in Nat /\ c + m = b
  BY <1>1
<1> HIDE DEF m
<1>4. SumOf(Terms, 0, c + m) = SumOf(Terms, 0, c) + SumOf(Terms, c, c + m)
  BY <1>1, <1>3, NextColumns
<1> QED
  BY <1>1, <1>2, <1>3, <1>4

LEMMA NeonGroupsKeeps == TernaryInv /\ T!NeonGroups => TernaryInv'
<1> SUFFICES ASSUME TernaryInv, T!NeonGroups PROVE TernaryInv'
  OBVIOUS
<1> DEFINE b == 4 * T!Groups
<1>1. /\ bitlinear = "neon" /\ phase = "rows" /\ phase' = "tail"
      /\ total' = total + T!ColumnsDot(c, b) /\ c' = b
      /\ UNCHANGED <<bitlinear, entry, cols, row, quant, luts>>
  BY DEF T!NeonGroups
<1>2. c \in Nat /\ c <= cols /\ cols \in Nat /\ c % 4 = 0 /\ luts = <<>>
  BY <1>1 DEF TernaryInv, TernaryTypes, SumInv, LutsInv
<1>3. b \in Nat /\ c <= b /\ b <= cols /\ b = 4 * (cols \div 4)
  BY <1>2 DEF T!Groups
<1> HIDE DEF b
<1>4. total' = SumOf(Terms, 0, b)
  BY <1>1, <1>3, FinishTo
<1>5. TernaryTypes' /\ Terms' = Terms /\ QuantNearest'
  BY <1>1, <1>3, TernaryFrame
<1>6. SumInv'
  BY <1>1, <1>3, <1>4, <1>5 DEF SumInv
<1> QED
  BY <1>1, <1>2, <1>5, <1>6 DEF TernaryInv, LutsInv

LEMMA RemainingKeeps == TernaryInv /\ T!RemainingColumns => TernaryInv'
<1> SUFFICES ASSUME TernaryInv, T!RemainingColumns PROVE TernaryInv'
  OBVIOUS
<1> DEFINE left == bitlinear = "neon" /\ entry = "row_worker"
<1>1. /\ phase = "tail" /\ phase' = "done"
      /\ IF left THEN UNCHANGED <<total, c>>
         ELSE total' = total + T!ColumnsDot(c, cols) /\ c' = cols
      /\ UNCHANGED <<bitlinear, entry, cols, row, quant, luts>>
  BY DEF T!RemainingColumns
<1>2. /\ c \in Nat /\ c <= cols /\ cols \in Nat /\ luts = <<>>
      /\ total = SumOf(Terms, 0, c)
      /\ left => c = 4 * (cols \div 4)
  BY <1>1 DEF TernaryInv, TernaryTypes, SumInv, LutsInv
<1>3. c' \in Nat /\ c' <= cols /\ total' = SumOf(Terms, 0, c')
  BY <1>1, <1>2, FinishTo
<1>4. TernaryTypes' /\ Terms' = Terms /\ QuantNearest'
  BY <1>1, <1>3, TernaryFrame
<1>5. c' = IF left THEN 4 * (cols \div 4) ELSE cols
  BY <1>1, <1>2
<1>6. SumInv'
  BY <1>1, <1>3, <1>4, <1>5 DEF SumInv
<1> QED
  BY <1>1, <1>2, <1>4, <1>6 DEF TernaryInv, LutsInv

LEMMA TernaryStill == TernaryInv /\ UNCHANGED ternary => TernaryInv'
<1> SUFFICES ASSUME TernaryInv, UNCHANGED ternary PROVE TernaryInv'
  OBVIOUS
<1> USE DEF ternary
<1>1. TernaryTypes'
  BY DEF TernaryInv, TernaryTypes
<1>5. LutsInv'
  BY DEF TernaryInv, LutsInv
<1>2. Terms' = Terms
  BY DEF Terms, T!Weight
<1>3. SumInv'
  BY <1>2 DEF TernaryInv, SumInv
<1>4. QuantNearest'
  BY DEF TernaryInv, QuantNearest, T!QuantNearest
<1> QED
  BY <1>1, <1>3, <1>4, <1>5 DEF TernaryInv

\* The invariant of every kernel at work on a row: its tables are those of
\* the next columns, and its sum is that of the columns it has passed.
THEOREM RowsInvariant == KernelsSpec => []TernaryInv
<1>1. TernaryInv /\ [KernelsNext]_kernels => TernaryInv'
  <2> SUFFICES ASSUME TernaryInv, [KernelsNext]_kernels PROVE TernaryInv'
    OBVIOUS
  <2>1. CASE UNCHANGED ternary
    BY <2>1, TernaryStill
  <2>2. CASE T!Next
    <3>1. CASE phase = "done" /\ UNCHANGED T!vars
      BY <2>1, <3>1 DEF T!vars, ternary
    <3> QED
      BY <2>2, <3>1, PrepareKeeps, BuildLutsKeeps, ScalarBlockKeeps,
         RowsDoneKeeps, Avx2StepKeeps, NeonStepKeeps, NeonGroupsKeeps,
         RemainingKeeps DEF T!Next
  <2> QED
    BY <2>1, <2>2 DEF KernelsNext, Project, Convolve, kernels
<1> QED
  BY <1>1, TernaryStart, PTL DEF KernelsSpec

\* Whatever the order in which a kernel takes the columns, by look-ups, by
\* shuffled bytes with an offset, by deinterleaved lanes or one by one, a row
\* is the product of its weights and activations, for every width, every row
\* of codes and every block size.
THEOREM RowsPrefixExact == KernelsSpec => []PrefixExact
<1>1. TernaryInv => PrefixExact
  <2> SUFFICES ASSUME TernaryInv PROVE PrefixExact
    OBVIOUS
  <2>1. TernaryTypes /\ c \in Nat /\ c <= cols
    BY DEF TernaryInv, TernaryTypes
  <2>2. total = T!Product(c)
    BY <2>1, ProductIs DEF TernaryInv, SumInv
  <2> QED
    BY <2>1, <2>2 DEF PrefixExact, T!PrefixExact, TernaryInv, SumInv
<1> QED
  BY <1>1, RowsInvariant, PTL

\* Every activation is rounded to a nearest integer, stored at its own column
\* though the narrowing shuffles them, and no -128 ever arises.
THEOREM RowsQuantNearest == KernelsSpec => []QuantNearest
<1>1. TernaryInv => QuantNearest
  BY DEF TernaryInv
<1> QED
  BY <1>1, RowsInvariant, PTL
=============================================================================
