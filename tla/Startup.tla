------------------------------- MODULE Startup -------------------------------
(***************************************************************************)
(* From main's first call to its last: the pool, model_load with every way *)
(* it can fail, the tokenizer, and the release in reverse (src/src/main.c, *)
(* src/src/model.c, src/src/block.c, src/src/tokenizer.c).  A model file   *)
(* is a header and a sequence of tensors, each known by its layout; it may *)
(* be cut short anywhere.                                                  *)
(***************************************************************************)
EXTENDS Integers, Sequences, FiniteSets

CONSTANTS
  NLayers, DModel, Vocab, Expand, ConvTaps,  \* sizes of the model
  HeadCounts,   \* the numbers of heads a header may state
  NodeThreads   \* bm_get_node_threads of nodes 1, 2, ... behind node 0

ASSUME SizesAssumption ==
  /\ {NLayers, DModel, Vocab, Expand, ConvTaps} \subseteq Nat \ {0}
  /\ HeadCounts \subseteq Nat \ {0}
  /\ NodeThreads \in Seq(Nat)

VARIABLES
  pc,
  heads, file, whole,  \* the file: n_heads, its tensors, how many complete
  nread,               \* how many tensors model_load has read
  held,                \* what is allocated, mapped or open
  useGpu,              \* m->use_gpu
  ok                   \* whether main gets to its last call

vars == <<pc, heads, file, whole, nread, held, useGpu, ok>>
fileVars == <<heads, file, whole>>

DInner == DModel * Expand
Layers == 1 .. NLayers

\* The tensors in file order; 0 is the model itself.
BlockTensors == <<"in_proj_norm", "in_proj", "conv1d_w", "conv1d_b", "dt_bias",
                  "A_log", "D", "out_proj_norm", "out_proj">>
Order == [k \in 1 .. 9 * NLayers + 4 |->
            CASE k = 1 -> <<0, "embed">>
              [] k \in 2 .. 9 * NLayers + 1 ->
                   <<((k - 2) \div 9) + 1, BlockTensors[((k - 2) % 9) + 1]>>
              [] k = 9 * NLayers + 2 -> <<0, "norm_f">>
              [] k = 9 * NLayers + 3 -> <<0, "lm_head_norm">>
              [] k = 9 * NLayers + 4 -> <<0, "lm_head">>]
Names == {Order[k] : k \in DOMAIN Order}

\* read_tensor_mmap: what is known of a tensor that was read.
Packed(r, c) == [is_bitnet |-> TRUE, rows |-> r, cols |-> c, n |-> r * c]
Vector(d) == [is_bitnet |-> FALSE, rows |-> d, cols |-> 0, n |-> d]
Matrix(r, c) == [is_bitnet |-> FALSE, rows |-> r, cols |-> c, n |-> r * c]

\* The layouts of an exported model.
Exported(h) ==
  [t \in Names |->
     CASE t[2] = "embed" -> Matrix(Vocab, DModel)
       [] t[2] = "in_proj" -> Packed(2 * DInner + 3 * h, DModel)
       [] t[2] = "conv1d_w" -> Matrix(DInner, ConvTaps)
       [] t[2] \in {"conv1d_b", "D", "out_proj_norm"} -> Vector(DInner)
       [] t[2] \in {"dt_bias", "A_log"} -> Vector(h)
       [] t[2] = "out_proj" -> Packed(DModel, DInner)
       [] t[2] = "lm_head" -> Packed(Vocab, DModel)
       [] OTHER -> Vector(DModel)]

\* Layouts near a right one: sizes off by one, transposed, wrong type.
Near(t) ==
  {u \in IF t.is_bitnet
         THEN {Packed(t.rows + 1, t.cols), Packed(t.rows - 1, t.cols),
               Packed(t.rows, t.cols + 1), Packed(t.cols, t.rows),
               Matrix(t.rows, t.cols)}
         ELSE {Vector(t.n + 1), Vector(t.n - 1), Packed(t.n, 1)} :
     u.n > 0}

-----------------------------------------------------------------------------
(* Resources: <<what, layer, node>>.                                       *)

Res(what) == <<what, 0, 0>>
Of(what, S) == {<<what, i, 0>> : i \in S}
PoolRes == Res("pool")
Map == Res("map")
Metal == {Res("metal device"), Res("metal map")}
Buffers == {Res("buffers"), Res("scalar lut")}
RemoteNodes == {k \in DOMAIN NodeThreads : NodeThreads[k] > 0}
Replicas == {<<w, i, k>> : w \in {"in_proj", "out_proj"}, i \in Layers,
                           k \in RemoteNodes}
              \cup {<<"lm_head", 0, k>> : k \in RemoteNodes}

\* The validation of model_load after the last tensor.
FloatTensors ==
  {"embed", "norm_f", "lm_head_norm", "in_proj_norm", "out_proj_norm",
   "conv1d_w", "conv1d_b", "dt_bias", "A_log", "D"}
AtLeast(t) ==
  CASE t[2] \in {"norm_f", "lm_head_norm", "in_proj_norm"} -> DModel
    [] t[2] = "embed" -> Vocab * DModel
    [] t[2] = "conv1d_w" -> DInner * ConvTaps
    [] t[2] \in {"conv1d_b", "D", "out_proj_norm"} -> DInner
    [] t[2] \in {"dt_bias", "A_log"} -> heads
    [] OTHER -> 0

ShapeOk(t) ==
  CASE t[2] = "lm_head" -> file[t].rows = Vocab /\ file[t].cols = DModel
    [] t[2] = "in_proj" -> /\ file[t].rows = 2 * DInner + 3 * heads
                           /\ file[t].cols = DModel
    [] t[2] = "out_proj" -> file[t].rows = DModel /\ file[t].cols = DInner
    [] OTHER -> TRUE

\* Mutant: the heads need not divide the channels.
ValidAnyHeads ==
  \A t \in Names : /\ file[t].n >= AtLeast(t)
                   /\ ShapeOk(t)
                   /\ file[t].is_bitnet <=> t[2] \notin FloatTensors

Valid ==
  /\ DInner % heads = 0
  /\ \A t \in Names : /\ file[t].n >= AtLeast(t)
                      /\ ShapeOk(t)
                      /\ file[t].is_bitnet <=> t[2] \notin FloatTensors

-----------------------------------------------------------------------------
Init ==
  /\ pc = "start"
  /\ heads \in HeadCounts
  /\ file = Exported(heads)
  /\ whole = Len(Order)
  /\ nread = 0 /\ held = {} /\ ok = FALSE
  /\ useGpu \in BOOLEAN

\* The file that is found: as exported, with one tensor laid out otherwise,
\* or cut short.
FindFile ==
  /\ pc = "start"
  /\ \/ UNCHANGED <<file, whole>>
     \/ \E t \in Names : \E near \in Near(file[t]) :
          file' = [file EXCEPT ![t] = near] /\ UNCHANGED whole
     \/ whole' \in 0 .. Len(Order) - 1 /\ UNCHANGED file
  /\ pc' = "pool"
  /\ UNCHANGED <<heads, nread, held, useGpu, ok>>

\* bm_set_threads in main; one thread needs no pool.
SetThreads ==
  /\ pc = "pool"
  /\ held' \in {held, held \cup {PoolRes}}
  /\ pc' = "open"
  /\ UNCHANGED <<fileVars, nread, useGpu, ok>>

OpenFails ==
  /\ pc = "open" /\ pc' = "failed"
  /\ UNCHANGED <<fileVars, nread, held, useGpu, ok>>

MapFile ==
  /\ pc = "open" /\ pc' = "header"
  /\ held' = held \cup {Map}
  /\ UNCHANGED <<fileVars, nread, useGpu, ok>>

\* A file that is too small, or has a wrong magic number or impossible sizes.
BadHeader ==
  /\ pc = "header" /\ pc' = "failed"
  /\ held' = held \ {Map}
  /\ UNCHANGED <<fileVars, nread, useGpu, ok>>

\* The embedding is read before there are layers; only then may parse_error
\* be used to clean up.
ReadEmbed ==
  /\ pc = "header"
  /\ IF whole >= 1
     THEN /\ nread' = 1
          /\ held' = held \cup {Res("layers")}
          /\ pc' = "tensors"
     ELSE /\ held' = held \ {Map} /\ pc' = "failed"
          /\ UNCHANGED nread
  /\ UNCHANGED <<fileVars, useGpu, ok>>

\* READ_TENSOR; the first tensor of a layer comes after block_init_cache.
ReadTensor ==
  /\ pc = "tensors" /\ nread < Len(Order)
  /\ LET t == Order[nread + 1]
     IN  /\ held' = IF t[2] = "in_proj_norm"
                    THEN held \cup {<<"cache", t[1], 0>>} ELSE held
         /\ IF whole > nread
            THEN nread' = nread + 1 /\ UNCHANGED pc
            ELSE pc' = "free" /\ UNCHANGED nread
  /\ UNCHANGED <<fileVars, useGpu, ok>>

\* Validation, then A_precomp, conv1d_w_t and the working buffers.
Validate ==
  /\ pc = "tensors" /\ nread = Len(Order)
  /\ IF Valid
     THEN /\ held' = held \cup Of("derived", Layers) \cup Buffers
          /\ pc' = "gpu"
     ELSE pc' = "free" /\ UNCHANGED held
  /\ UNCHANGED <<fileVars, nread, useGpu, ok>>

\* Mutant: the device survives a failed bm_metal_set_mmap.
InitMetalNoCleanup ==
  /\ pc = "gpu" /\ pc' = "replicate"
  /\ \/ useGpu /\ held' = held \cup Metal /\ UNCHANGED useGpu
     \/ useGpu /\ useGpu' = FALSE /\ held' = held \cup {Res("metal device")}
     \/ useGpu' = FALSE /\ UNCHANGED held
  /\ UNCHANGED <<fileVars, nread, ok>>

\* In a build with Metal: bm_metal_init may fail on its own or
\* bm_metal_set_mmap after it; both times bm_metal_cleanup leaves nothing.
InitMetal ==
  /\ pc = "gpu" /\ pc' = "replicate"
  /\ \/ useGpu /\ held' = held \cup Metal /\ UNCHANGED useGpu
     \/ useGpu' = FALSE /\ UNCHANGED held
  /\ UNCHANGED <<fileVars, nread, ok>>

\* A replica whose mmap fails is left out.
Replicate ==
  /\ pc = "replicate" /\ pc' = "tokenizer"
  /\ \E R \in SUBSET Replicas : held' = held \cup R
  /\ UNCHANGED <<fileVars, nread, useGpu, ok>>

\* Mutant: the model is not freed when the tokenizer is missing.
LoadTokenizerOnly ==
  /\ pc = "tokenizer"
  /\ \/ pc' = "running" /\ held' \in {held, held \cup {Res("tokenizer")}}
     \/ pc' = "failed" /\ UNCHANGED held
  /\ UNCHANGED <<fileVars, nread, useGpu, ok>>

\* tokenizer_load frees what it has read before it fails; input of token
\* numbers needs no tokenizer.
LoadTokenizer ==
  /\ pc = "tokenizer"
  /\ \/ pc' = "running" /\ held' \in {held, held \cup {Res("tokenizer")}}
     \/ pc' = "free" /\ UNCHANGED held
  /\ UNCHANGED <<fileVars, nread, useGpu, ok>>

\* chat_run or the decode loop has returned, or one-shot mode refused its
\* input and will leave without freeing the pool: tokenizer_free.
Finish ==
  /\ pc = "running" /\ pc' = "free"
  /\ held' = held \ {Res("tokenizer")}
  /\ ok' \in BOOLEAN
  /\ UNCHANGED <<fileVars, nread, useGpu>>

\* model_free: first the GPU's view of the mapping, then replicas, pointers
\* and layers, then the mapping and the buffers.
FreeMetal ==
  /\ pc = "free" /\ pc' = "free layers"
  /\ held' = held \ Metal
  /\ UNCHANGED <<fileVars, nread, useGpu, ok>>

\* block_free, for every layer of the header once the array exists.
FreeLayers ==
  /\ pc = "free layers" /\ pc' = "unmap"
  /\ held' = held \ (Replicas \cup Of("cache", Layers)
                       \cup Of("derived", Layers) \cup {Res("layers")})
  /\ UNCHANGED <<fileVars, nread, useGpu, ok>>

Unmap ==
  /\ pc = "unmap"
  /\ held' = held \ ({Map} \cup Buffers)
  /\ pc' = IF ok THEN "free pool" ELSE "failed"
  /\ UNCHANGED <<fileVars, nread, useGpu, ok>>

FreePool ==
  /\ pc = "free pool" /\ pc' = "exited"
  /\ held' = held \ {PoolRes}
  /\ UNCHANGED <<fileVars, nread, useGpu, ok>>

\* The process has ended.
Done == pc \in {"failed", "exited"} /\ UNCHANGED vars

Next ==
  \/ FindFile \/ SetThreads \/ OpenFails \/ MapFile \/ BadHeader
  \/ ReadEmbed \/ ReadTensor \/ Validate \/ InitMetal \/ Replicate
  \/ LoadTokenizer \/ Finish \/ FreeMetal \/ FreeLayers \/ Unmap
  \/ FreePool \/ Done

Spec == Init /\ [][Next]_vars

-----------------------------------------------------------------------------
\* A weight matrix as bitlinear_forward uses it: n inputs, and rows outputs
\* into a buffer that is then read in full.
Projects(w, n, outputs) == w.is_bitnet /\ w.cols = n /\ w.rows = outputs

\* Floats that are read at the indices below n.
Reads(t, n) == ~t.is_bitnet /\ n <= t.n

\* One block_step: the last head any channel belongs to (scalar_ssm_inner
\* divides by head_dim) must have its B, C, dt, dt_bias and A.
BlockFits(i) ==
  LET T(name) == file[<<i, name>>]
      head_dim == DInner \div heads
      lastHead == (DInner - 1) \div head_dim
  IN  /\ head_dim > 0 /\ lastHead < heads
      /\ Reads(T("in_proj_norm"), DModel)
      /\ Projects(T("in_proj"), DModel, 2 * DInner + 3 * heads)
      /\ Reads(T("dt_bias"), lastHead + 1)
      /\ Reads(T("A_log"), heads)
      /\ Reads(T("conv1d_w"), (DInner - 1) * ConvTaps + ConvTaps)
      /\ Reads(T("conv1d_b"), DInner) /\ Reads(T("D"), DInner)
      /\ Reads(T("out_proj_norm"), DInner)
      /\ Projects(T("out_proj"), DInner, DModel)

\* A model that model_load accepts has every tensor in the type and size in
\* which model_forward_step, block_step and the kernels use it: what is
\* validated (src/src/model.c:630-784) covers what is accessed.
LoadedFits ==
  pc \in {"gpu", "replicate", "tokenizer", "running"} =>
    /\ \A token \in 0 .. Vocab - 1 :
         Reads(file[<<0, "embed">>], token * DModel + DModel)
    /\ \A i \in Layers : BlockFits(i)
    /\ Reads(file[<<0, "norm_f">>], DModel)
    /\ Reads(file[<<0, "lm_head_norm">>], DModel)
    /\ Projects(file[<<0, "lm_head">>], DModel, Vocab)

\* However far start-up came, everything it acquired is released on the way
\* out; a failed start leaves the thread pool to the end of the process.
NothingLeft ==
  /\ pc = "failed" => held \subseteq {PoolRes}
  /\ pc = "exited" => held = {}

\* The GPU is used only if it was set up completely, nothing of a failed
\* set-up stays behind, and the GPU's view of the model file never outlives
\* the mapping it is a view of.
GpuReady ==
  /\ pc = "running" => IF useGpu THEN Metal \subseteq held
                       ELSE Metal \cap held = {}
  /\ Res("metal map") \in held => Map \in held
=============================================================================
