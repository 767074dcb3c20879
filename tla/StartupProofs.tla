---------------------------- MODULE StartupProofs ---------------------------
(***************************************************************************)
(* Proofs about Startup and about the tokenizer it loads.  For every size  *)
(* of model, number of heads and of nodes: what model_load validates       *)
(* covers what a forward step reads, and every way out of main releases    *)
(* what has been acquired.  For every vocabulary that leaves a slot of the *)
(* table free, and every text: looking a token up finds the first one,     *)
(* words are split as the pattern splits them, and decoding a text's       *)
(* tokens gives the text back.                                             *)
(***************************************************************************)
EXTENDS Startup, Tokenizer, WorkRangeProofs, SequenceTheorems

-----------------------------------------------------------------------------
(* The tensors of a file.                                                  *)

Tensors == 9 * NLayers + 4

\* The order of the tensors in a file.
LEMMA OrderIs ==
  /\ Len(Order) = Tensors /\ DOMAIN Order = 1 .. Tensors /\ Tensors \in Nat
  /\ Order[1] = <<0, "embed">>
  /\ \A k \in 2 .. 9 * NLayers + 1 :
       Order[k] = <<((k - 2) \div 9) + 1, BlockTensors[((k - 2) % 9) + 1]>>
  /\ Order[9 * NLayers + 2] = <<0, "norm_f">>
  /\ Order[9 * NLayers + 3] = <<0, "lm_head_norm">>
  /\ Order[9 * NLayers + 4] = <<0, "lm_head">>
<1>1. NLayers \in Nat \ {0} /\ Tensors \in Nat
  BY SizesAssumption DEF Tensors
<1> DEFINE S == {Order[k] : k \in 1 .. Tensors}
<1>2. Order \in [1 .. Tensors -> S]
  BY DEF Order, Tensors
<1>3. Len(Order) = Tensors
  <2> HIDE DEF S
  <2>1. Order \in Seq(S)
    BY <1>1, <1>2
  <2> DEFINE l == Len(Order)
  <2>2. DOMAIN Order = 1 .. l /\ l \in Nat
    BY <2>1, LenProperties
  <2>3. 1 .. l = 1 .. Tensors
    BY <1>2, <2>2
  <2> HIDE DEF l
  <2>4. l = Tensors
    <3>1. Tensors \in 1 .. l
      BY <1>1, <2>2, <2>3 DEF Tensors
    <3>2. l \in 1 .. Tensors
      BY <2>2, <2>3, <3>1
    <3> QED
      BY <1>1, <2>2, <3>1, <3>2
  <2> QED
    BY <2>4 DEF l
<1> QED
  BY <1>1, <1>3, SMTT(30) DEF Order, Tensors

\* The names a layer's tensors have, in the order of the file.
LayerNames == {"in_proj_norm", "in_proj", "conv1d_w", "conv1d_b", "dt_bias",
               "A_log", "D", "out_proj_norm", "out_proj"}
ModelNames == {"embed", "norm_f", "lm_head_norm", "lm_head"}

\* Every tensor belongs to the model or to a layer.
LEMMA NamesAre ==
  /\ \A k \in 1 .. Tensors :
       \/ Order[k][1] = 0 /\ Order[k][2] \in ModelNames
       \/ Order[k][1] \in Layers /\ Order[k][2] \in LayerNames
  /\ \A name \in ModelNames : <<0, name>> \in Names
  /\ \A i \in Layers : \A name \in LayerNames : <<i, name>> \in Names
<1>1. NLayers \in Nat \ {0}
  BY SizesAssumption
<1>2. ASSUME NEW k \in 2 .. 9 * NLayers + 1
      PROVE  Order[k][1] \in Layers /\ Order[k][2] \in LayerNames
  <2> DEFINE q == (k - 2) \div 9
             r == (k - 2) % 9
  <2>1. k - 2 \in Nat /\ k - 2 < 9 * NLayers
    BY <1>1
  <2>2. q \in Nat /\ r \in 0 .. 8 /\ k - 2 = 9 * q + r
    BY <2>1
  <2>3. Order[k] = <<q + 1, BlockTensors[r + 1]>>
    BY OrderIs
  <2> HIDE DEF q, r
  <2>4. q + 1 \in Layers
    BY <1>1, <2>1, <2>2 DEF Layers
  <2>5. BlockTensors[r + 1] \in LayerNames
    BY <2>2 DEF BlockTensors, LayerNames
  <2> QED
    BY <2>3, <2>4, <2>5
<1>3. ASSUME NEW k \in 1 .. Tensors, k \notin 2 .. 9 * NLayers + 1
      PROVE  Order[k][1] = 0 /\ Order[k][2] \in ModelNames
  <2>1. k = 1 \/ k = 9 * NLayers + 2 \/ k = 9 * NLayers + 3 \/ k = 9 * NLayers + 4
    BY <1>1, <1>3 DEF Tensors
  <2> QED
    BY <2>1, OrderIs DEF ModelNames
<1>4. ASSUME NEW name \in ModelNames
      PROVE  <<0, name>> \in Names
  <2>1. PICK k \in {1, 9 * NLayers + 2, 9 * NLayers + 3, 9 * NLayers + 4} :
          Order[k] = <<0, name>>
    BY OrderIs DEF ModelNames
  <2>2. k \in 1 .. Tensors
    BY <1>1, <2>1 DEF Tensors
  <2> QED
    BY <2>1, <2>2, OrderIs DEF Names
<1>5. ASSUME NEW i \in Layers, NEW name \in LayerNames
      PROVE  <<i, name>> \in Names
  <2>1. PICK j \in 0 .. 8 : BlockTensors[j + 1] = name
    <3>1. \/ BlockTensors[0 + 1] = name \/ BlockTensors[1 + 1] = name
          \/ BlockTensors[2 + 1] = name \/ BlockTensors[3 + 1] = name
          \/ BlockTensors[4 + 1] = name \/ BlockTensors[5 + 1] = name
          \/ BlockTensors[6 + 1] = name \/ BlockTensors[7 + 1] = name
          \/ BlockTensors[8 + 1] = name
      BY DEF BlockTensors, LayerNames
    <3> QED
      BY <3>1
  <2> DEFINE d == (i - 1) * 9 + j
             k == d + 2
  <2>2. i - 1 \in Nat /\ i \in 1 .. NLayers
    BY <1>1 DEF Layers
  <2>3. d \div 9 = i - 1 /\ d % 9 = j
    <3>1. 9 \in Nat \ {0} /\ j \in 0 .. 9 - 1
      OBVIOUS
    <3> QED
      BY <2>2, <3>1, Digits
  <2>4. k \in 2 .. 9 * NLayers + 1 /\ k - 2 = d
    BY <1>1, <2>2
  <2> HIDE DEF k, d
  <2>5. Order[k] = <<(d \div 9) + 1, BlockTensors[(d % 9) + 1]>>
    BY <2>4, OrderIs
  <2>6. Order[k] = <<i, name>>
    BY <2>1, <2>2, <2>3, <2>5
  <2>7. k \in 1 .. Tensors
    BY <1>1, <2>4 DEF Tensors
  <2> QED
    BY <2>6, <2>7, OrderIs DEF Names
<1> QED
  BY <1>2, <1>3, <1>4, <1>5

-----------------------------------------------------------------------------
(* The invariant: what may be held at every point of the program, what     *)
(* must be, and that a model past model_load is valid.                     *)

Points ==
  {"start", "pool", "open", "header", "tensors", "gpu", "replicate", "tokenizer",
   "running", "free", "free layers", "unmap", "free pool", "failed", "exited"}
Layout == [is_bitnet : BOOLEAN, rows : Int, cols : Int, n : Int]

Loaded == {PoolRes, Map, Res("layers")} \cup Of("cache", Layers)
Prepared == Loaded \cup Of("derived", Layers) \cup Buffers
Running == Prepared \cup Metal \cup Replicas \cup {Res("tokenizer")}

MayHold(p) ==
  CASE p \in {"start", "pool", "exited"} -> {}
    [] p \in {"open", "failed", "free pool"} -> {PoolRes}
    [] p = "header" -> {PoolRes, Map}
    [] p = "tensors" -> Loaded
    [] p = "gpu" -> Prepared
    [] p = "replicate" -> Prepared \cup Metal
    [] p \in {"tokenizer", "free"} -> Prepared \cup Metal \cup Replicas
    [] p = "running" -> Running
    [] p = "free layers" -> Prepared \cup Replicas
    [] p = "unmap" -> {PoolRes, Map} \cup Buffers

Mapped == {"header", "tensors", "gpu", "replicate", "tokenizer", "running", "free"}

TypeInv ==
  /\ pc \in Points
  /\ heads \in HeadCounts /\ file \in [Names -> Layout]
  /\ nread \in 0 .. Len(Order) /\ useGpu \in BOOLEAN

HeldInv ==
  /\ held \subseteq MayHold(pc)
  /\ pc \in Mapped => Map \in held
  /\ pc \in {"replicate", "tokenizer", "running"} =>
       IF useGpu THEN Metal \subseteq held ELSE Metal \cap held = {}

ValidInv == pc \in {"gpu", "replicate", "tokenizer", "running"} => Valid

IInv == TypeInv /\ HeldInv /\ ValidInv

\* What may be held where.
LEMMA MayHoldIs ==
  /\ MayHold("start") = {} /\ MayHold("pool") = {} /\ MayHold("exited") = {}
  /\ MayHold("open") = {PoolRes} /\ MayHold("failed") = {PoolRes}
  /\ MayHold("free pool") = {PoolRes}
  /\ MayHold("header") = {PoolRes, Map}
  /\ MayHold("tensors") = Loaded
  /\ MayHold("gpu") = Prepared
  /\ MayHold("replicate") = Prepared \cup Metal
  /\ MayHold("tokenizer") = Prepared \cup Metal \cup Replicas
  /\ MayHold("free") = Prepared \cup Metal \cup Replicas
  /\ MayHold("running") = Running
  /\ MayHold("free layers") = Prepared \cup Replicas
  /\ MayHold("unmap") = {PoolRes, Map} \cup Buffers
BY DEF MayHold

\* The mapping and the GPU's resources are none of the others.
LEMMA Apart ==
  /\ Map \notin Metal \cup Replicas \cup Buffers
  /\ Map \notin Of("cache", Layers) \cup Of("derived", Layers)
  /\ Map # Res("layers") /\ Map # Res("tokenizer") /\ Map # PoolRes
  /\ Metal \cap (Prepared \cup Replicas \cup {Res("tokenizer")}) = {}
<1>1. /\ \A what : \A r \in Of(what, Layers) : r[1] = what
      /\ \A r \in Replicas : r[1] \in {"in_proj", "out_proj", "lm_head"}
      /\ \A r \in Metal : r[1] \in {"metal device", "metal map"}
      /\ \A r \in Buffers : r[1] \in {"buffers", "scalar lut"}
      /\ Map[1] = "map" /\ PoolRes[1] = "pool"
      /\ Res("layers")[1] = "layers" /\ Res("tokenizer")[1] = "tokenizer"
  BY DEF Of, Replicas, Metal, Buffers, Res, Map, PoolRes
<1>2. \A r \in Prepared : \/ r \in Of("cache", Layers) \cup Of("derived", Layers)
                          \/ r \in Buffers \/ r \in {Map, PoolRes, Res("layers")}
  BY DEF Prepared, Loaded
<1>3. \A r \in Prepared \cup Replicas \cup {Res("tokenizer")} :
        r[1] \notin {"metal device", "metal map"}
  BY <1>1, <1>2
<1> QED
  BY <1>1, <1>3

\* The layouts of an exported model are layouts.
LEMMA ExportedLayout ==
  ASSUME NEW h \in HeadCounts
  PROVE  Exported(h) \in [Names -> Layout]
<1>1. /\ Vocab \in Int /\ DModel \in Int /\ DInner \in Int /\ ConvTaps \in Int
      /\ h \in Int /\ 2 * DInner + 3 * h \in Int
  <2>1. {Vocab, DModel, Expand, ConvTaps, h} \subseteq Nat
    BY SizesAssumption
  <2> QED
    BY <2>1, Product DEF DInner
<1>2. \A r, c \in Int : r * c \in Int
  OBVIOUS
<1>3. \A r, c \in Int : Matrix(r, c) \in Layout /\ Packed(r, c) \in Layout
  BY <1>2 DEF Matrix, Packed, Layout
<1>4. \A d \in Int : Vector(d) \in Layout
  BY DEF Vector, Layout
<1> HIDE DEF DInner, Matrix, Packed, Vector, Layout
<1>5. ASSUME NEW t \in Names
      PROVE  Exported(h)[t] \in Layout
  BY <1>1, <1>3, <1>4 DEF Exported
<1>6. Exported(h) = [t \in Names |-> Exported(h)[t]]
  BY DEF Exported
<1> QED
  BY <1>5, <1>6

\* The layouts a damaged file may have instead are layouts too.
LEMMA NearLayout ==
  ASSUME NEW t \in Layout
  PROVE  Near(t) \subseteq Layout
<1>1. t.rows \in Int /\ t.cols \in Int /\ t.n \in Int
  BY DEF Layout
<1>2. \A r, c \in Int : r * c \in Int
  OBVIOUS
<1>3. \A r, c \in Int : Matrix(r, c) \in Layout /\ Packed(r, c) \in Layout
  BY <1>2 DEF Matrix, Packed, Layout
<1>4. \A d \in Int : Vector(d) \in Layout
  BY DEF Vector, Layout
<1> HIDE DEF Matrix, Packed, Vector, Layout
<1> QED
  BY <1>1, <1>3, <1>4 DEF Near

\* The invariant holds at first.
LEMMA InitInv == Init => IInv
<1> SUFFICES ASSUME Init PROVE IInv
  OBVIOUS
<1>1. TypeInv
  <2>1. Len(Order) \in Nat
    BY OrderIs
  <2> QED
    BY <2>1, ExportedLayout DEF Init, TypeInv, Points
<1>2. HeldInv
  BY MayHoldIs DEF Init, HeldInv, Mapped
<1> QED
  BY <1>1, <1>2 DEF Init, IInv, ValidInv

\* What has been read of the file does not change once it is found.
LEMMA SameFile ==
  ASSUME IInv, UNCHANGED fileVars
  PROVE  /\ heads' \in HeadCounts /\ file' \in [Names -> Layout]
         /\ Valid' <=> Valid
BY DEF IInv, TypeInv, fileVars, Valid, AtLeast, ShapeOk

\* There is a next tensor until all have been read.
LEMMA CountOfTensors ==
  /\ 1 \in 0 .. Len(Order)
  /\ \A k \in 0 .. Len(Order) :
       k < Len(Order) => k + 1 \in 1 .. Tensors /\ k + 1 \in 0 .. Len(Order)
<1>1. NLayers \in Nat
  BY SizesAssumption
<1> DEFINE l == Len(Order)
<1>2. l = 9 * NLayers + 4 /\ l = Tensors
  BY OrderIs DEF Tensors
<1> HIDE DEF l
<1>3. l \in Nat /\ 1 <= l
  BY <1>1, <1>2
<1>4. 1 \in 0 .. l
  BY <1>3
<1>5. ASSUME NEW k \in 0 .. l, k < l
      PROVE  k + 1 \in 1 .. l /\ k + 1 \in 0 .. l
  BY <1>3, <1>5
<1>6. /\ 1 \in 0 .. l
      /\ \A k \in 0 .. l : k < l => k + 1 \in 1 .. Tensors /\ k + 1 \in 0 .. l
  BY <1>2, <1>4, <1>5
<1> QED
  BY <1>6 DEF l

\* Every step keeps the invariant.
LEMMA StepInv == IInv /\ [Next]_vars => IInv'
<1> SUFFICES ASSUME IInv, [Next]_vars PROVE IInv'
  OBVIOUS
<1> USE MayHoldIs
<1>1. CASE FindFile
  <2>1. file' \in [Names -> Layout]
    <3>1. CASE UNCHANGED file
      BY <3>1 DEF IInv, TypeInv
    <3>2. ASSUME NEW t \in Names, NEW near \in Near(file[t]),
                 file' = [file EXCEPT ![t] = near]
          PROVE  file' \in [Names -> Layout]
      <4>1. near \in Layout
        BY <3>2, NearLayout DEF IInv, TypeInv
      <4> QED
        BY <3>2, <4>1 DEF IInv, TypeInv
    <3> QED
      BY <1>1, <3>1, <3>2 DEF FindFile
  <2>2. TypeInv'
    BY <1>1, <2>1 DEF FindFile, IInv, TypeInv, Points
  <2>3. HeldInv'
    BY <1>1 DEF FindFile, IInv, HeldInv, Mapped
  <2> QED
    BY <1>1, <2>2, <2>3 DEF FindFile, IInv, ValidInv
<1>2. CASE SetThreads
  <2>1. TypeInv' /\ ValidInv'
    BY <1>2, SameFile DEF SetThreads, IInv, TypeInv, ValidInv, Points
  <2>2. HeldInv'
    BY <1>2 DEF SetThreads, IInv, HeldInv, Mapped
  <2> QED
    BY <2>1, <2>2 DEF IInv
<1>3. CASE OpenFails
  <2>1. TypeInv' /\ ValidInv'
    BY <1>3, SameFile DEF OpenFails, IInv, TypeInv, ValidInv, Points
  <2>2. HeldInv'
    BY <1>3 DEF OpenFails, IInv, HeldInv, Mapped
  <2> QED
    BY <2>1, <2>2 DEF IInv
<1>4. CASE MapFile
  <2>1. TypeInv' /\ ValidInv'
    BY <1>4, SameFile DEF MapFile, IInv, TypeInv, ValidInv, Points
  <2>2. HeldInv'
    BY <1>4 DEF MapFile, IInv, HeldInv, Mapped
  <2> QED
    BY <2>1, <2>2 DEF IInv
<1>5. CASE BadHeader
  <2>1. TypeInv' /\ ValidInv'
    BY <1>5, SameFile DEF BadHeader, IInv, TypeInv, ValidInv, Points
  <2>2. HeldInv'
    BY <1>5 DEF BadHeader, IInv, HeldInv, Mapped
  <2> QED
    BY <2>1, <2>2 DEF IInv
<1>6. CASE ReadEmbed
  <2>1. TypeInv' /\ ValidInv'
    <3>1. 1 \in 0 .. Len(Order)
      BY CountOfTensors
    <3> QED
      BY <1>6, <3>1, SameFile DEF ReadEmbed, IInv, TypeInv, ValidInv, Points
  <2>2. HeldInv'
    <3>1. held \subseteq {PoolRes, Map} /\ Map \in held
      BY <1>6 DEF ReadEmbed, IInv, HeldInv, Mapped
    <3>2. CASE whole >= 1
      <4>1. held' = held \cup {Res("layers")} /\ pc' = "tensors"
        BY <1>6, <3>2 DEF ReadEmbed
      <4> QED
        BY <3>1, <4>1 DEF HeldInv, Loaded
    <3>3. CASE ~(whole >= 1)
      <4>1. held' = held \ {Map} /\ pc' = "failed"
        BY <1>6, <3>3 DEF ReadEmbed
      <4> QED
        BY <3>1, <4>1 DEF HeldInv, Mapped
    <3> QED
      BY <3>2, <3>3
  <2> QED
    BY <2>1, <2>2 DEF IInv
<1>7. CASE ReadTensor
  <2>2. nread + 1 \in 1 .. Tensors /\ nread + 1 \in 0 .. Len(Order)
    BY <1>7, CountOfTensors DEF ReadTensor, IInv, TypeInv
  <2>3. TypeInv' /\ ValidInv'
    BY <1>7, <2>2, SameFile
    DEF ReadTensor, IInv, TypeInv, ValidInv, Points
  <2>4. Order[nread + 1][2] = "in_proj_norm" =>
          <<"cache", Order[nread + 1][1], 0>> \in Of("cache", Layers)
    <3>1. \/ Order[nread + 1][2] \in ModelNames
          \/ Order[nread + 1][1] \in Layers
      BY <2>2, NamesAre
    <3> QED
      BY <3>1 DEF ModelNames, Of
  <2>5. held' \subseteq Loaded /\ held \subseteq held'
    <3>1. held \subseteq Loaded
      BY <1>7 DEF ReadTensor, IInv, HeldInv
    <3> QED
      BY <1>7, <2>4, <3>1 DEF ReadTensor, Loaded
  <2>6. Metal \cap held' = {}
    BY <2>5, Apart DEF Prepared
  <2>7. HeldInv'
    BY <1>7, <2>5, <2>6 DEF ReadTensor, IInv, HeldInv, Mapped, Prepared
  <2> QED
    BY <2>3, <2>7 DEF IInv
<1>8. CASE Validate
  <2>1. TypeInv'
    BY <1>8, SameFile DEF Validate, IInv, TypeInv, Points
  <2>2. ValidInv'
    BY <1>8, SameFile DEF Validate, IInv, ValidInv
  <2>3. HeldInv'
    BY <1>8 DEF Validate, IInv, HeldInv, Mapped, Prepared
  <2> QED
    BY <2>1, <2>2, <2>3 DEF IInv
<1>9. CASE InitMetal
  <2>1. TypeInv' /\ ValidInv'
    BY <1>9, SameFile DEF InitMetal, IInv, TypeInv, ValidInv, Points
  <2>2. Metal \cap held = {} /\ held \subseteq Prepared
    BY <1>9, Apart DEF InitMetal, IInv, HeldInv
  <2>3. HeldInv'
    BY <1>9, <2>2 DEF InitMetal, IInv, TypeInv, HeldInv, Mapped
  <2> QED
    BY <2>1, <2>3 DEF IInv
<1>10. CASE Replicate
  <2>1. TypeInv' /\ ValidInv'
    BY <1>10, SameFile DEF Replicate, IInv, TypeInv, ValidInv, Points
  <2>2. PICK R \in SUBSET Replicas : held' = held \cup R
    BY <1>10 DEF Replicate
  <2>3. Metal \cap R = {}
    BY <2>2, Apart
  <2>4. HeldInv'
    BY <1>10, <2>2, <2>3 DEF Replicate, IInv, TypeInv, HeldInv, Mapped
  <2> QED
    BY <2>1, <2>4 DEF IInv
<1>11. CASE LoadTokenizer
  <2>1. TypeInv' /\ ValidInv'
    BY <1>11, SameFile DEF LoadTokenizer, IInv, TypeInv, ValidInv, Points
  <2>2. HeldInv'
    BY <1>11, Apart DEF LoadTokenizer, IInv, TypeInv, HeldInv, Mapped, Running
  <2> QED
    BY <2>1, <2>2 DEF IInv
<1>12. CASE Finish
  <2>1. TypeInv' /\ ValidInv'
    BY <1>12, SameFile DEF Finish, IInv, TypeInv, ValidInv, Points
  <2>2. HeldInv'
    BY <1>12, Apart DEF Finish, IInv, TypeInv, HeldInv, Mapped, Running
  <2> QED
    BY <2>1, <2>2 DEF IInv
<1>13. CASE FreeMetal
  <2>1. TypeInv' /\ ValidInv'
    BY <1>13, SameFile DEF FreeMetal, IInv, TypeInv, ValidInv, Points
  <2>2. HeldInv'
    BY <1>13 DEF FreeMetal, IInv, HeldInv, Mapped
  <2> QED
    BY <2>1, <2>2 DEF IInv
<1>14. CASE FreeLayers
  <2>1. TypeInv' /\ ValidInv'
    BY <1>14, SameFile DEF FreeLayers, IInv, TypeInv, ValidInv, Points
  <2>2. HeldInv'
    BY <1>14 DEF FreeLayers, IInv, HeldInv, Mapped, Prepared, Loaded
  <2> QED
    BY <2>1, <2>2 DEF IInv
<1>15. CASE Unmap
  <2>1. TypeInv' /\ ValidInv'
    BY <1>15, SameFile DEF Unmap, IInv, TypeInv, ValidInv, Points
  <2>2. HeldInv'
    BY <1>15 DEF Unmap, IInv, HeldInv, Mapped
  <2> QED
    BY <2>1, <2>2 DEF IInv
<1>16. CASE FreePool
  <2>1. TypeInv' /\ ValidInv'
    BY <1>16, SameFile DEF FreePool, IInv, TypeInv, ValidInv, Points
  <2>2. HeldInv'
    BY <1>16 DEF FreePool, IInv, HeldInv, Mapped
  <2> QED
    BY <2>1, <2>2 DEF IInv
<1>17. CASE UNCHANGED vars
  <2>1. TypeInv' /\ HeldInv'
    BY <1>17 DEF vars, IInv, TypeInv, HeldInv
  <2>2. ValidInv'
    BY <1>17, SameFile DEF vars, fileVars, IInv, ValidInv
  <2> QED
    BY <2>1, <2>2 DEF IInv
<1> QED
  BY <1>1, <1>2, <1>3, <1>4, <1>5, <1>6, <1>7, <1>8, <1>9, <1>10, <1>11, <1>12,
     <1>13, <1>14, <1>15, <1>16, <1>17 DEF Next, Done

\* Whatever the file and whichever calls fail: at every point of main and
\* model_load only what that point knows how to release is held, the model
\* file is mapped while anything views it, and past model_load the file is
\* valid.
THEOREM StartupInvariant == Spec => []IInv
<1> QED
  BY InitInv, StepInv, PTL DEF Spec

-----------------------------------------------------------------------------
(* The properties.                                                         *)

\* Everything a start-up acquired is released on the way out.
THEOREM StartupNothingLeft == Spec => []NothingLeft
<1>1. IInv => NothingLeft
  BY MayHoldIs DEF IInv, HeldInv, NothingLeft
<1> QED
  BY <1>1, StartupInvariant, PTL

\* The GPU runs only when completely set up, and its view of the model file
\* does not outlive the mapping.
THEOREM StartupGpuReady == Spec => []GpuReady
<1>1. IInv => GpuReady
  <2> SUFFICES ASSUME IInv PROVE GpuReady
    OBVIOUS
  <2>1. pc = "running" => IF useGpu THEN Metal \subseteq held
                          ELSE Metal \cap held = {}
    BY DEF IInv, HeldInv
  <2>2. ASSUME Res("metal map") \in held PROVE Map \in held
    <3>1. Res("metal map") \in Metal
      BY DEF Metal
    <3>2. Res("metal map") \notin Prepared \cup Replicas
      BY <3>1, Apart
    <3>3. MayHold(pc) \subseteq Prepared \cup Replicas \/ pc \in Mapped
      <4>1. {PoolRes, Map} \cup Buffers \subseteq Prepared
        BY DEF Prepared, Loaded
      <4> QED
        BY <4>1, MayHoldIs DEF IInv, TypeInv, Points, Mapped
    <3> QED
      BY <2>2, <3>2, <3>3 DEF IInv, HeldInv
  <2> QED
    BY <2>1, <2>2 DEF GpuReady
<1> QED
  BY <1>1, StartupInvariant, PTL

\* The last head any channel belongs to has its scalars, as soon as the
\* heads divide the channels.
LEMMA HeadsDivide ==
  ASSUME NEW d \in Nat \ {0}, NEW h \in Nat \ {0}, d % h = 0
  PROVE  /\ d \div h \in Nat \ {0}
         /\ (d - 1) \div (d \div h) \in Nat
         /\ (d - 1) \div (d \div h) < h
<1> DEFINE q == d \div h
<1>1. q \in Nat /\ d = h * q
  BY Division
<1>2. q # 0
  <2> HIDE DEF q
  <2> QED
    BY <1>1
<1> HIDE DEF q
<1> DEFINE j == (d - 1) \div q
           r == (d - 1) % q
<1>3. j \in Nat /\ r \in 0 .. q - 1 /\ d - 1 = q * j + r
  BY <1>1, <1>2, Division
<1> HIDE DEF j, r
<1>4. ASSUME j >= h PROVE FALSE
  <2>1. PICK e \in Nat : j = h + e
    <3>1. j - h \in Nat /\ j = h + (j - h)
      BY <1>3, <1>4
    <3> QED
      BY <3>1
  <2>2. q * j = h * q + q * e
    BY <1>1, <2>1
  <2>3. q * e \in Nat
    BY <1>1, <2>1, Product
  <2> QED
    BY <1>1, <1>3, <2>2, <2>3
<1>5. j < h
  BY <1>3, <1>4
<1> QED
  BY <1>1, <1>2, <1>3, <1>5 DEF q, j

\* A row of a table ends within the table.
LEMMA RowWithin ==
  ASSUME NEW rows \in Nat, NEW cols \in Nat, NEW r \in 0 .. rows - 1
  PROVE  r * cols + cols <= rows * cols
<1>1. PICK e \in Nat : rows = r + 1 + e
  <2>1. rows - r - 1 \in Nat /\ rows = r + 1 + (rows - r - 1)
    OBVIOUS
  <2> QED
    BY <2>1
<1>2. rows * cols = r * cols + cols + e * cols
  BY <1>1
<1>3. e * cols \in Nat /\ r * cols \in Nat
  BY <1>1, Product
<1> QED
  BY <1>2, <1>3

\* The tensors of a valid file, one by one.
LEMMA ValidTensor ==
  ASSUME IInv, Valid, NEW t \in Names
  PROVE  /\ file[t] \in Layout
         /\ file[t].n >= AtLeast(t) /\ ShapeOk(t)
         /\ file[t].is_bitnet <=> t[2] \notin FloatTensors
BY DEF IInv, TypeInv, Valid

\* A valid tensor is as large as what is read of it.
LEMMA ValidReads ==
  ASSUME IInv, Valid, NEW i, NEW name \in FloatTensors,
         <<i, name>> \in Names, NEW n \in Int, n <= AtLeast(<<i, name>>),
         AtLeast(<<i, name>>) \in Int
  PROVE  Reads(file[<<i, name>>], n)
<1> DEFINE t == <<i, name>>
<1>1. t \in Names /\ t[2] = name
  OBVIOUS
<1> HIDE DEF t
<1>2. file[t] \in Layout /\ file[t].n >= AtLeast(t) /\ ~file[t].is_bitnet
  BY <1>1, ValidTensor
<1>3. file[t].n \in Int
  BY <1>2 DEF Layout
<1>4. n <= AtLeast(t) /\ AtLeast(t) \in Int
  BY DEF t
<1>5. n <= file[t].n
  BY <1>2, <1>3, <1>4
<1>6. Reads(file[t], n)
  BY <1>2, <1>5 DEF Reads
<1> QED
  BY <1>6 DEF t

\* A valid layer is as large as what a forward step reads of it.
LEMMA ValidBlock ==
  ASSUME IInv, Valid, NEW i \in Layers
  PROVE  BlockFits(i)
<1> DEFINE head_dim == DInner \div heads
           lastHead == (DInner - 1) \div head_dim
<1>1. /\ DModel \in Nat \ {0} /\ DInner \in Nat \ {0} /\ ConvTaps \in Nat \ {0}
      /\ heads \in Nat \ {0}
  <2>1. {DModel, Expand, ConvTaps, heads} \subseteq Nat \ {0}
    BY SizesAssumption DEF IInv, TypeInv
  <2>2. DModel * Expand \in Nat /\ DModel * Expand # 0
    BY <2>1
  <2> QED
    BY <2>1, <2>2 DEF DInner
<1> HIDE DEF DInner
<1>2. head_dim \in Nat \ {0} /\ lastHead \in Nat /\ lastHead < heads
  <2>1. DInner % heads = 0
    BY DEF Valid
  <2> QED
    BY <1>1, <2>1, HeadsDivide
<1> HIDE DEF head_dim, lastHead
<1>3. \A name \in LayerNames : <<i, name>> \in Names
  BY NamesAre
<1>4. Reads(file[<<i, "in_proj_norm">>], DModel)
  <2>1. AtLeast(<<i, "in_proj_norm">>) = DModel
    BY DEF AtLeast
  <2>2. "in_proj_norm" \in FloatTensors \cap LayerNames
    BY DEF FloatTensors, LayerNames
  <2> QED
    BY <1>1, <1>3, <2>1, <2>2, ValidReads
<1>5. /\ Reads(file[<<i, "dt_bias">>], lastHead + 1)
      /\ Reads(file[<<i, "A_log">>], heads)
  <2>1. AtLeast(<<i, "dt_bias">>) = heads /\ AtLeast(<<i, "A_log">>) = heads
    BY DEF AtLeast
  <2>2. {"dt_bias", "A_log"} \subseteq FloatTensors \cap LayerNames
    BY DEF FloatTensors, LayerNames
  <2>3. lastHead + 1 \in Int /\ lastHead + 1 <= heads /\ heads \in Int /\ heads <= heads
    BY <1>1, <1>2
  <2> QED
    BY <1>3, <2>1, <2>2, <2>3, ValidReads
<1>6. Reads(file[<<i, "conv1d_w">>], (DInner - 1) * ConvTaps + ConvTaps)
  <2>1. AtLeast(<<i, "conv1d_w">>) = DInner * ConvTaps
    BY DEF AtLeast
  <2>2. "conv1d_w" \in FloatTensors \cap LayerNames
    BY DEF FloatTensors, LayerNames
  <2>3. DInner - 1 \in 0 .. DInner - 1 /\ DInner - 1 \in Nat
    BY <1>1
  <2>4. (DInner - 1) * ConvTaps + ConvTaps <= DInner * ConvTaps
    BY <1>1, <2>3, RowWithin
  <2>5. (DInner - 1) * ConvTaps + ConvTaps \in Int /\ DInner * ConvTaps \in Int
    BY <1>1, <2>3, Product
  <2> QED
    BY <1>3, <2>1, <2>2, <2>4, <2>5, ValidReads
<1>7. /\ Reads(file[<<i, "conv1d_b">>], DInner)
      /\ Reads(file[<<i, "D">>], DInner)
      /\ Reads(file[<<i, "out_proj_norm">>], DInner)
  <2>1. /\ AtLeast(<<i, "conv1d_b">>) = DInner /\ AtLeast(<<i, "D">>) = DInner
        /\ AtLeast(<<i, "out_proj_norm">>) = DInner
    BY DEF AtLeast
  <2>2. {"conv1d_b", "D", "out_proj_norm"} \subseteq FloatTensors \cap LayerNames
    BY DEF FloatTensors, LayerNames
  <2>3. DInner \in Int /\ DInner <= DInner
    BY <1>1
  <2> QED
    BY <1>3, <2>1, <2>2, <2>3, ValidReads
<1>8. /\ Projects(file[<<i, "in_proj">>], DModel, 2 * DInner + 3 * heads)
      /\ Projects(file[<<i, "out_proj">>], DInner, DModel)
  <2>1. {<<i, "in_proj">>, <<i, "out_proj">>} \subseteq Names
    BY <1>3 DEF LayerNames
  <2>2. /\ ShapeOk(<<i, "in_proj">>) /\ file[<<i, "in_proj">>].is_bitnet
        /\ ShapeOk(<<i, "out_proj">>) /\ file[<<i, "out_proj">>].is_bitnet
    BY <2>1, ValidTensor DEF FloatTensors
  <2> QED
    BY <2>2 DEF ShapeOk, Projects
<1> QED
  BY <1>1, <1>2, <1>4, <1>5, <1>6, <1>7, <1>8 DEF BlockFits, head_dim, lastHead

\* Of every size of model and number of heads: what model_load validated is
\* all that a forward step reads, in the type and the size it reads it.
THEOREM StartupLoadedFits == Spec => []LoadedFits
<1>1. IInv => LoadedFits
  <2> SUFFICES ASSUME IInv, Valid
               PROVE  /\ \A token \in 0 .. Vocab - 1 :
                           Reads(file[<<0, "embed">>], token * DModel + DModel)
                      /\ Reads(file[<<0, "norm_f">>], DModel)
                      /\ Reads(file[<<0, "lm_head_norm">>], DModel)
                      /\ Projects(file[<<0, "lm_head">>], DModel, Vocab)
    BY ValidBlock DEF LoadedFits, IInv, ValidInv
  <2>1. DModel \in Nat /\ Vocab \in Nat
    BY SizesAssumption
  <2>2. \A name \in ModelNames : <<0, name>> \in Names
    BY NamesAre
  <2>3. ASSUME NEW token \in 0 .. Vocab - 1
        PROVE  Reads(file[<<0, "embed">>], token * DModel + DModel)
    <3>1. AtLeast(<<0, "embed">>) = Vocab * DModel
      BY DEF AtLeast
    <3>2. "embed" \in FloatTensors \cap ModelNames
      BY DEF FloatTensors, ModelNames
    <3>3. token * DModel + DModel <= Vocab * DModel
      BY <2>1, RowWithin
    <3>4. token * DModel + DModel \in Int /\ Vocab * DModel \in Int
      BY <2>1, Product
    <3> QED
      BY <2>2, <3>1, <3>2, <3>3, <3>4, ValidReads
  <2>4. /\ Reads(file[<<0, "norm_f">>], DModel)
        /\ Reads(file[<<0, "lm_head_norm">>], DModel)
    <3>1. AtLeast(<<0, "norm_f">>) = DModel /\ AtLeast(<<0, "lm_head_norm">>) = DModel
      BY DEF AtLeast
    <3>2. {"norm_f", "lm_head_norm"} \subseteq FloatTensors \cap ModelNames
      BY DEF FloatTensors, ModelNames
    <3>3. DModel \in Int /\ DModel <= DModel
      BY <2>1
    <3> QED
      BY <2>2, <3>1, <3>2, <3>3, ValidReads
  <2>5. Projects(file[<<0, "lm_head">>], DModel, Vocab)
    <3>1. <<0, "lm_head">> \in Names
      BY <2>2 DEF ModelNames
    <3>2. ShapeOk(<<0, "lm_head">>) /\ file[<<0, "lm_head">>].is_bitnet
      BY <3>1, ValidTensor DEF FloatTensors
    <3> QED
      BY <3>2 DEF ShapeOk, Projects
  <2> QED
    BY <2>3, <2>4, <2>5
<1> QED
  BY <1>1, StartupInvariant, PTL

-----------------------------------------------------------------------------
(* The loops of the tokenizer, as functions over their rounds.             *)

\* Bytes are numbers.
LEMMA BytesInt == \A b \in Bytes : b \in Nat /\ b < 256
  BY DEF Bytes

\* What a slice of a sequence is.
LEMMA SliceIs ==
  ASSUME NEW S, NEW s \in Seq(S), NEW i \in Int, NEW j \in Int,
         1 <= i, i <= j + 1, j <= Len(s)
  PROVE  /\ SubSeq(s, i, j) \in Seq(S) /\ Len(SubSeq(s, i, j)) = j - i + 1
         /\ \A k \in 1 .. j - i + 1 : SubSeq(s, i, j)[k] = s[i + k - 1]
<1>1. Len(s) \in Nat
  BY LenProperties
<1>2. ASSUME NEW k \in i .. j PROVE s[k] \in S
  <2>1. k \in 1 .. Len(s)
    BY <1>1
  <2> QED
    BY <2>1, ElementOfSeq
<1>3. /\ SubSeq(s, i, j) \in Seq(S)
      /\ Len(SubSeq(s, i, j)) = IF i <= j THEN j - i + 1 ELSE 0
      /\ \A k \in 1 .. j - i + 1 : SubSeq(s, i, j)[k] = s[i + k - 1]
  BY <1>2, SubSeqProperties
<1>4. j - i + 1 = IF i <= j THEN j - i + 1 ELSE 0
  OBVIOUS
<1> QED
  BY <1>3, <1>4

\* The loop of the hash.
LEMMA FnvLoop ==
  ASSUME NEW s \in Seq(Bytes)
  PROVE  \E r : /\ r \in [0 .. Len(s) -> 0 .. HtSize - 1]
                /\ r[0] = FnvBasis % HtSize
                /\ \A m \in 1 .. Len(s) : r[m] = FnvRound(r[m - 1], s[m])
                /\ Fnv1a(s) = r[Len(s)]
<1> DEFINE n == Len(s)
           V == 0 .. HtSize - 1
           v == FnvBasis % HtSize
           T(x, m) == FnvRound(x, s[m])
           S == [m \in 0 + 1 .. n |-> [x \in V |-> T(x, m)]]
           Def(f) == f = [m \in 0 .. n |-> IF m = 0 THEN v ELSE T(f[m - 1], m)]
           r == CHOOSE f : Def(f)
<1>1. n \in Nat /\ v \in V
  BY LenProperties, TableAssumption DEF FnvBasis
<1>2. ASSUME NEW m \in 1 .. n, NEW x \in V PROVE T(x, m) \in V
  <2>1. s[m] \in Bytes /\ x \in Int /\ HtSize \in Nat \ {0}
    BY <1>1, ElementOfSeq, TableAssumption
  <2>2. x % 256 \in Bytes
    BY <2>1 DEF Bytes
  <2>3. XorByte[x % 256][s[m]] \in Int
    <3>1. XorByte[x % 256] \in [Bytes -> Bytes]
      BY <2>2, TableAssumption
    <3>2. XorByte[x % 256][s[m]] \in Bytes
      BY <2>1, <3>1
    <3> QED
      BY <3>2, BytesInt
  <2> DEFINE y == (x - (x % 256) + XorByte[x % 256][s[m]]) * FnvPrime
  <2>4. y \in Int
    BY <2>1, <2>3 DEF FnvPrime
  <2>5. T(x, m) = y % HtSize
    BY DEF FnvRound
  <2> HIDE DEF y
  <2> QED
    BY <2>1, <2>4, <2>5
<1>3. 0 \in Int /\ n \in Int /\ 0 <= n /\ 0 + 1 .. n = 1 .. n
  BY <1>1
<1>4. Fnv1a(s) = r[Len(s)]
  BY DEF Fnv1a
<1> HIDE DEF n, V, v, T
<1>5. S \in [0 + 1 .. n -> [V -> V]]
  BY <1>2, <1>3
<1>6. \A m \in 0 .. n : m = 0 \/ (m \in 1 .. n /\ m - 1 \in 0 .. n)
  BY <1>1
<1>7. \E f : Def(f)
  <2>1. PICK f : LoopIs(f, V, v, 0, n, S)
    <3> HIDE DEF S
    <3> QED
      BY <1>1, <1>3, <1>5, LoopExists
  <2>2. /\ f \in [0 .. n -> V] /\ f[0] = v
        /\ \A m \in 1 .. n : f[m] = S[m][f[m - 1]]
    <3> HIDE DEF S
    <3> QED
      BY <1>3, <2>1 DEF LoopIs
  <2>3. \A m \in 1 .. n : S[m][f[m - 1]] = T(f[m - 1], m)
    BY <1>3, <1>6, <2>2
  <2> HIDE DEF S
  <2>4. \A m \in 0 .. n : f[m] = IF m = 0 THEN v ELSE T(f[m - 1], m)
    BY <1>6, <2>2, <2>3
  <2> QED
    BY <2>2, <2>4
<1>8. Def(r)
  <2> HIDE DEF Def
  <2> QED
    BY <1>7
<1> HIDE DEF r
<1>9. r[0] = v /\ \A m \in 1 .. n : r[m] = T(r[m - 1], m)
  <2>1. 0 \in 0 .. n /\ \A m \in 1 .. n : m \in 0 .. n /\ m # 0
    BY <1>1
  <2> QED
    BY <1>8, <2>1
<1>10. r \in [0 .. n -> V]
  <2> DEFINE P == {m \in 0 .. n : r[m] \in V}
  <2>1. 0 \in P /\ \A m \in 0 + 1 .. n : m - 1 \in P => m \in P
    BY <1>1, <1>2, <1>3, <1>6, <1>9
  <2>2. 0 .. n \subseteq P
    <3> HIDE DEF P
    <3> QED
      BY <1>3, <2>1, IntervalInduction
  <2> QED
    BY <1>8, <2>2
<1> QED
  BY <1>4, <1>9, <1>10 DEF n, V, v, T

-----------------------------------------------------------------------------
(* GPT-2's byte encoding.                                                  *)

\* Bytes have different code points, all of two bytes or fewer in UTF-8.
LEMMA UnicodeOf ==
  /\ \A b \in Bytes : byte_to_unicode[b] \in 33 .. 511
  /\ \A b, c \in Bytes : byte_to_unicode[b] = byte_to_unicode[c] => b = c
<1> DEFINE Low(b) == {c \in 0 .. b - 1 : c \notin Printable}
           K(b)   == Cardinality(Low(b))
<1>1. \A b \in Bytes :
        byte_to_unicode[b] = IF b \in Printable THEN b ELSE 256 + K(b)
  BY DEF byte_to_unicode
<1>2. ASSUME NEW b \in Bytes
      PROVE  IsFiniteSet(Low(b)) /\ K(b) \in 0 .. 255
  <2>1. b \in Int /\ b <= 255 /\ Low(b) \in SUBSET (0 .. b - 1) /\ b >= 0
    BY BytesInt
  <2>2. IsFiniteSet(0 .. b - 1) /\ Cardinality(0 .. b - 1) = b
    <3>1. Cardinality(0 .. b - 1) = IF 0 > b - 1 THEN 0 ELSE (b - 1) - 0 + 1
      BY <2>1, FS_Interval
    <3> QED
      BY <2>1, <3>1, FS_Interval
  <2> DEFINE L == Low(b)
  <2>3. L \in SUBSET (0 .. b - 1)
    BY <2>1
  <2> HIDE DEF L
  <2>4. IsFiniteSet(L) /\ Cardinality(L) \in Nat /\ Cardinality(L) <= b
    BY <2>2, <2>3, Fewer
  <2>5. Cardinality(L) \in 0 .. 255
    BY <2>1, <2>4
  <2> QED
    BY <2>4, <2>5 DEF L
<1>3. ASSUME NEW b \in Bytes, NEW c \in Bytes, b < c, b \notin Printable
      PROVE  K(b) < K(c)
  <2>1. b \in Low(c) /\ b \notin Low(b) /\ Low(b) \in SUBSET Low(c)
    BY <1>3, BytesInt
  <2> QED
    BY <1>2, <2>1, Fewer
<1> HIDE DEF Low, K
<1>4. \A b \in Bytes : b \in Printable => b \in 33 .. 255
  BY BytesInt DEF Printable
<1>5. \A b \in Bytes : byte_to_unicode[b] \in 33 .. 511
  BY <1>1, <1>2, <1>4
<1>6. ASSUME NEW b \in Bytes, NEW c \in Bytes, b < c
      PROVE  byte_to_unicode[b] # byte_to_unicode[c]
  <2> DEFINE kb == K(b)
             kc == K(c)
  <2>1. b \in 0 .. 255 /\ c \in 0 .. 255 /\ kb \in 0 .. 255 /\ kc \in 0 .. 255
    BY <1>2, BytesInt
  <2>2. /\ b \in Printable => byte_to_unicode[b] = b
        /\ b \notin Printable => byte_to_unicode[b] = 256 + kb
        /\ c \in Printable => byte_to_unicode[c] = c
        /\ c \notin Printable => byte_to_unicode[c] = 256 + kc
    BY <1>1
  <2>3. b \notin Printable => kb < kc
    BY <1>3, <1>6
  <2> HIDE DEF kb, kc
  <2> QED
    BY <1>6, <2>1, <2>2, <2>3
<1>7. \A b, c \in Bytes : b < c \/ c < b \/ b = c
  BY BytesInt
<1> QED
  BY <1>5, <1>6, <1>7

\* The way back from a code point finds the byte.
LEMMA ByteOfUnicode ==
  /\ \A b \in Bytes : unicode_to_byte[byte_to_unicode[b]] = b
  /\ \A cp \in 0 .. 511 : unicode_to_byte[cp] \in Bytes \cup {-1}
<1> DEFINE Known == {byte_to_unicode[b] : b \in Bytes}
           ByteFor(cp) == CHOOSE b \in Bytes : byte_to_unicode[b] = cp
<1>1. \A cp \in 0 .. 511 :
        unicode_to_byte[cp] = IF cp \in Known THEN ByteFor(cp) ELSE -1
  BY DEF unicode_to_byte
<1>2. \A cp \in Known : ByteFor(cp) \in Bytes /\ byte_to_unicode[ByteFor(cp)] = cp
  OBVIOUS
<1>3. ASSUME NEW b \in Bytes PROVE unicode_to_byte[byte_to_unicode[b]] = b
  <2> DEFINE cp == byte_to_unicode[b]
  <2>1. cp \in Known /\ cp \in 0 .. 511
    BY UnicodeOf
  <2>2. unicode_to_byte[cp] = ByteFor(cp) /\ ByteFor(cp) \in Bytes
        /\ byte_to_unicode[ByteFor(cp)] = byte_to_unicode[b]
    BY <1>1, <1>2, <2>1
  <2> HIDE DEF ByteFor
  <2> QED
    BY <2>2, UnicodeOf
<1> HIDE DEF ByteFor, Known
<1> QED
  BY <1>1, <1>2, <1>3

\* What a code point is decoded to.
LEMMA ByteDecoded ==
  /\ \A b \in Bytes : DecodedByte(byte_to_unicode[b]) = b
  /\ \A cp \in Nat : DecodedByte(cp) \in Bytes
<1>1. ASSUME NEW b \in Bytes PROVE DecodedByte(byte_to_unicode[b]) = b
  <2> DEFINE cp == byte_to_unicode[b]
  <2>1. cp \in 33 .. 511 /\ unicode_to_byte[cp] = b /\ b \in Nat
    BY UnicodeOf, ByteOfUnicode, BytesInt
  <2> HIDE DEF cp
  <2>2. DecodedByte(cp) = b
    BY <2>1 DEF DecodedByte
  <2> QED
    BY <2>2 DEF cp
<1>2. ASSUME NEW cp \in Nat PROVE DecodedByte(cp) \in Bytes
  <2> DEFINE u == IF cp < 512 THEN unicode_to_byte[cp] ELSE -1
  <2>1. u \in Bytes \cup {-1}
    <3>1. cp < 512 => cp \in 0 .. 511
      OBVIOUS
    <3> QED
      BY <3>1, ByteOfUnicode
  <2>2. cp % 256 \in Bytes
    BY DEF Bytes
  <2>3. DecodedByte(cp) = IF u >= 0 THEN u ELSE cp % 256
    BY DEF DecodedByte
  <2> HIDE DEF u
  <2> QED
    BY <2>1, <2>3, <2>2, BytesInt
<1> QED
  BY <1>1, <1>2

\* The spelling of a byte: what its first byte tells, and its second.
LEMMA CodeIs ==
  ASSUME NEW b \in Bytes
  PROVE  LET c == EncodeByte(b)
             u == byte_to_unicode[b]
         IN  \/ /\ u < 128 /\ c = <<u>> /\ Len(c) = 1 /\ c[1] = u
                /\ u \in Bytes /\ c \in Seq(Bytes)
             \/ /\ u >= 128 /\ c = <<192 + u \div 64, 128 + (u % 64)>>
                /\ Len(c) = 2 /\ c[1] = 192 + u \div 64 /\ c[2] = 128 + (u % 64)
                /\ c[1] \in 192 .. 199 /\ c[2] \in 128 .. 191
                /\ c \in Seq(Bytes)
<1> DEFINE c == EncodeByte(b)
           u == byte_to_unicode[b]
<1>1. u \in 33 .. 511
  BY UnicodeOf
<1>2. c = IF u < 128 THEN <<u>> ELSE <<192 + u \div 64, 128 + (u % 64)>>
  BY DEF EncodeByte
<1> HIDE DEF c, u
<1>3. CASE u < 128
  <2>1. u \in Bytes
    BY <1>1, <1>3 DEF Bytes
  <2> QED
    BY <1>2, <1>3, <2>1 DEF c, u
<1>4. CASE u >= 128
  <2> DEFINE x == 192 + u \div 64
             y == 128 + (u % 64)
  <2>1. x \in 192 .. 199 /\ y \in 128 .. 191
    BY <1>1
  <2>2. c = <<x, y>>
    BY <1>1, <1>2, <1>4
  <2>3. x \in Bytes /\ y \in Bytes
    BY <2>1 DEF Bytes
  <2>4. x = 192 + u \div 64 /\ y = 128 + (u % 64)
    OBVIOUS
  <2> HIDE DEF x, y
  <2>5. Len(c) = 2 /\ c[1] = x /\ c[2] = y /\ c \in Seq(Bytes)
    BY <2>2, <2>3
  <2> QED
    BY <1>4, <2>1, <2>2, <2>4, <2>5 DEF c, u
<1> QED
  BY <1>1, <1>3, <1>4

\* The first byte of a spelling is not the second of any, and tells how many
\* there are; together they tell the byte.
LEMMA CodeTells ==
  /\ \A b \in Bytes : /\ EncodeByte(b) \in Seq(Bytes)
                      /\ Len(EncodeByte(b)) \in {1, 2}
                      /\ \A k \in 1 .. Len(EncodeByte(b)) : EncodeByte(b)[k] # 0
  /\ \A b, d \in Bytes :
       Len(EncodeByte(d)) = 2 => EncodeByte(b)[1] # EncodeByte(d)[2]
  /\ \A b, d \in Bytes :
       EncodeByte(b)[1] = EncodeByte(d)[1] =>
         /\ Len(EncodeByte(b)) = Len(EncodeByte(d))
         /\ (Len(EncodeByte(b)) = 2 => EncodeByte(b)[2] = EncodeByte(d)[2])
              => b = d
<1> DEFINE u(b) == byte_to_unicode[b]
           c(b) == EncodeByte(b)
<1>1. \A b \in Bytes :
        /\ c(b) \in Seq(Bytes) /\ u(b) \in 33 .. 511
        /\ \/ u(b) < 128 /\ Len(c(b)) = 1 /\ c(b)[1] = u(b)
           \/ /\ u(b) >= 128 /\ Len(c(b)) = 2 /\ c(b)[1] = 192 + u(b) \div 64
              /\ c(b)[2] = 128 + (u(b) % 64)
              /\ c(b)[1] \in 192 .. 199 /\ c(b)[2] \in 128 .. 191
  BY CodeIs, UnicodeOf
<1>2. \A b, d \in Bytes : u(b) = u(d) => b = d
  BY UnicodeOf
<1> HIDE DEF u, c
<1>3. ASSUME NEW b \in Bytes
      PROVE  /\ c(b) \in Seq(Bytes) /\ Len(c(b)) \in {1, 2}
             /\ \A k \in 1 .. Len(c(b)) : c(b)[k] # 0
  <2> DEFINE x == c(b)
             v == u(b)
  <2>1. /\ x \in Seq(Bytes) /\ v \in 33 .. 511
        /\ \/ v < 128 /\ Len(x) = 1 /\ x[1] = v
           \/ /\ v >= 128 /\ Len(x) = 2 /\ x[1] = 192 + v \div 64
              /\ x[2] = 128 + (v % 64)
              /\ x[1] \in 192 .. 199 /\ x[2] \in 128 .. 191
    BY <1>1
  <2> HIDE DEF x, v
  <2>2. ASSUME NEW k \in 1 .. Len(x) PROVE x[k] # 0
    <3>1. CASE Len(x) = 1
      <4>1. k = 1 /\ x[1] = v
        BY <2>1, <3>1
      <4> QED
        BY <2>1, <4>1
    <3>2. CASE Len(x) = 2
      <4>1. (k = 1 \/ k = 2) /\ x[1] \in 192 .. 199 /\ x[2] \in 128 .. 191
        BY <2>1, <3>2
      <4>2. x[1] # 0
        BY <4>1
      <4>3. \A y \in 128 .. 191 : y # 0
        OBVIOUS
      <4>4. x[2] # 0
        BY <4>1, <4>3
      <4>5. k = 1 \/ k = 2
        BY <4>1
      <4> QED
        BY <4>2, <4>4, <4>5, Zenon
    <3> QED
      BY <2>1, <3>1, <3>2
  <2> QED
    BY <2>1, <2>2 DEF x
<1>4. ASSUME NEW b \in Bytes, NEW d \in Bytes, Len(c(d)) = 2
      PROVE  c(b)[1] # c(d)[2]
  <2> DEFINE v == u(b)
             w == u(d)
             x == c(b)
             y == c(d)
  <2>1. /\ v \in 33 .. 511
        /\ \/ v < 128 /\ Len(x) = 1 /\ x[1] = v
           \/ v >= 128 /\ x[1] \in 192 .. 199
    BY <1>1
  <2>2. \/ w < 128 /\ Len(y) = 1 /\ y[1] = w
        \/ w >= 128 /\ Len(y) = 2 /\ y[2] \in 128 .. 191
    BY <1>1
  <2>3. Len(y) = 2
    BY <1>4
  <2> HIDE DEF v, w, x, y
  <2>4. x[1] # y[2]
    BY <2>1, <2>2, <2>3
  <2> QED
    BY <2>4 DEF x, y
<1>5. ASSUME NEW b \in Bytes, NEW d \in Bytes, c(b)[1] = c(d)[1]
      PROVE  /\ Len(c(b)) = Len(c(d))
             /\ (Len(c(b)) = 2 => c(b)[2] = c(d)[2]) => b = d
  <2> DEFINE v == u(b)
             w == u(d)
             x == c(b)
             y == c(d)
  <2>1. /\ v \in 33 .. 511
        /\ \/ v < 128 /\ Len(x) = 1 /\ x[1] = v
           \/ v >= 128 /\ Len(x) = 2 /\ x[1] = 192 + v \div 64
              /\ x[2] = 128 + (v % 64)
    BY <1>1
  <2>2. /\ w \in 33 .. 511
        /\ \/ w < 128 /\ Len(y) = 1 /\ y[1] = w
           \/ w >= 128 /\ Len(y) = 2 /\ y[1] = 192 + w \div 64
              /\ y[2] = 128 + (w % 64)
    BY <1>1
  <2>3. x[1] = y[1]
    BY <1>5
  <2> HIDE DEF v, w, x, y
  <2>4. Len(x) = Len(y)
    BY <2>1, <2>2, <2>3
  <2>5. ASSUME Len(x) = 2 => x[2] = y[2] PROVE v = w
    BY <2>1, <2>2, <2>3, <2>5
  <2>6. Len(c(b)) = Len(c(d))
    BY <2>4 DEF x, y
  <2>7. ASSUME Len(c(b)) = 2 => c(b)[2] = c(d)[2] PROVE u(b) = u(d)
    BY <2>7, <2>5 DEF v, w, x, y
  <2> QED
    BY <1>2, <2>6, <2>7
<1> QED
  BY <1>3, <1>4, <1>5 DEF c

\* What is read at the head of any string.
LEMMA CodepointTyped ==
  ASSUME NEW s \in Seq(Bytes), s # <<>>
  PROVE  DecodeCodepoint(s).cp \in Nat /\ DecodeCodepoint(s).size \in 1 .. 3
<1>1. \A k \in 1 .. Len(s) : s[k] \in Nat
  BY ElementOfSeq, BytesInt
<1>2. Len(s) \in Nat /\ Len(s) >= 1
  BY EmptySeq
<1>3. CASE s[1] \div 32 = 6 /\ Len(s) >= 2
  <2>1. s[1] \in Nat /\ s[2] \in Nat
    BY <1>1, <1>2, <1>3
  <2> QED
    BY <1>3, <2>1 DEF DecodeCodepoint
<1>4. CASE ~(s[1] \div 32 = 6 /\ Len(s) >= 2)
           /\ s[1] \div 16 = 14 /\ Len(s) >= 3
  <2>1. s[1] \in Nat /\ s[2] \in Nat /\ s[3] \in Nat
    BY <1>1, <1>2, <1>4
  <2>2. DecodeCodepoint(s) =
          [cp |-> (s[1] % 32) * 64 + (s[2] % 64), size |-> 2]
        \/ DecodeCodepoint(s) =
             [cp |-> (s[1] % 16) * 4096 + (s[2] % 64) * 64 + (s[3] % 64),
              size |-> 3]
    BY <1>4 DEF DecodeCodepoint
  <2>3. /\ (s[1] % 32) * 64 + (s[2] % 64) \in Nat
        /\ (s[1] % 16) * 4096 + (s[2] % 64) * 64 + (s[3] % 64) \in Nat
    <3> DEFINE x == s[1]
               y == s[2]
               z == s[3]
    <3>1. x \in Nat /\ y \in Nat /\ z \in Nat
      BY <2>1
    <3> HIDE DEF x, y, z
    <3>2. x % 32 \in Nat /\ x % 16 \in Nat /\ y % 64 \in Nat /\ z % 64 \in Nat
      BY <3>1
    <3>3. (x % 32) * 64 + (y % 64) \in Nat
          /\ (x % 16) * 4096 + (y % 64) * 64 + (z % 64) \in Nat
      BY <3>2
    <3> QED
      BY <3>3 DEF x, y, z
  <2> QED
    BY <2>2, <2>3
<1>5. CASE ~(s[1] \div 32 = 6 /\ Len(s) >= 2)
           /\ ~(s[1] \div 16 = 14 /\ Len(s) >= 3)
  <2>1. s[1] \in Nat
    BY <1>1, <1>2
  <2> QED
    BY <1>5, <2>1 DEF DecodeCodepoint
<1> QED
  BY <1>3, <1>4, <1>5

\* A spelling is read as it was written.
LEMMA CodeDecoded ==
  ASSUME NEW b \in Bytes, NEW t \in Seq(Bytes),
         Len(t) >= Len(EncodeByte(b)),
         \A k \in 1 .. Len(EncodeByte(b)) : t[k] = EncodeByte(b)[k]
  PROVE  /\ DecodeCodepoint(t).size = Len(EncodeByte(b))
         /\ DecodedByte(DecodeCodepoint(t).cp) = b
<1> DEFINE u == byte_to_unicode[b]
           c == EncodeByte(b)
<1>1. u \in 33 .. 511 /\ DecodedByte(u) = b
  BY UnicodeOf, ByteDecoded
<1>2. \/ u < 128 /\ Len(c) = 1 /\ c[1] = u
      \/ u >= 128 /\ Len(c) = 2 /\ c[1] = 192 + u \div 64 /\ c[2] = 128 + (u % 64)
  BY CodeIs DEF u
<1>3. Len(t) \in Nat /\ Len(t) >= Len(c) /\ \A k \in 1 .. Len(c) : t[k] = c[k]
  OBVIOUS
<1> HIDE DEF u, c
<1>4. CASE u < 128
  <2>1. Len(c) = 1 /\ t[1] = u
    <3>1. Len(c) = 1 /\ c[1] = u
      BY <1>1, <1>4, <1>2
    <3> QED
      BY <1>3, <3>1
  <2>2. t[1] \div 32 # 6 /\ t[1] \div 16 # 14
    BY <1>1, <1>4, <2>1
  <2>3. DecodeCodepoint(t) = [cp |-> u, size |-> 1]
    BY <2>1, <2>2 DEF DecodeCodepoint
  <2> QED
    BY <1>1, <2>1, <2>3 DEF c
<1>5. CASE u >= 128
  <2>1. Len(c) = 2 /\ t[1] = 192 + u \div 64 /\ t[2] = 128 + (u % 64)
    <3>1. Len(c) = 2 /\ c[1] = 192 + u \div 64 /\ c[2] = 128 + (u % 64)
      BY <1>1, <1>5, <1>2
    <3>2. t[1] = c[1] /\ t[2] = c[2]
      BY <1>3, <3>1
    <3> QED
      BY <3>1, <3>2
  <2>2. t[1] \div 32 = 6 /\ (t[1] % 32) * 64 + (t[2] % 64) = u
    BY <1>1, <2>1
  <2>3. Len(t) \in Nat /\ Len(t) >= 2 /\ t[1] \div 16 # 14
    BY <1>1, <1>3, <2>1
  <2>4. DecodeCodepoint(t) = [cp |-> u, size |-> 2]
    <3> DEFINE z == (t[1] % 32) * 64 + (t[2] % 64)
    <3>1. DecodeCodepoint(t) = [cp |-> z, size |-> 2]
      <4> HIDE DEF z
      <4>1. t[1] \div 32 = 6 /\ Len(t) >= 2 /\ ~(t[1] \div 16 = 14)
        BY <2>2, <2>3
      <4> QED
        BY <4>1 DEF DecodeCodepoint, z
    <3> QED
      BY <2>2, <3>1
  <2> QED
    BY <1>1, <2>1, <2>4 DEF c
<1> QED
  BY <1>1, <1>4, <1>5

\* The loop of text_to_byte_encoding.
LEMMA EncodeTextLoop ==
  ASSUME NEW s \in Seq(Bytes)
  PROVE  \E r : /\ r \in [0 .. Len(s) -> Seq(Bytes)]
                /\ r[0] = <<>>
                /\ \A m \in 1 .. Len(s) : r[m] = r[m - 1] \o EncodeByte(s[m])
                /\ EncodeText(s) = r[Len(s)]
<1> DEFINE n == Len(s)
           V == Seq(Bytes)
           v == <<>>
           T(x, m) == x \o EncodeByte(s[m])
           S == [m \in 0 + 1 .. n |-> [x \in V |-> T(x, m)]]
           Def(f) == f = [m \in 0 .. n |-> IF m = 0 THEN v ELSE T(f[m - 1], m)]
           r == CHOOSE f : Def(f)
<1>1. n \in Nat /\ v \in V
  BY LenProperties, EmptySeq
<1>2. ASSUME NEW m \in 1 .. n, NEW x \in V PROVE T(x, m) \in V
  <2>1. s[m] \in Bytes
    BY ElementOfSeq
  <2>2. EncodeByte(s[m]) \in Seq(Bytes)
    BY <2>1, CodeTells
  <2> QED
    BY <2>2, ConcatProperties
<1>3. 0 \in Int /\ n \in Int /\ 0 <= n /\ 0 + 1 .. n = 1 .. n
  BY <1>1
<1>4. EncodeText(s) = r[Len(s)]
  BY DEF EncodeText
<1> HIDE DEF n, V, v, T
<1>5. S \in [0 + 1 .. n -> [V -> V]]
  BY <1>2, <1>3
<1>6. \A m \in 0 .. n : m = 0 \/ (m \in 1 .. n /\ m - 1 \in 0 .. n)
  BY <1>1
<1>7. \E f : Def(f)
  <2>1. PICK f : LoopIs(f, V, v, 0, n, S)
    <3> HIDE DEF S
    <3> QED
      BY <1>1, <1>3, <1>5, LoopExists
  <2>2. /\ f \in [0 .. n -> V] /\ f[0] = v
        /\ \A m \in 1 .. n : f[m] = S[m][f[m - 1]]
    <3> HIDE DEF S
    <3> QED
      BY <1>3, <2>1 DEF LoopIs
  <2>3. \A m \in 1 .. n : S[m][f[m - 1]] = T(f[m - 1], m)
    BY <1>3, <1>6, <2>2
  <2> HIDE DEF S
  <2>4. \A m \in 0 .. n : f[m] = IF m = 0 THEN v ELSE T(f[m - 1], m)
    BY <1>6, <2>2, <2>3
  <2> QED
    BY <2>2, <2>4
<1>8. Def(r)
  <2> HIDE DEF Def
  <2> QED
    BY <1>7
<1> HIDE DEF r
<1>9. r[0] = v /\ \A m \in 1 .. n : r[m] = T(r[m - 1], m)
  <2>1. 0 \in 0 .. n /\ \A m \in 1 .. n : m \in 0 .. n /\ m # 0
    BY <1>1
  <2> QED
    BY <1>8, <2>1
<1>10. r \in [0 .. n -> V]
  <2> DEFINE P == {m \in 0 .. n : r[m] \in V}
  <2>1. 0 \in P /\ \A m \in 0 + 1 .. n : m - 1 \in P => m \in P
    BY <1>1, <1>2, <1>3, <1>6, <1>9
  <2>2. 0 .. n \subseteq P
    <3> HIDE DEF P
    <3> QED
      BY <1>3, <2>1, IntervalInduction
  <2> QED
    BY <1>8, <2>2
<1> QED
  BY <1>4, <1>9, <1>10 DEF n, V, v, T

-----------------------------------------------------------------------------
(* Where the bytes of a text are in its coding, spelled or raw.            *)

CodeOf(sp, b) == IF sp THEN EncodeByte(b) ELSE <<b>>

Coded(sp, s) == IF sp THEN EncodeText(s) ELSE s

\* The codes of the bytes of s follow each other in c; that of byte n ends at
\* p[n].
Places(sp, c, s, p) ==
  /\ c \in Seq(Bytes) /\ s \in Seq(Bytes)
  /\ p \in [0 .. Len(s) -> Nat] /\ p[0] = 0 /\ p[Len(s)] = Len(c)
  /\ \A n \in 1 .. Len(s) :
       /\ p[n] = p[n - 1] + Len(CodeOf(sp, s[n]))
       /\ \A k \in 1 .. Len(CodeOf(sp, s[n])) :
            c[p[n - 1] + k] = CodeOf(sp, s[n])[k]

\* What tells two codes apart, spelled or raw.
LEMMA CodeOfTells ==
  ASSUME NEW sp \in BOOLEAN
  PROVE  /\ \A b \in Bytes : /\ CodeOf(sp, b) \in Seq(Bytes)
                             /\ Len(CodeOf(sp, b)) \in {1, 2}
         /\ \A b \in Bytes : sp \/ b # 0 =>
              \A k \in 1 .. Len(CodeOf(sp, b)) : CodeOf(sp, b)[k] # 0
         /\ \A b, d \in Bytes :
              Len(CodeOf(sp, d)) = 2 => CodeOf(sp, b)[1] # CodeOf(sp, d)[2]
         /\ \A b, d \in Bytes :
              CodeOf(sp, b)[1] = CodeOf(sp, d)[1] =>
                /\ Len(CodeOf(sp, b)) = Len(CodeOf(sp, d))
                /\ (Len(CodeOf(sp, b)) = 2 =>
                      CodeOf(sp, b)[2] = CodeOf(sp, d)[2]) => b = d
<1>1. CASE sp
  <2>1. \A b : CodeOf(sp, b) = EncodeByte(b)
    BY <1>1 DEF CodeOf
  <2> QED
    BY <2>1, CodeTells
<1>2. CASE ~sp
  <2>1. \A b \in Bytes : /\ CodeOf(sp, b) = <<b>> /\ CodeOf(sp, b) \in Seq(Bytes)
                         /\ Len(CodeOf(sp, b)) = 1 /\ CodeOf(sp, b)[1] = b
    BY <1>2 DEF CodeOf
  <2>2. ASSUME NEW b \in Bytes, b # 0, NEW k \in 1 .. Len(CodeOf(sp, b))
        PROVE  CodeOf(sp, b)[k] # 0
    BY <2>1, <2>2
  <2> QED
    BY <1>2, <2>1, <2>2
<1> QED
  BY <1>1, <1>2

\* Every text has its bytes in their places.
LEMMA CodedPlaces ==
  ASSUME NEW sp \in BOOLEAN, NEW s \in Seq(Bytes)
  PROVE  \E p : Places(sp, Coded(sp, s), s, p)
<1> DEFINE n == Len(s)
           c(m) == CodeOf(sp, s[m])
<1>1. /\ n \in Nat
      /\ \A m \in 1 .. n : /\ s[m] \in Bytes /\ c(m) \in Seq(Bytes)
                           /\ Len(c(m)) \in Nat /\ m - 1 \in 0 .. n /\ m \in 0 .. n
  BY ElementOfSeq, LenProperties, CodeOfTells
<1>2. CASE sp
  <2>1. PICK r : /\ r \in [0 .. n -> Seq(Bytes)] /\ r[0] = <<>>
                 /\ \A m \in 1 .. n : r[m] = r[m - 1] \o EncodeByte(s[m])
                 /\ EncodeText(s) = r[n]
    BY EncodeTextLoop
  <2> DEFINE p == [m \in 0 .. n |-> Len(r[m])]
             Laid(m) == \A j \in 1 .. m :
                          /\ p[j] <= p[m] /\ p[j] = p[j - 1] + Len(c(j))
                          /\ \A k \in 1 .. Len(c(j)) :
                               r[m][p[j - 1] + k] = c(j)[k]
  <2>2. \A m \in 0 .. n : r[m] \in Seq(Bytes) /\ p[m] = Len(r[m]) /\ p[m] \in Nat
    <3>1. ASSUME NEW m \in 0 .. n
          PROVE  r[m] \in Seq(Bytes) /\ p[m] = Len(r[m]) /\ p[m] \in Nat
      <4>1. r[m] \in Seq(Bytes) /\ p[m] = Len(r[m])
        BY <2>1
      <4> QED
        BY <4>1, LenProperties
    <3> QED
      BY <3>1
  <2>3. \A m \in 1 .. n : r[m] = r[m - 1] \o c(m)
    BY <1>2, <2>1 DEF CodeOf
  <2> HIDE DEF p, c
  <2>4. ASSUME NEW m \in 1 .. n, Laid(m - 1) PROVE Laid(m)
    <3> DEFINE q == r[m - 1]
               d == c(m)
    <3>1. /\ q \in Seq(Bytes) /\ d \in Seq(Bytes) /\ r[m] = q \o d
          /\ p[m - 1] = Len(q) /\ p[m] = Len(r[m])
          /\ m - 1 \in Nat /\ m \in 1 .. m
          /\ \A j \in 1 .. m : j = m \/ j \in 1 .. m - 1
      BY <1>1, <2>2, <2>3
    <3> HIDE DEF q
    <3>2. /\ Len(r[m]) = Len(q) + Len(d) /\ Len(q) \in Nat /\ Len(d) \in Nat
          /\ \A i \in 1 .. Len(q) + Len(d) :
               r[m][i] = IF i <= Len(q) THEN q[i] ELSE d[i - Len(q)]
      BY <3>1, ConcatProperties
    <3>3. ASSUME NEW j \in 1 .. m
          PROVE  /\ p[j] <= p[m] /\ p[j] = p[j - 1] + Len(c(j))
                 /\ \A k \in 1 .. Len(c(j)) : r[m][p[j - 1] + k] = c(j)[k]
      <4>1. CASE j = m
        <5>1. p[j] = p[j - 1] + Len(c(j)) /\ p[j] <= p[m]
          <6> DEFINE lq == Len(q)
                     ld == Len(d)
          <6>1. /\ p[m] = lq + ld /\ p[m - 1] = lq
                /\ lq \in Nat /\ ld \in Nat
            BY <3>1, <3>2
          <6>2. p[m] = p[m - 1] + ld /\ p[m] <= p[m]
            <7> HIDE DEF lq, ld
            <7> QED
              BY <6>1
          <6> QED
            BY <4>1, <6>2
        <5>2. ASSUME NEW k \in 1 .. Len(d) PROVE r[m][p[j - 1] + k] = d[k]
          <6>1. /\ Len(q) + k \in 1 .. Len(q) + Len(d) /\ ~(Len(q) + k <= Len(q))
                /\ Len(q) + k - Len(q) = k
            BY <3>2
          <6>2. r[m][Len(q) + k] = d[k]
            BY <3>2, <6>1
          <6>3. p[j - 1] = Len(q)
            BY <3>1, <4>1
          <6> QED
            BY <6>2, <6>3
        <5> QED
          BY <4>1, <5>1, <5>2
      <4>2. CASE j \in 1 .. m - 1
        <5>1. /\ p[j] <= Len(q) /\ p[j] = p[j - 1] + Len(c(j))
              /\ \A k \in 1 .. Len(c(j)) : q[p[j - 1] + k] = c(j)[k]
          BY <2>4, <3>1, <4>2 DEF q
        <5>2. p[j] \in Nat /\ p[j - 1] \in Nat /\ Len(c(j)) \in Nat
          <6>1. j \in 1 .. n
            BY <4>2
          <6> QED
            BY <1>1, <2>2, <6>1
        <5>3. ASSUME NEW k \in 1 .. Len(c(j)) PROVE r[m][p[j - 1] + k] = c(j)[k]
          <6>1. p[j - 1] + k \in 1 .. Len(q) + Len(d) /\ p[j - 1] + k <= Len(q)
            <7> DEFINE lq == Len(q)
                       ld == Len(d)
                       lc == Len(c(j))
                       g  == p[j - 1]
                       h  == p[j]
            <7>1. /\ lq \in Nat /\ ld \in Nat /\ lc \in Nat /\ g \in Nat /\ h \in Nat
                  /\ h <= lq /\ h = g + lc /\ k \in 1 .. lc
              BY <3>2, <5>1, <5>2
            <7> HIDE DEF lq, ld, lc, g, h
            <7>2. g + k \in 1 .. lq + ld /\ g + k <= lq
              BY <7>1
            <7> QED
              BY <7>2 DEF lq, ld, g
          <6> QED
            BY <3>2, <5>1, <6>1
        <5>4. p[j] <= p[m]
          BY <3>1, <3>2, <5>1, <5>2
        <5> QED
          BY <5>1, <5>3, <5>4
      <4> QED
        BY <3>1, <4>1, <4>2
    <3> QED
      BY <3>3
  <2> DEFINE P == {m \in 0 .. n : Laid(m)}
  <2>5. 0 .. n \subseteq P
    <3>1. 0 \in P
      BY <1>1
    <3>2. \A m \in 0 + 1 .. n : m - 1 \in P => m \in P
      <4> HIDE DEF Laid
      <4> QED
        BY <1>1, <2>4
    <3>3. 0 \in Int /\ n \in Int
      BY <1>1
    <3> HIDE DEF P
    <3> QED
      BY <3>1, <3>2, <3>3, IntervalInduction
  <2>6. Laid(n)
    BY <1>1, <2>5
  <2>7. p \in [0 .. n -> Nat] /\ p[0] = 0
    BY <1>1, <2>1, <2>2 DEF p
  <2>8. Coded(sp, s) = r[n]
    BY <1>2, <2>1 DEF Coded
  <2>9. \A m \in 1 .. n : /\ p[m] = p[m - 1] + Len(c(m))
                          /\ \A k \in 1 .. Len(c(m)) : r[n][p[m - 1] + k] = c(m)[k]
    BY <2>6
  <2>10. r[n] \in Seq(Bytes) /\ p[n] = Len(r[n])
    BY <1>1, <2>2
  <2>11. Places(sp, r[n], s, p)
    BY <2>7, <2>9, <2>10 DEF Places, c
  <2> QED
    BY <2>8, <2>11
<1>3. CASE ~sp
  <2> DEFINE p == [m \in 0 .. n |-> m]
  <2>1. Coded(sp, s) = s
    BY <1>3 DEF Coded
  <2>2. \A m \in 1 .. n : Len(CodeOf(sp, s[m])) = 1 /\ CodeOf(sp, s[m])[1] = s[m]
    BY <1>3 DEF CodeOf
  <2>3. p \in [0 .. n -> Nat] /\ p[0] = 0 /\ p[n] = n
        /\ \A m \in 1 .. n : p[m] = m /\ p[m - 1] = m - 1
    BY <1>1
  <2> HIDE DEF p
  <2>4. \A m \in 1 .. n :
          /\ p[m] = p[m - 1] + Len(CodeOf(sp, s[m]))
          /\ \A k \in 1 .. Len(CodeOf(sp, s[m])) :
               s[p[m - 1] + k] = CodeOf(sp, s[m])[k]
    <3>1. ASSUME NEW m \in 1 .. n
          PROVE  /\ p[m] = p[m - 1] + Len(CodeOf(sp, s[m]))
                 /\ \A k \in 1 .. Len(CodeOf(sp, s[m])) :
                      s[p[m - 1] + k] = CodeOf(sp, s[m])[k]
      <4> DEFINE d == CodeOf(sp, s[m])
      <4>1. Len(d) = 1 /\ d[1] = s[m] /\ p[m] = m /\ p[m - 1] = m - 1 /\ m \in Int
        BY <1>1, <2>2, <2>3
      <4> HIDE DEF d
      <4>2. ASSUME NEW k \in 1 .. Len(d) PROVE s[p[m - 1] + k] = d[k]
        <5>1. k = 1 /\ p[m - 1] + k = m
          BY <4>1
        <5> QED
          BY <4>1, <5>1
      <4> QED
        BY <4>1, <4>2 DEF d
    <3> QED
      BY <3>1
  <2>5. Places(sp, s, s, p)
    BY <2>3, <2>4 DEF Places
  <2> QED
    BY <2>1, <2>5
<1> QED
  BY <1>2, <1>3

\* The places follow one another without a gap.
LEMMA PlacesOrder ==
  ASSUME NEW sp \in BOOLEAN, NEW c, NEW s, NEW p, Places(sp, c, s, p)
  PROVE  /\ \A i, j \in 0 .. Len(s) : i <= j => p[i] + (j - i) <= p[j]
         /\ \A q \in 1 .. Len(c) :
              \E n \in 1 .. Len(s) : p[n - 1] < q /\ q <= p[n]
<1> DEFINE N == Len(s)
<1>1. /\ N \in Nat /\ p[0] = 0 /\ p[N] = Len(c) /\ Len(c) \in Nat
      /\ \A n \in 0 .. N : p[n] \in Nat
  BY LenProperties DEF Places
<1>2. ASSUME NEW n \in 1 .. N PROVE p[n] >= p[n - 1] + 1
  <2> DEFINE d == CodeOf(sp, s[n])
  <2>1. p[n] = p[n - 1] + Len(d)
    BY DEF Places
  <2>2. s[n] \in Bytes
    BY ElementOfSeq DEF Places
  <2> DEFINE l == Len(d)
             u == p[n - 1]
             w == p[n]
  <2>3. l \in {1, 2}
    BY <2>2, CodeOfTells
  <2>4. u \in Nat /\ w = u + l
    BY <1>1, <2>1
  <2> HIDE DEF l, u, w
  <2>5. w >= u + 1
    BY <2>3, <2>4
  <2> QED
    BY <2>5 DEF u, w
<1>3. ASSUME NEW i \in 0 .. N, NEW j \in 0 .. N, i <= j
      PROVE  p[i] + (j - i) <= p[j]
  <2> DEFINE P == {m \in i .. N : p[i] + (m - i) <= p[m]}
  <2>1. i \in P
    BY <1>1
  <2>2. ASSUME NEW m \in i + 1 .. N, m - 1 \in P PROVE m \in P
    <3>1. m \in 1 .. N /\ m - 1 \in 0 .. N /\ m \in 0 .. N /\ m \in i .. N
      BY <1>1
    <3>2. p[m] >= p[m - 1] + 1 /\ p[m] \in Nat /\ p[m - 1] \in Nat /\ p[i] \in Nat
      BY <1>1, <1>2, <3>1
    <3>3. p[i] + ((m - 1) - i) <= p[m - 1]
      BY <2>2
    <3> QED
      BY <3>1, <3>2, <3>3
  <2>3. i \in Int /\ N \in Int /\ j \in i .. N
    BY <1>1, <1>3
  <2>4. i .. N \subseteq P
    <3> HIDE DEF P
    <3> QED
      BY <2>1, <2>2, <2>3, IntervalInduction
  <2> QED
    BY <2>3, <2>4
<1>4. ASSUME NEW q \in 1 .. Len(c)
      PROVE  \E n \in 1 .. N : p[n - 1] < q /\ q <= p[n]
  <2> DEFINE T == {n \in 0 .. N : q <= p[n]}
  <2>1. N \in T /\ T \in SUBSET Nat
    BY <1>1
  <2>2. PICK n \in T : \A m \in T : n <= m
    <3> HIDE DEF T
    <3> QED
      BY <2>1, LeastNumber
  <2>3. n \in 0 .. N /\ q <= p[n] /\ n # 0
    BY <1>1, <2>2
  <2>4. n \in 1 .. N /\ n - 1 \in 0 .. N /\ ~(n <= n - 1)
    BY <1>1, <2>3
  <2>5. ~(q <= p[n - 1])
    BY <2>2, <2>4
  <2>6. p[n - 1] \in Nat
    BY <1>1, <2>4
  <2> QED
    BY <2>3, <2>4, <2>5, <2>6
<1> QED
  BY <1>3, <1>4

\* Where the coding of a string occurs in the coding of a text, the string
\* occurs in the text.
LEMMA CodeMatches ==
  ASSUME NEW sp \in BOOLEAN, NEW c, NEW s, NEW p, Places(sp, c, s, p),
         NEW d, NEW e, NEW q, Places(sp, d, e, q), e # <<>>,
         NEW i \in 1 .. Len(c), NEW j \in i .. Len(c), SubSeq(c, i, j) = d
  PROVE  \E a \in 0 .. Len(s) - 1 : \E b \in a + 1 .. Len(s) :
           i = p[a] + 1 /\ j = p[b] /\ e = SubSeq(s, a + 1, b)
<1> DEFINE N == Len(s)
           L == Len(e)
           x(m) == CodeOf(sp, e[m])
           y(m) == CodeOf(sp, s[m])
<1>1. /\ c \in Seq(Bytes) /\ s \in Seq(Bytes) /\ e \in Seq(Bytes)
      /\ N \in Nat /\ L \in Nat /\ L >= 1 /\ Len(c) \in Nat
      /\ p[0] = 0 /\ p[N] = Len(c) /\ q[0] = 0 /\ q[L] = Len(d)
      /\ \A n \in 0 .. N : p[n] \in Nat
      /\ \A n \in 0 .. L : q[n] \in Nat
  <2>1. /\ c \in Seq(Bytes) /\ s \in Seq(Bytes) /\ e \in Seq(Bytes)
        /\ p[0] = 0 /\ p[N] = Len(c) /\ q[0] = 0 /\ q[L] = Len(d)
        /\ p \in [0 .. N -> Nat] /\ q \in [0 .. L -> Nat]
    BY DEF Places
  <2>2. N \in Nat /\ L \in Nat /\ Len(c) \in Nat /\ L # 0
    BY <2>1, LenProperties, EmptySeq
  <2> HIDE DEF N, L
  <2> QED
    BY <2>1, <2>2
<1>2. /\ \A n \in 1 .. N : /\ p[n] = p[n - 1] + Len(y(n))
                           /\ \A k \in 1 .. Len(y(n)) : c[p[n - 1] + k] = y(n)[k]
                           /\ s[n] \in Bytes /\ Len(y(n)) \in {1, 2}
      /\ \A n \in 1 .. L : /\ q[n] = q[n - 1] + Len(x(n))
                           /\ \A k \in 1 .. Len(x(n)) : d[q[n - 1] + k] = x(n)[k]
                           /\ e[n] \in Bytes /\ Len(x(n)) \in {1, 2}
  <2>1. \A n \in 1 .. N : s[n] \in Bytes
    BY <1>1, ElementOfSeq
  <2>2. \A n \in 1 .. L : e[n] \in Bytes
    BY <1>1, ElementOfSeq
  <2>3. /\ \A n \in 1 .. N : /\ p[n] = p[n - 1] + Len(y(n))
                             /\ \A k \in 1 .. Len(y(n)) : c[p[n - 1] + k] = y(n)[k]
        /\ \A n \in 1 .. L : /\ q[n] = q[n - 1] + Len(x(n))
                             /\ \A k \in 1 .. Len(x(n)) : d[q[n - 1] + k] = x(n)[k]
    BY DEF Places
  <2>4. /\ \A n \in 1 .. N : Len(y(n)) \in {1, 2}
        /\ \A n \in 1 .. L : Len(x(n)) \in {1, 2}
    BY <2>1, <2>2, CodeOfTells
  <2> QED
    BY <2>1, <2>2, <2>3, <2>4
<1>3. /\ Len(d) = j - i + 1 /\ i \in Nat /\ j \in Nat /\ j <= Len(c) /\ i >= 1
      /\ i <= j
      /\ \A k \in 1 .. Len(d) : d[k] = c[i + k - 1]
  <2>1. i \in Int /\ j \in Int /\ i <= j /\ 1 <= i /\ j <= Len(c)
    BY <1>1
  <2>2. \A m \in i .. j : c[m] \in Bytes
    BY <1>1, <2>1, ElementOfSeq
  <2>3. /\ Len(d) = IF i <= j THEN j - i + 1 ELSE 0
        /\ \A k \in 1 .. j - i + 1 : d[k] = c[i + k - 1]
    BY <2>1, <2>2, SubSeqProperties
  <2> QED
    BY <2>1, <2>3
<1>4. \A n \in 1 .. L : \A m \in 1 .. N :
        /\ Len(y(m)) = 2 => x(n)[1] # y(m)[2]
        /\ x(n)[1] = y(m)[1] =>
             /\ Len(x(n)) = Len(y(m))
             /\ (Len(x(n)) = 2 => x(n)[2] = y(m)[2]) => e[n] = s[m]
  <2>1. ASSUME NEW n \in 1 .. L, NEW m \in 1 .. N, NEW b \in Bytes, NEW z \in Bytes,
               b = e[n], z = s[m]
        PROVE  /\ Len(y(m)) = 2 => x(n)[1] # y(m)[2]
               /\ x(n)[1] = y(m)[1] =>
                    /\ Len(x(n)) = Len(y(m))
                    /\ (Len(x(n)) = 2 => x(n)[2] = y(m)[2]) => e[n] = s[m]
    <3>1. x(n) = CodeOf(sp, b) /\ y(m) = CodeOf(sp, z)
      BY <2>1
    <3>2. /\ Len(CodeOf(sp, z)) = 2 => CodeOf(sp, b)[1] # CodeOf(sp, z)[2]
          /\ CodeOf(sp, b)[1] = CodeOf(sp, z)[1] =>
               /\ Len(CodeOf(sp, b)) = Len(CodeOf(sp, z))
               /\ (Len(CodeOf(sp, b)) = 2 =>
                     CodeOf(sp, b)[2] = CodeOf(sp, z)[2]) => b = z
      BY CodeOfTells
    <3> HIDE DEF x, y
    <3> QED
      BY <2>1, <3>1, <3>2
  <2>2. \A n \in 1 .. L : e[n] \in Bytes
    BY <1>2
  <2>3. \A m \in 1 .. N : s[m] \in Bytes
    BY <1>2
  <2> HIDE DEF x, y
  <2> QED
    BY <2>1, <2>2, <2>3
<1> HIDE DEF x, y, N, L
<1>5. PICK n \in 1 .. N : p[n - 1] < i /\ i <= p[n]
  BY PlacesOrder DEF N
<1> DEFINE a == n - 1
<1>6. a \in 0 .. N - 1 /\ a + 1 = n /\ p[a] \in Nat
  BY <1>1
<1>7. d[1] = x(1)[1]
  <2>1. /\ 1 \in 1 .. L /\ Len(x(1)) \in {1, 2} /\ 1 - 1 = 0 /\ 0 + 1 = 1
        /\ \A k \in 1 .. Len(x(1)) : d[q[1 - 1] + k] = x(1)[k]
    BY <1>1, <1>2
  <2>2. 1 \in 1 .. Len(x(1))
    <3> DEFINE l == Len(x(1))
    <3>1. l \in {1, 2}
      BY <2>1
    <3> HIDE DEF l
    <3>2. 1 \in 1 .. l
      BY <3>1
    <3> QED
      BY <3>2 DEF l
  <2> QED
    BY <1>1, <2>1, <2>2
<1>8. i = p[a] + 1
  <2>1. /\ p[n] = p[a] + Len(y(n)) /\ Len(y(n)) \in {1, 2}
        /\ \A k \in 1 .. Len(y(n)) : c[p[a] + k] = y(n)[k]
    BY <1>2
  <2>2. i = p[a] + 1 \/ (Len(y(n)) = 2 /\ i = p[a] + 2)
    <3> DEFINE l == Len(y(n))
               u == p[a]
               w == p[n]
    <3>1. l \in {1, 2} /\ u \in Nat /\ w = u + l /\ u < i /\ i <= w /\ i \in Nat
      BY <1>3, <1>5, <1>6, <2>1
    <3> HIDE DEF l, u, w
    <3>2. i = u + 1 \/ (l = 2 /\ i = u + 2)
      BY <3>1
    <3> QED
      BY <3>2 DEF l, u
  <2>3. ASSUME Len(y(n)) = 2, i = p[a] + 2 PROVE FALSE
    <3>1. c[i] = y(n)[2]
      BY <2>1, <2>3
    <3>2. 1 \in 1 .. Len(d) /\ i + 1 - 1 = i
      BY <1>3
    <3>3. c[i] = x(1)[1]
      BY <1>3, <1>7, <3>2
    <3>4. 1 \in 1 .. L
      BY <1>1
    <3> QED
      BY <1>4, <2>3, <3>1, <3>3, <3>4
  <2> QED
    BY <2>2, <2>3
<1> HIDE DEF a
<1> DEFINE Same(m) == /\ a + m <= N /\ p[a + m] = p[a] + q[m]
                      /\ \A k \in 1 .. m : e[k] = s[a + k]
           P == {m \in 0 .. L : Same(m)}
<1>9. 0 \in P
  <2>1. a + 0 = a /\ 0 \in 0 .. L
    BY <1>1, <1>6
  <2> QED
    BY <1>1, <1>6, <2>1
<1>10. ASSUME NEW m \in 0 + 1 .. L, m - 1 \in P PROVE m \in P
  <2> DEFINE h == a + (m - 1)
             v == x(m)
             w == y(a + m)
  <2>1. /\ m \in 1 .. L /\ m - 1 \in 0 .. L /\ m \in 0 .. L
        /\ h <= N /\ p[h] = p[a] + q[m - 1] /\ \A k \in 1 .. m - 1 : e[k] = s[a + k]
        /\ h \in 0 .. N /\ h = a + m - 1 /\ h + 1 = a + m
    BY <1>1, <1>6, <1>10
  <2>2. /\ q[m] = q[m - 1] + Len(v) /\ Len(v) \in {1, 2}
        /\ \A k \in 1 .. Len(v) : d[q[m - 1] + k] = v[k]
        /\ q[m] \in Nat /\ q[m - 1] \in Nat /\ p[h] \in Nat
    BY <1>1, <1>2, <2>1
  <2>3. q[m] <= Len(d)
    <3>1. q[m] + (L - m) <= q[L]
      BY <2>1, PlacesOrder DEF L
    <3> DEFINE u == q[m]
               z == q[L]
    <3>2. u + (L - m) <= z /\ L - m \in Nat /\ u \in Nat /\ z \in Nat
      BY <1>1, <2>1, <2>2, <3>1
    <3> HIDE DEF u, z
    <3>3. u <= z
      BY <3>2
    <3> QED
      BY <1>1, <3>3 DEF u, z
  <2> HIDE DEF v, h
  <2>4. ASSUME NEW k \in 1 .. Len(v) PROVE c[p[h] + k] = v[k] /\ p[h] + k <= p[N]
    <3> DEFINE l == Len(v)
               u == q[m - 1]
               o == q[m]
               f == Len(d)
               g == p[h]
               t == p[a]
               z == Len(c)
    <3>1. /\ l \in {1, 2} /\ u \in Nat /\ o = u + l /\ o <= f /\ f = j - i + 1
          /\ g = t + u /\ i = t + 1 /\ t \in Nat /\ g \in Nat /\ k \in 1 .. l
          /\ i \in Nat /\ j \in Nat /\ j <= z /\ z \in Nat
      BY <1>1, <1>3, <1>6, <1>8, <2>1, <2>2, <2>3
    <3> HIDE DEF l, u, o, f, g, t, z
    <3>2. u + k \in 1 .. f /\ i + (u + k) - 1 = g + k /\ g + k <= z
      BY <3>1
    <3>3. d[u + k] = c[i + (u + k) - 1]
      BY <1>3, <3>2 DEF f
    <3>4. d[u + k] = v[k]
      BY <2>2 DEF u
    <3> QED
      BY <1>1, <3>2, <3>3, <3>4 DEF g, z
  <2>5. 1 \in 1 .. Len(v) /\ Len(v) \in Int
    <3> DEFINE l == Len(v)
    <3>1. l \in {1, 2}
      BY <2>2
    <3> HIDE DEF l
    <3>2. 1 \in 1 .. l /\ l \in Int
      BY <3>1
    <3> QED
      BY <3>2 DEF l
  <2>6. h # N
    <3>1. p[h] + 1 <= p[N]
      BY <2>4, <2>5
    <3>2. p[h] + 1 # p[h] /\ ~(p[h] + 1 <= p[h])
      BY <2>2
    <3> QED
      BY <3>1, <3>2
  <2>7. a + m \in 1 .. N /\ (a + m) - 1 = h
    BY <1>1, <1>6, <2>1, <2>6
  <2>8. /\ p[a + m] = p[h] + Len(w) /\ Len(w) \in {1, 2}
        /\ \A k \in 1 .. Len(w) : c[p[h] + k] = w[k]
    BY <1>2, <2>7
  <2>9. /\ v[1] = w[1] => Len(v) = Len(w)
        /\ v[1] = w[1] => ((Len(v) = 2 => v[2] = w[2]) => e[m] = s[a + m])
    BY <1>4, <2>1, <2>7 DEF v
  <2> HIDE DEF w
  <2>10. 1 \in 1 .. Len(w) /\ (Len(w) = 2 => 2 \in 1 .. Len(w))
    <3> DEFINE l == Len(w)
    <3>1. l \in {1, 2}
      BY <2>8
    <3> HIDE DEF l
    <3>2. 1 \in 1 .. l /\ (l = 2 => 2 \in 1 .. l)
      BY <3>1
    <3> QED
      BY <3>2 DEF l
  <2>11. v[1] = w[1]
    BY <2>4, <2>5, <2>8, <2>10
  <2>12. Len(v) = 2 => v[2] = w[2]
    <3>1. Len(v) = 2 => 2 \in 1 .. Len(v) /\ 2 \in 1 .. Len(w)
      BY <2>9, <2>10, <2>11
    <3> QED
      BY <2>4, <2>8, <3>1
  <2>13. e[m] = s[a + m] /\ Len(v) = Len(w)
    BY <2>9, <2>11, <2>12
  <2>14. p[a + m] = p[a] + q[m]
    <3> DEFINE l == Len(w)
               u == q[m - 1]
               t == p[a]
               g == p[h]
    <3>1. /\ l \in {1, 2} /\ u \in Nat /\ t \in Nat /\ g = t + u
          /\ p[a + m] = g + l /\ q[m] = u + l
      BY <1>6, <2>1, <2>2, <2>8, <2>13
    <3> HIDE DEF l, u, t, g
    <3>2. g + l = t + (u + l)
      BY <3>1
    <3> QED
      BY <3>1, <3>2 DEF t
  <2>15. \A k \in 1 .. m : k = m \/ k \in 1 .. m - 1
    BY <2>1
  <2>16. \A k \in 1 .. m : e[k] = s[a + k]
    BY <2>1, <2>13, <2>15
  <2> QED
    BY <2>1, <2>7, <2>14, <2>16
<1>11. Same(L)
  <2>1. 0 \in Int /\ L \in Int /\ L \in 0 .. L
    BY <1>1
  <2>2. 0 .. L \subseteq P
    <3> HIDE DEF P
    <3> QED
      BY <1>9, <1>10, <2>1, IntervalInduction
  <2> QED
    BY <2>1, <2>2
<1> DEFINE b == a + L
<1>12. b \in a + 1 .. N /\ j = p[b] /\ \A k \in 1 .. L : e[k] = s[a + k]
  <2>1. p[b] = p[a] + (j - i + 1)
    BY <1>1, <1>3, <1>11
  <2> DEFINE t == p[a]
  <2>2. /\ t \in Nat /\ i = t + 1 /\ j \in Nat /\ p[b] = t + (j - i + 1)
    BY <1>3, <1>6, <1>8, <2>1
  <2> HIDE DEF t
  <2>3. t + (j - i + 1) = j
    BY <2>2
  <2>4. j = p[b]
    BY <2>2, <2>3
  <2>5. b <= N /\ \A k \in 1 .. L : e[k] = s[a + k]
    BY <1>11
  <2>6. a + 1 <= b
    BY <1>1, <1>6
  <2>7. b \in a + 1 .. N
    BY <1>1, <1>6, <2>5, <2>6
  <2> QED
    BY <2>4, <2>5, <2>7
<1> HIDE DEF Same, b
<1>13. e = SubSeq(s, a + 1, b)
  <2>1. /\ a + 1 \in Int /\ b \in Int /\ a + 1 <= b /\ b - (a + 1) + 1 = L
        /\ \A k \in 1 .. L : (a + 1) + k - 1 = a + k
    BY <1>1, <1>6, <1>12 DEF b
  <2>2. s \in Seq(Bytes) /\ 1 <= a + 1 /\ a + 1 <= b + 1 /\ b <= Len(s)
    BY <1>1, <1>6, <1>12 DEF N
  <2> DEFINE f == a + 1
             t == SubSeq(s, f, b)
  <2>3. /\ t \in Seq(Bytes) /\ Len(t) = b - f + 1
        /\ \A k \in 1 .. b - f + 1 : t[k] = s[f + k - 1]
    <3> HIDE DEF f
    <3>1. f \in Int /\ b \in Int /\ 1 <= f /\ f <= b + 1 /\ b <= Len(s)
      BY <2>1, <2>2 DEF f
    <3> QED
      BY <2>2, <3>1, SliceIs
  <2> HIDE DEF t
  <2>4. \A k \in 1 .. L : e[k] = t[k]
    BY <1>12, <2>1, <2>3
  <2>5. Len(e) = Len(t) /\ \A k \in 1 .. Len(e) : e[k] = t[k]
    BY <2>1, <2>3, <2>4 DEF L
  <2>6. e = t
    BY <1>1, <2>3, <2>5, SeqEqual
  <2> QED
    BY <2>6 DEF t
<1> QED
  BY <1>6, <1>8, <1>12, <1>13 DEF N

\* Different texts are coded differently, spelled or raw
\* (text_to_byte_encoding).
THEOREM CodedApart ==
  ASSUME NEW sp \in BOOLEAN, NEW s \in Seq(Bytes), NEW e \in Seq(Bytes),
         s # <<>>, Coded(sp, s) = Coded(sp, e)
  PROVE  s = e
<1> DEFINE c == Coded(sp, s)
<1>1. PICK p : Places(sp, c, s, p)
  BY CodedPlaces
<1>2. PICK q : Places(sp, c, e, q)
  BY CodedPlaces
<1> HIDE DEF c
<1>3. /\ Len(s) \in Nat /\ Len(s) >= 1 /\ Len(c) \in Nat /\ c \in Seq(Bytes)
      /\ p[0] = 0 /\ p[Len(s)] = Len(c) /\ q[0] = 0 /\ q[Len(e)] = Len(c)
  BY <1>1, <1>2, EmptySeq, LenProperties DEF Places
<1>4. \A k, m \in 0 .. Len(s) : k <= m => p[k] + (m - k) <= p[m]
  BY <1>1, PlacesOrder
<1>5. Len(c) >= Len(s)
  <2>1. 0 \in 0 .. Len(s) /\ Len(s) \in 0 .. Len(s) /\ 0 <= Len(s)
    BY <1>3
  <2>2. p[0] + (Len(s) - 0) <= p[Len(s)]
    BY <1>4, <2>1
  <2> QED
    BY <1>3, <2>2
<1>6. e # <<>>
  BY <1>3, <1>5
<1>7. /\ 1 \in 1 .. Len(c) /\ Len(c) \in 1 .. Len(c)
      /\ SubSeq(c, 1, Len(c)) = c
  BY <1>3, <1>5, SubSeqFull
<1>8. \E a \in 0 .. Len(s) - 1 : \E b \in a + 1 .. Len(s) :
        1 = p[a] + 1 /\ Len(c) = p[b] /\ e = SubSeq(s, a + 1, b)
  <2>1. ASSUME NEW i \in 1 .. Len(c), NEW j \in i .. Len(c), SubSeq(c, i, j) = c
        PROVE  \E a \in 0 .. Len(s) - 1 : \E b \in a + 1 .. Len(s) :
                 i = p[a] + 1 /\ j = p[b] /\ e = SubSeq(s, a + 1, b)
    <3>1. ASSUME NEW d, NEW f, NEW g, Places(sp, d, f, g), f # <<>>,
                 SubSeq(c, i, j) = d
          PROVE  \E a \in 0 .. Len(s) - 1 : \E b \in a + 1 .. Len(s) :
                   i = p[a] + 1 /\ j = p[b] /\ f = SubSeq(s, a + 1, b)
      BY <1>1, <3>1, CodeMatches
    <3> QED
      BY <1>2, <1>6, <2>1, <3>1
  <2> QED
    BY <1>7, <2>1
<1> DEFINE N == Len(s)
           z == Len(c)
<1>9. PICK a \in 0 .. N - 1 : \E b \in a + 1 .. N :
         1 = p[a] + 1 /\ z = p[b] /\ e = SubSeq(s, a + 1, b)
  BY <1>8
<1>10. PICK b \in a + 1 .. N :
        1 = p[a] + 1 /\ z = p[b] /\ e = SubSeq(s, a + 1, b)
  BY <1>9
<1>11. a \in 0 .. N /\ b \in 0 .. N /\ a \in Nat /\ b \in Nat /\ N \in Nat
  BY <1>3
<1>12. p[a] \in Nat /\ p[b] \in Nat
  BY <1>1, <1>11 DEF Places
<1>13. 0 \in 0 .. N /\ N \in 0 .. N /\ b <= N /\ p[0] = 0 /\ p[N] = z
  BY <1>3, <1>11
<1> DEFINE u == p[a]
           w == p[b]
<1>14. u + 1 = 1 /\ w = z /\ u \in Nat /\ w \in Nat /\ 0 + (a - 0) <= u
       /\ w + (N - b) <= z
  <2>1. u + 1 = 1 /\ w = z /\ u \in Nat /\ w \in Nat
    BY <1>10, <1>12
  <2>2. 0 <= a
    BY <1>11
  <2>3. p[0] + (a - 0) <= p[a] /\ p[b] + (N - b) <= p[N]
    BY <1>4, <1>11, <1>13, <2>2
  <2> QED
    BY <1>13, <2>1, <2>3
<1>15. e = SubSeq(s, a + 1, b)
  BY <1>10
<1> HIDE DEF N, z, u, w
<1>16. a = 0 /\ b = N
  BY <1>11, <1>13, <1>14
<1>17. e = SubSeq(s, 1, N)
  BY <1>15, <1>16
<1> QED
  BY <1>17, SubSeqFull DEF N

\* The loop of tokenizer_load over the tokens.
LEMMA EnteredLoop ==
  ASSUME NEW vocab, Len(vocab) \in Nat
  PROVE  \E r : /\ r \in [0 .. Len(vocab) -> [0 .. HtSize - 1 -> Int]]
                /\ r[0] = [h \in 0 .. HtSize - 1 |-> Empty]
                /\ \A m \in 1 .. Len(vocab) : r[m] = Enter(r[m - 1], vocab, m - 1)
                /\ Entered(vocab) = r[Len(vocab)]
<1> DEFINE n == Len(vocab)
           V == [0 .. HtSize - 1 -> Int]
           v == [h \in 0 .. HtSize - 1 |-> Empty]
           T(x, m) == Enter(x, vocab, m - 1)
           S == [m \in 0 + 1 .. n |-> [x \in V |-> T(x, m)]]
           Def(f) == f = [m \in 0 .. n |-> IF m = 0 THEN v ELSE T(f[m - 1], m)]
           r == CHOOSE f : Def(f)
<1>1. n \in Nat /\ v \in V
  BY DEF Empty
<1>2. ASSUME NEW m \in 1 .. n, NEW x \in V PROVE T(x, m) \in V
  <2>1. m - 1 \in Int
    BY <1>1
  <2> QED
    BY <2>1 DEF Enter
<1>3. 0 \in Int /\ n \in Int /\ 0 <= n /\ 0 + 1 .. n = 1 .. n
  BY <1>1
<1>4. Entered(vocab) = r[Len(vocab)]
  BY DEF Entered
<1> HIDE DEF n, V, v, T
<1>5. S \in [0 + 1 .. n -> [V -> V]]
  BY <1>2, <1>3
<1>6. \A m \in 0 .. n : m = 0 \/ (m \in 1 .. n /\ m - 1 \in 0 .. n)
  BY <1>1
<1>7. \E f : Def(f)
  <2>1. PICK f : LoopIs(f, V, v, 0, n, S)
    <3> HIDE DEF S
    <3> QED
      BY <1>1, <1>3, <1>5, LoopExists
  <2>2. /\ f \in [0 .. n -> V] /\ f[0] = v
        /\ \A m \in 1 .. n : f[m] = S[m][f[m - 1]]
    <3> HIDE DEF S
    <3> QED
      BY <1>3, <2>1 DEF LoopIs
  <2>3. \A m \in 1 .. n : S[m][f[m - 1]] = T(f[m - 1], m)
    BY <1>3, <1>6, <2>2
  <2> HIDE DEF S
  <2>4. \A m \in 0 .. n : f[m] = IF m = 0 THEN v ELSE T(f[m - 1], m)
    BY <1>6, <2>2, <2>3
  <2> QED
    BY <2>2, <2>4
<1>8. Def(r)
  <2> HIDE DEF Def
  <2> QED
    BY <1>7
<1> HIDE DEF r
<1>9. r[0] = v /\ \A m \in 1 .. n : r[m] = T(r[m - 1], m)
  <2>1. 0 \in 0 .. n /\ \A m \in 1 .. n : m \in 0 .. n /\ m # 0
    BY <1>1
  <2> QED
    BY <1>8, <2>1
<1>10. r \in [0 .. n -> V]
  <2> DEFINE P == {m \in 0 .. n : r[m] \in V}
  <2>1. 0 \in P /\ \A m \in 0 + 1 .. n : m - 1 \in P => m \in P
    BY <1>1, <1>2, <1>3, <1>6, <1>9
  <2>2. 0 .. n \subseteq P
    <3> HIDE DEF P
    <3> QED
      BY <1>3, <2>1, IntervalInduction
  <2> QED
    BY <1>8, <2>2
<1> QED
  BY <1>4, <1>9, <1>10 DEF n, V, v, T

-----------------------------------------------------------------------------
(* The table of tokens.                                                    *)

\* A hash numbers a slot.
LEMMA HashTyped ==
  ASSUME NEW s \in Seq(Bytes)
  PROVE  Fnv1a(s) \in 0 .. HtSize - 1
<1>1. PICK r : /\ r \in [0 .. Len(s) -> 0 .. HtSize - 1]
               /\ Fnv1a(s) = r[Len(s)]
  BY FnvLoop
<1>2. Len(s) \in 0 .. Len(s)
  BY LenProperties
<1> QED
  BY <1>1, <1>2

\* The probes of a hash reach every slot.
LEMMA ProbesReach ==
  ASSUME NEW h \in 0 .. HtSize - 1
  PROVE  /\ \A k \in 0 .. HtSize - 1 : (h + k) % HtSize \in 0 .. HtSize - 1
         /\ \A x \in 0 .. HtSize - 1 :
              \E k \in 0 .. HtSize - 1 : (h + k) % HtSize = x
<1>1. HtSize \in Nat \ {0}
  BY TableAssumption
<1>2. ASSUME NEW k \in 0 .. HtSize - 1
      PROVE  (h + k) % HtSize \in 0 .. HtSize - 1
  <2>1. h + k \in Nat
    BY <1>1
  <2> QED
    BY <1>1, <2>1, Division
<1>3. ASSUME NEW x \in 0 .. HtSize - 1
      PROVE  \E k \in 0 .. HtSize - 1 : (h + k) % HtSize = x
  <2>1. CASE x >= h
    <3>1. x - h \in 0 .. HtSize - 1 /\ h + (x - h) = 0 * HtSize + x
      BY <1>1, <2>1
    <3>2. (0 * HtSize + x) % HtSize = x
      BY <1>1, Digits
    <3> QED
      BY <3>1, <3>2
  <2>2. CASE x < h
    <3>1. x - h + HtSize \in 0 .. HtSize - 1
          /\ h + (x - h + HtSize) = 1 * HtSize + x
      BY <1>1, <2>2
    <3>2. (1 * HtSize + x) % HtSize = x
      BY <1>1, Digits
    <3> QED
      BY <3>1, <3>2
  <2> QED
    BY <1>1, <2>1, <2>2
<1> QED
  BY <1>2, <1>3

Slots == 0 .. HtSize - 1

Probe(vocab, id, k) == (Fnv1a(vocab[id + 1]) + k) % HtSize

\* The first m tokens are in the table: each of them in one slot, and between
\* its hash and its slot are only tokens before it.
Tabled(ht, vocab, m) ==
  /\ ht \in [Slots -> -1 .. m - 1]
  /\ \A x, y \in Slots : ht[x] = ht[y] /\ ht[x] # Empty => x = y
  /\ \A id \in 0 .. m - 1 : \E k \in Slots :
       /\ ht[Probe(vocab, id, k)] = id
       /\ \A l \in 0 .. k - 1 : ht[Probe(vocab, id, l)] \in 0 .. id - 1

\* A table that is not full has a free slot.
LEMMA SlotFree ==
  ASSUME NEW m \in Nat, m < HtSize, NEW ht \in [Slots -> -1 .. m - 1],
         \A x, y \in Slots : ht[x] = ht[y] /\ ht[x] # Empty => x = y
  PROVE  \E x \in Slots : ht[x] = Empty
<1> SUFFICES ASSUME \A x \in Slots : ht[x] # Empty PROVE FALSE
  OBVIOUS
<1>1. HtSize \in Nat \ {0}
  BY TableAssumption
<1>2. ht \in [Slots -> 0 .. m - 1]
  BY DEF Empty
<1>3. IsFiniteSet(Slots) /\ Cardinality(Slots) = HtSize
  <2>1. Cardinality(0 .. HtSize - 1) =
          IF 0 > HtSize - 1 THEN 0 ELSE (HtSize - 1) - 0 + 1
    BY <1>1, FS_Interval
  <2>2. IsFiniteSet(0 .. HtSize - 1)
    BY <1>1, FS_Interval
  <2> QED
    BY <1>1, <2>1, <2>2 DEF Slots
<1>4. IsFiniteSet(0 .. m - 1) /\ Cardinality(0 .. m - 1) = m
  <2>1. Cardinality(0 .. m - 1) = IF 0 > m - 1 THEN 0 ELSE (m - 1) - 0 + 1
    BY FS_Interval
  <2>2. IsFiniteSet(0 .. m - 1)
    BY FS_Interval
  <2> QED
    BY <2>1, <2>2
<1>5. PICK x, y \in Slots : x # y /\ ht[x] = ht[y]
  BY <1>2, <1>3, <1>4, FS_PigeonHole
<1> QED
  BY <1>5

\* The least number with a property.
LEMMA LeastIs ==
  ASSUME NEW T \in SUBSET Nat, T # {}
  PROVE  \E k \in T : \A l \in 0 .. k - 1 : l \notin T
<1>1. PICK k \in T : \A y \in T : k <= y
  BY LeastNumber
<1>2. \A l \in 0 .. k - 1 : ~(k <= l)
  OBVIOUS
<1> QED
  BY <1>1, <1>2

\* Entering the next token keeps the table in order.
LEMMA TokenEntered ==
  ASSUME NEW vocab \in Seq(Seq(Bytes)), NEW m \in 0 .. Len(vocab) - 1,
         m < HtSize, NEW ht, Tabled(ht, vocab, m)
  PROVE  Tabled(Enter(ht, vocab, m), vocab, m + 1)
<1> DEFINE h == Fnv1a(vocab[m + 1])
           T == {k \in Slots : ht[(h + k) % HtSize] = Empty}
           Least(k) == /\ ht[(h + k) % HtSize] = Empty
                       /\ \A l \in 0 .. k - 1 : ht[(h + l) % HtSize] # Empty
           k == CHOOSE i \in 0 .. HtSize - 1 : Least(i)
           x == (h + k) % HtSize
           hu == Enter(ht, vocab, m)
<1>1. /\ HtSize \in Nat \ {0} /\ m \in Nat /\ Len(vocab) \in Nat
      /\ m + 1 \in 1 .. Len(vocab)
  BY TableAssumption, LenProperties
<1>2. \A i \in 1 .. Len(vocab) : Fnv1a(vocab[i]) \in Slots
  BY ElementOfSeq, HashTyped DEF Slots
<1>3. /\ ht \in [Slots -> -1 .. m - 1]
      /\ \A y, z \in Slots : ht[y] = ht[z] /\ ht[y] # Empty => y = z
  BY DEF Tabled
<1>4. h \in Slots
  BY <1>1, <1>2
<1>5. /\ \A i \in Slots : (h + i) % HtSize \in Slots
      /\ \A y \in Slots : \E i \in Slots : (h + i) % HtSize = y
  <2> HIDE DEF h
  <2> QED
    BY <1>4, ProbesReach DEF Slots
<1>6. T # {} /\ T \in SUBSET Nat
  <2>1. PICK y \in Slots : ht[y] = Empty
    BY <1>1, <1>3, SlotFree
  <2>2. PICK i \in Slots : (h + i) % HtSize = y
    BY <1>5
  <2>3. i \in T
    BY <2>1, <2>2
  <2>4. T \in SUBSET Nat
    BY <1>1 DEF Slots
  <2> QED
    BY <2>3, <2>4
<1>7. k \in Slots /\ Least(k)
  <2>1. PICK i \in T : \A l \in 0 .. i - 1 : l \notin T
    <3> HIDE DEF T
    <3> QED
      BY <1>6, LeastIs
  <2>2. i \in 0 .. HtSize - 1
    BY DEF Slots
  <2>3. \A l \in 0 .. i - 1 : l \in Slots
    BY <1>1, <2>2 DEF Slots
  <2>4. Least(i)
    BY <2>1, <2>3
  <2> HIDE DEF Least
  <2> QED
    BY <2>2, <2>4 DEF Slots
<1>8. hu = [ht EXCEPT ![x] = m]
  BY DEF Enter, FreeSlot, Token
<1> HIDE DEF k
<1>9. x \in Slots /\ ht[x] = Empty
  BY <1>5, <1>7
<1>10. \A l \in 0 .. k - 1 : (h + l) % HtSize \in Slots
                              /\ ht[(h + l) % HtSize] # Empty
  <2>1. \A l \in 0 .. k - 1 : l \in Slots
    BY <1>1, <1>7 DEF Slots
  <2> QED
    BY <1>5, <1>7, <2>1
<1> HIDE DEF x, hu
<1>11. /\ hu \in [Slots -> -1 .. m] /\ hu[x] = m
       /\ \A y \in Slots : y # x => hu[y] = ht[y]
  <2>1. \A v \in -1 .. m - 1 : v \in -1 .. m
    BY <1>1
  <2>2. m \in -1 .. m
    BY <1>1
  <2> QED
    BY <1>3, <1>8, <1>9, <2>1, <2>2
<1>12. \A y \in Slots : ht[y] # m
  <2>1. m \notin -1 .. m - 1
    BY <1>1
  <2> QED
    BY <1>3, <2>1
<1>13. \A y, z \in Slots : hu[y] = hu[z] /\ hu[y] # Empty => y = z
  BY <1>3, <1>11, <1>12
<1>14. ASSUME NEW id \in 0 .. m
       PROVE  \E i \in Slots :
                /\ hu[Probe(vocab, id, i)] = id
                /\ \A l \in 0 .. i - 1 : hu[Probe(vocab, id, l)] \in 0 .. id - 1
  <2>1. CASE id = m
    <3>1. \A i : Probe(vocab, id, i) = (h + i) % HtSize
      BY <2>1 DEF Probe
    <3>2. hu[Probe(vocab, id, k)] = id
      BY <1>11, <2>1, <3>1 DEF x
    <3>3. ASSUME NEW l \in 0 .. k - 1
          PROVE  hu[Probe(vocab, id, l)] \in 0 .. id - 1
      <4> DEFINE y == Probe(vocab, id, l)
      <4>1. y \in Slots /\ ht[y] # Empty
        BY <1>10, <3>1
      <4> HIDE DEF y
      <4>2. hu[y] = ht[y] /\ ht[y] \in -1 .. m - 1 /\ ht[y] # -1
        BY <1>3, <1>9, <1>11, <4>1 DEF Empty
      <4> DEFINE v == ht[y]
      <4>3. v \in -1 .. m - 1 /\ v # -1
        BY <4>2
      <4> HIDE DEF v
      <4>4. v \in 0 .. m - 1
        BY <1>1, <4>3
      <4> QED
        BY <2>1, <4>2, <4>4 DEF v, y
    <3> QED
      BY <1>7, <3>2, <3>3
  <2>2. CASE id # m
    <3>1. id \in 0 .. m - 1
      BY <1>1, <2>2
    <3>2. PICK i \in Slots :
            /\ ht[Probe(vocab, id, i)] = id
            /\ \A l \in 0 .. i - 1 : ht[Probe(vocab, id, l)] \in 0 .. id - 1
      BY <3>1 DEF Tabled
    <3>3. Fnv1a(vocab[id + 1]) \in Slots
      <4>1. id + 1 \in 1 .. Len(vocab)
        BY <1>1, <3>1
      <4> QED
        BY <1>2, <4>1
    <3>4. \A l \in Slots : Probe(vocab, id, l) \in Slots
      BY <3>3, ProbesReach DEF Slots, Probe
    <3>5. \A l \in 0 .. i - 1 : l \in Slots
      BY <1>1, <3>2 DEF Slots
    <3>6. \A y \in Slots : ht[y] \in 0 .. id => hu[y] = ht[y]
      <4>1. Empty \notin 0 .. id
        BY DEF Empty
      <4> QED
        BY <1>9, <1>11, <4>1
    <3>7. id \in 0 .. id /\ \A v \in 0 .. id - 1 : v \in 0 .. id
      BY <1>1
    <3>8. hu[Probe(vocab, id, i)] = id
      BY <3>2, <3>4, <3>6, <3>7
    <3>9. \A l \in 0 .. i - 1 : hu[Probe(vocab, id, l)] \in 0 .. id - 1
      BY <3>2, <3>4, <3>5, <3>6, <3>7
    <3> QED
      BY <3>8, <3>9
  <2> QED
    BY <2>1, <2>2
<1>15. (m + 1) - 1 = m
  BY <1>1
<1>16. Tabled(hu, vocab, m + 1)
  BY <1>11, <1>13, <1>14, <1>15 DEF Tabled
<1> QED
  BY <1>16 DEF hu

\* The table when all tokens are entered.
LEMMA AllEntered ==
  ASSUME NEW vocab \in Seq(Seq(Bytes)), Len(vocab) < HtSize
  PROVE  Tabled(Entered(vocab), vocab, Len(vocab))
<1> DEFINE n == Len(vocab)
<1>1. n \in Nat /\ HtSize \in Nat /\ n < HtSize
  BY LenProperties, TableAssumption
<1>2. PICK r : /\ r[0] = [h \in 0 .. HtSize - 1 |-> Empty]
               /\ \A m \in 1 .. n : r[m] = Enter(r[m - 1], vocab, m - 1)
               /\ Entered(vocab) = r[n]
  BY <1>1, EnteredLoop
<1> DEFINE P == {m \in 0 .. n : Tabled(r[m], vocab, m)}
<1>3. 0 \in P
  <2> DEFINE ht == [h \in 0 .. HtSize - 1 |-> Empty]
  <2>1. \A x \in Slots : ht[x] = Empty
    BY DEF Slots
  <2>2. ht \in [Slots -> -1 .. 0 - 1] /\ 0 .. 0 - 1 = {}
    BY DEF Slots, Empty
  <2> HIDE DEF ht
  <2>3. Tabled(ht, vocab, 0)
    BY <2>1, <2>2 DEF Tabled
  <2> QED
    BY <1>1, <1>2, <2>3 DEF ht
<1>4. ASSUME NEW m \in 0 + 1 .. n, m - 1 \in P PROVE m \in P
  <2>1. m \in 1 .. n /\ m - 1 \in 0 .. n - 1 /\ m - 1 < HtSize /\ (m - 1) + 1 = m
        /\ m \in 0 .. n
    BY <1>1
  <2>2. Tabled(r[m - 1], vocab, m - 1)
    BY <1>4
  <2>3. Tabled(Enter(r[m - 1], vocab, m - 1), vocab, (m - 1) + 1)
    BY <2>1, <2>2, TokenEntered
  <2> QED
    BY <1>2, <2>1, <2>3
<1>5. 0 \in Int /\ n \in Int /\ n \in 0 .. n
  BY <1>1
<1>6. 0 .. n \subseteq P
  <2> HIDE DEF P, n
  <2> QED
    BY <1>3, <1>4, <1>5, IntervalInduction
<1> QED
  BY <1>2, <1>5, <1>6

\* What a look-up finds, wherever collisions have put it.
LEMMA LookupFinds ==
  ASSUME NEW vocab \in Seq(Seq(Bytes)), Len(vocab) < HtSize, NEW s \in Seq(Bytes)
  PROVE  /\ (\A k \in 1 .. Len(vocab) : vocab[k] # s) =>
              Lookup(Load(vocab), s) = Empty
         /\ \A k \in 1 .. Len(vocab) :
              vocab[k] = s /\ (\A j \in 1 .. k - 1 : vocab[j] # s) =>
                Lookup(Load(vocab), s) = k - 1
<1> DEFINE n == Len(vocab)
           ht == Entered(vocab)
           h == Fnv1a(s)
           Found(k) == ht[(h + k) % HtSize]
           Stops(k) == Found(k) = Empty \/ vocab[Found(k) + 1] = s
           First(k) == Stops(k) /\ \A l \in 0 .. k - 1 : ~Stops(l)
           c == CHOOSE k \in 0 .. HtSize - 1 : First(k)
<1>1. n \in Nat /\ HtSize \in Nat \ {0} /\ n < HtSize
  BY LenProperties, TableAssumption
<1>2. /\ ht \in [Slots -> -1 .. n - 1]
      /\ \A x, y \in Slots : ht[x] = ht[y] /\ ht[x] # Empty => x = y
      /\ \A id \in 0 .. n - 1 : \E k \in Slots :
           /\ ht[Probe(vocab, id, k)] = id
           /\ \A l \in 0 .. k - 1 : ht[Probe(vocab, id, l)] \in 0 .. id - 1
  BY AllEntered DEF Tabled
<1>3. Lookup(Load(vocab), s) = Found(c)
  BY DEF Lookup, Load, Token
<1>4. h \in Slots
  BY HashTyped DEF Slots
<1> HIDE DEF n, ht, h
<1>5. /\ \A k \in Slots : (h + k) % HtSize \in Slots
      /\ \A x \in Slots : \E k \in Slots : (h + k) % HtSize = x
  BY <1>4, ProbesReach DEF Slots
<1>6. \E k \in Slots : First(k)
  <2>1. PICK x \in Slots : ht[x] = Empty
    BY <1>1, <1>2, SlotFree
  <2>2. PICK i \in Slots : (h + i) % HtSize = x
    BY <1>5
  <2> DEFINE T == {k \in Slots : Stops(k)}
  <2>3. T # {} /\ T \in SUBSET Nat
    BY <1>1, <2>1, <2>2 DEF Slots
  <2>4. PICK k \in T : \A l \in 0 .. k - 1 : l \notin T
    <3> HIDE DEF T
    <3> QED
      BY <2>3, LeastIs
  <2>5. \A l \in 0 .. k - 1 : l \in Slots
    BY <1>1, <2>4 DEF Slots
  <2> HIDE DEF Stops
  <2> QED
    BY <2>4, <2>5
<1> HIDE DEF First
<1>7. c \in Slots /\ First(c)
  BY <1>6 DEF Slots
<1> HIDE DEF c
<1>8. Found(c) \in -1 .. n - 1
  BY <1>2, <1>5, <1>7
<1>9. ASSUME \A k \in 1 .. n : vocab[k] # s PROVE Found(c) = Empty
  <2>1. Found(c) = Empty \/ vocab[Found(c) + 1] = s
    BY <1>7 DEF First
  <2> DEFINE f == Found(c)
  <2>2. f \in -1 .. n - 1
    BY <1>8
  <2> HIDE DEF f
  <2>3. f = -1 \/ f + 1 \in 1 .. n
    BY <1>1, <2>2
  <2> QED
    BY <1>9, <2>1, <2>3 DEF f, Empty
<1>10. ASSUME NEW k \in 1 .. n, vocab[k] = s, \A j \in 1 .. k - 1 : vocab[j] # s
       PROVE  Found(c) = k - 1
  <2>1. k - 1 \in 0 .. n - 1 /\ (k - 1) + 1 = k /\ k \in Int
    BY <1>1
  <2>2. PICK i \in Slots :
          /\ ht[Probe(vocab, k - 1, i)] = k - 1
          /\ \A l \in 0 .. i - 1 : ht[Probe(vocab, k - 1, l)] \in 0 .. (k - 1) - 1
    BY <1>2, <2>1
  <2>3. \A l : Probe(vocab, k - 1, l) = (h + l) % HtSize
    BY <1>10, <2>1 DEF Probe, h
  <2>4. Found(i) = k - 1
    BY <2>2, <2>3
  <2>5. Stops(i)
    BY <1>10, <2>1, <2>4
  <2>6. ASSUME NEW l \in 0 .. i - 1 PROVE ~Stops(l)
    <3> DEFINE f == Found(l)
    <3>1. f \in 0 .. (k - 1) - 1
      BY <2>2, <2>3
    <3> HIDE DEF f
    <3>2. f + 1 \in 1 .. k - 1 /\ f # -1
      BY <2>1, <3>1
    <3> QED
      BY <1>10, <3>2 DEF f, Empty
  <2>7. c \in Nat /\ i \in Nat
    BY <1>1, <1>7, <2>2 DEF Slots
  <2>8. ~(i < c)
    <3>1. i < c => i \in 0 .. c - 1
      BY <2>7
    <3> HIDE DEF Stops
    <3> QED
      BY <1>7, <2>5, <3>1 DEF First
  <2>9. ~(c < i)
    <3>1. c < i => c \in 0 .. i - 1
      BY <2>7
    <3> HIDE DEF Stops
    <3> QED
      BY <1>7, <2>6, <3>1 DEF First
  <2>10. c = i
    BY <2>7, <2>8, <2>9
  <2> QED
    BY <2>4, <2>10
<1> QED
  BY <1>3, <1>9, <1>10 DEF n

-----------------------------------------------------------------------------
(* What is loaded from a file.                                             *)

\* A coded text is a string of bytes.
LEMMA CodedTyped ==
  ASSUME NEW sp \in BOOLEAN, NEW s \in Seq(Bytes)
  PROVE  Coded(sp, s) \in Seq(Bytes)
  BY CodedPlaces DEF Places

\* The strings of a file, in its order.
LEMMA StringsAre ==
  ASSUME NEW name \in DOMAIN Files
  PROVE  LET e  == Files[name].entries
             sp == Files[name].spelled
         IN  /\ e \in Seq(Seq(Bytes)) /\ sp \in BOOLEAN
             /\ Strings(name) \in Seq(Seq(Bytes))
             /\ Len(Strings(name)) = Len(e) /\ Len(e) < HtSize /\ Len(e) \in Nat
             /\ DOMAIN e = 1 .. Len(e) /\ Len(e) >= 221 /\ e[221] = <<Space>>
             /\ \A k \in 1 .. Len(e) :
                  e[k] \in Seq(Bytes) /\ Strings(name)[k] = Coded(sp, e[k])
             /\ \A s : Spelled(name, s) = Coded(sp, s)
             /\ Tokenizers[name] = Load(Strings(name))
<1> DEFINE e == Files[name].entries
           sp == Files[name].spelled
           t == Strings(name)
           n == Len(e)
<1>1. e \in Seq(Seq(Bytes)) /\ n \in 221 .. HtSize - 1 /\ sp \in BOOLEAN
      /\ e[221] = <<Space>>
  BY FilesAssumption
<1>2. DOMAIN e = 1 .. n /\ n \in Nat
  BY <1>1, LenProperties
<1>3. \A s : Spelled(name, s) = Coded(sp, s)
  BY DEF Spelled, Coded
<1>4. t = [k \in 1 .. n |-> Coded(sp, e[k])]
  BY <1>2, <1>3 DEF Strings
<1>5. ASSUME NEW k \in 1 .. n PROVE e[k] \in Seq(Bytes) /\ Coded(sp, e[k]) \in Seq(Bytes)
  <2>1. e[k] \in Seq(Bytes)
    BY <1>1, ElementOfSeq
  <2> QED
    BY <1>1, <2>1, CodedTyped
<1>6. Tokenizers[name] = Load(t)
  BY DEF Tokenizers
<1>7. HtSize \in Nat /\ n >= 221 /\ n < HtSize
  BY <1>1, <1>2, TableAssumption
<1> HIDE DEF t, n, e, sp
<1>8. t \in [1 .. n -> Seq(Bytes)]
  BY <1>4, <1>5
<1>9. t \in Seq(Seq(Bytes)) /\ Len(t) = n
  BY <1>2, <1>8, IsASeq, LenProperties
<1> QED
  BY <1>1, <1>2, <1>3, <1>4, <1>5, <1>6, <1>7, <1>9 DEF t, n, e, sp

\* Looking a string up, spelled as the file spells it, finds the first token
\* that is this string.
LEMMA LookupKnown ==
  ASSUME NEW name \in DOMAIN Files, NEW s \in Seq(Bytes), s # <<>>
  PROVE  LET e     == Files[name].entries
             Known == {k \in DOMAIN e : e[k] = s}
             id    == Lookup(Tokenizers[name], Spelled(name, s))
         IN  /\ id = IF Known = {} THEN Empty ELSE Min(Known) - 1
             /\ id \in -1 .. Len(e) - 1
             /\ id # Empty => e[id + 1] = s
             /\ id = Empty => \A k \in 1 .. Len(e) : e[k] # s
<1> DEFINE e     == Files[name].entries
           sp    == Files[name].spelled
           n     == Len(e)
           t     == Strings(name)
           Known == {k \in DOMAIN e : e[k] = s}
           id    == Lookup(Tokenizers[name], Spelled(name, s))
<1>1. /\ sp \in BOOLEAN /\ t \in Seq(Seq(Bytes)) /\ Len(t) = n /\ n < HtSize
      /\ n \in Nat /\ DOMAIN e = 1 .. n
      /\ \A k \in 1 .. n : e[k] \in Seq(Bytes) /\ t[k] = Coded(sp, e[k])
      /\ id = Lookup(Load(t), Coded(sp, s))
  BY StringsAre
<1> HIDE DEF t, sp, id, n
<1>2. \A k \in 1 .. n : t[k] = Coded(sp, s) <=> e[k] = s
  <2>1. ASSUME NEW k \in 1 .. n, t[k] = Coded(sp, s) PROVE e[k] = s
    BY <1>1, <2>1, CodedApart
  <2> QED
    BY <1>1, <2>1
<1>3. Coded(sp, s) \in Seq(Bytes)
  BY <1>1, CodedTyped
<1>4. /\ (\A k \in 1 .. n : t[k] # Coded(sp, s)) => id = Empty
      /\ \A k \in 1 .. n :
           t[k] = Coded(sp, s) /\ (\A j \in 1 .. k - 1 : t[j] # Coded(sp, s)) =>
             id = k - 1
  BY <1>1, <1>3, LookupFinds
<1>5. /\ (\A k \in 1 .. n : e[k] # s) => id = Empty
      /\ \A k \in 1 .. n :
           e[k] = s /\ (\A j \in 1 .. k - 1 : e[j] # s) => id = k - 1
  <2>1. ASSUME NEW k \in 1 .. n, e[k] = s, \A j \in 1 .. k - 1 : e[j] # s
        PROVE  id = k - 1
    <3>1. \A j \in 1 .. k - 1 : j \in 1 .. n
      BY <1>1
    <3>2. t[k] = Coded(sp, s) /\ \A j \in 1 .. k - 1 : t[j] # Coded(sp, s)
      BY <1>2, <2>1, <3>1
    <3> QED
      BY <1>4, <3>2
  <2> QED
    BY <1>2, <1>4, <2>1
<1>6. CASE Known = {}
  <2>1. \A k \in 1 .. n : e[k] # s
    BY <1>1, <1>6
  <2>2. id = Empty
    BY <1>5, <2>1
  <2> QED
    BY <1>1, <1>6, <2>1, <2>2 DEF Empty, id, n
<1>7. CASE Known # {}
  <2>1. PICK k \in Known : \A y \in Known : k <= y
    <3>1. Known \in SUBSET Nat
      BY <1>1
    <3> HIDE DEF Known
    <3> QED
      BY <1>7, <3>1, LeastNumber
  <2>2. Known \in SUBSET Nat
    BY <1>1
  <2>3. Min(Known) = k
    <3>1. \A x, y \in Known : x <= y /\ y <= x => x = y
      BY <2>2
    <3> HIDE DEF Known
    <3> QED
      BY <2>1, <3>1 DEF Min
  <2>4. k \in 1 .. n /\ e[k] = s
    BY <1>1
  <2>5. \A j \in 1 .. k - 1 : e[j] # s
    <3>1. \A j \in 1 .. k - 1 : j \in 1 .. n /\ ~(k <= j)
      BY <1>1, <2>4
    <3> QED
      BY <1>1, <2>1, <3>1
  <2>6. id = k - 1
    BY <1>5, <2>4, <2>5
  <2>7. id \in -1 .. n - 1 /\ id # -1 /\ id + 1 = k
    BY <1>1, <2>4, <2>6
  <2> HIDE DEF Known
  <2>8. id = IF Known = {} THEN Empty ELSE Min(Known) - 1
    BY <1>7, <2>3, <2>6
  <2>9. id \in -1 .. n - 1 /\ (id # Empty => e[id + 1] = s) /\ id # Empty
    BY <2>4, <2>7 DEF Empty
  <2> QED
    BY <2>8, <2>9 DEF id, n, Known
<1> QED
  BY <1>6, <1>7

-----------------------------------------------------------------------------
(* The texts that are typed.                                               *)

TextTyped ==
  /\ text \in Seq(Bytes \ {0})
  /\ vocabFile \in DOMAIN Files

\* Only bytes other than zero are typed.
LEMMA TextStays == TextSpec => []TextTyped
<1>1. TextInit => TextTyped
  BY EmptySeq DEF TextInit, TextTyped
<1>2. TextTyped /\ [TextNext]_textVars => TextTyped'
  <2> SUFFICES ASSUME TextTyped, [TextNext]_textVars PROVE TextTyped'
    OBVIOUS
  <2>1. CASE TypeByte
    <3>1. PICK b \in IF text = <<>> THEN Bytes \ {0} ELSE TextBytes :
            text' = Append(text, b)
      BY <2>1 DEF TypeByte
    <3>2. b \in Bytes \ {0} /\ vocabFile' = vocabFile
      BY <2>1, <3>1, TextAssumption DEF TypeByte
    <3> QED
      BY <3>1, <3>2, AppendProperties DEF TextTyped
  <2>2. CASE NextText
    BY <2>2, EmptySeq DEF NextText, TextTyped
  <2>3. CASE UNCHANGED textVars
    BY <2>3 DEF textVars, TextTyped
  <2> QED
    BY <2>1, <2>2, <2>3 DEF TextNext
<1> QED
  BY <1>1, <1>2, PTL DEF TextSpec

\* Looking a string up finds the first token of the file that is this string,
\* and nothing when there is none, wherever collisions and the end of the
\* table have put it (tokenizer_load and tokenizer_lookup).
THEOREM LookupFindsFirst == TextSpec => []LookupIsFirst
<1>1. TextTyped => LookupIsFirst
  <2> SUFFICES ASSUME TextTyped, NEW i \in 1 .. Len(text), NEW j \in 1 .. Len(text),
                      SubSeq(text, i, j) # <<>>
               PROVE  LET part  == SubSeq(text, i, j)
                          Known == {k \in DOMAIN Files[vocabFile].entries :
                                      Files[vocabFile].entries[k] = part}
                      IN  Lookup(Tokenizers[vocabFile], Spelled(vocabFile, part)) =
                            IF Known = {} THEN Empty ELSE Min(Known) - 1
    BY DEF LookupIsFirst
  <2>1. \A k \in i .. j : text[k] \in Bytes
    <3>1. ASSUME NEW k \in i .. j PROVE text[k] \in Bytes
      <4>1. k \in 1 .. Len(text)
        BY LenProperties DEF TextTyped
      <4>2. text[k] \in Bytes \ {0}
        BY <4>1, ElementOfSeq DEF TextTyped
      <4> QED
        BY <4>2
    <3> QED
      BY <3>1
  <2>2. SubSeq(text, i, j) \in Seq(Bytes)
    BY <2>1, SubSeqProperties
  <2> QED
    BY <2>2, LookupKnown DEF TextTyped
<1> QED
  BY <1>1, TextStays, PTL

-----------------------------------------------------------------------------
(* Words.                                                                  *)

\* Every byte is of one class.
LEMMA Classes ==
  /\ \A b \in Bytes : b \in White \/ b \in Alpha \/ b \in Digit \/ b \in Other
  /\ \A b \in White : b \notin Alpha /\ b \notin Digit /\ b \notin Other
  /\ \A b \in Alpha : b \notin Digit /\ b \notin Other
  /\ \A b \in Digit : b \notin Other
  /\ Space \in White
  BY DEF White, Alpha, Digit, Other, Space, Bytes

\* The end of a run, and that it is the last one possible.
LEMMA RunIs ==
  ASSUME NEW s, Len(s) \in Nat, NEW i \in 1 .. Len(s), NEW C, s[i] \in C
  PROVE  LET T == {n \in 1 .. Len(s) : n >= i /\ \A k \in i .. n : s[k] \in C}
         IN  /\ RunEnd(s, i, C) \in T
             /\ Max(T) = RunEnd(s, i, C)
<1> DEFINE L == Len(s)
           T == {n \in 1 .. L : n >= i /\ \A k \in i .. n : s[k] \in C}
           Ended(j) == /\ \A k \in i .. j : s[k] \in C
                       /\ j < L => s[j + 1] \notin C
           r == CHOOSE j \in i .. L : Ended(j)
<1>1. L \in Nat /\ i \in 1 .. L
  OBVIOUS
<1>2. RunEnd(s, i, C) = r
  BY DEF RunEnd
<1> HIDE DEF L
<1>3. i \in T /\ T \in SUBSET (1 .. L)
  <2>1. \A k \in i .. i : k = i
    BY <1>1
  <2> QED
    BY <1>1, <2>1
<1>4. PICK x \in T : \A y \in T : x >= y
  <2> HIDE DEF T
  <2>1. IsFiniteSet(T) /\ T \subseteq Nat
    <3>1. IsFiniteSet(1 .. L)
      BY <1>1, FS_Interval
    <3>2. IsFiniteSet(T)
      BY <1>3, <3>1, FS_Subset
    <3> QED
      BY <1>1, <1>3, <3>2
  <2> QED
    BY <1>3, <2>1, LargestNumber
<1>5. Ended(x)
  <2>1. ASSUME x < L, s[x + 1] \in C PROVE FALSE
    <3>1. x + 1 \in 1 .. L /\ x + 1 >= i /\ \A k \in i .. x + 1 : k = x + 1 \/ k \in i .. x
      BY <1>1, <1>4, <2>1
    <3>2. x + 1 \in T
      BY <1>4, <2>1, <3>1
    <3>3. x >= x + 1
      BY <1>4, <3>2
    <3> QED
      BY <1>1, <1>4, <3>3
  <2> QED
    BY <1>4, <2>1
<1>6. x \in i .. L
  BY <1>1, <1>4
<1>7. r \in i .. L /\ Ended(r)
  <2> HIDE DEF Ended
  <2> QED
    BY <1>5, <1>6
<1> HIDE DEF r
<1>8. r \in T
  BY <1>1, <1>7
<1>9. ASSUME NEW y \in T PROVE r >= y
  <2>1. ASSUME r < y PROVE FALSE
    <3>1. r + 1 \in i .. y /\ r < L
      BY <1>1, <1>7, <2>1
    <3> QED
      BY <1>7, <3>1
  <2> QED
    BY <1>1, <1>7, <2>1
<1>10. Max(T) = r
  <2>1. \A y, z \in T : y >= z /\ z >= y => y = z
    BY <1>1
  <2> HIDE DEF T
  <2> QED
    BY <1>8, <1>9, <2>1 DEF Max
<1> QED
  BY <1>2, <1>8, <1>10 DEF L

\* The lengths of the beginnings of s that are of a form.
Lengths(p, s) == {n \in 1 .. Len(s) : InPattern(p, SubSeq(s, 1, n))}

\* What the beginning of a string is.
LEMMA BeginningIs ==
  ASSUME NEW s \in Seq(Bytes), NEW n \in 1 .. Len(s)
  PROVE  /\ SubSeq(s, 1, n) \in Seq(Bytes) /\ Len(SubSeq(s, 1, n)) = n
         /\ \A k \in 1 .. n : SubSeq(s, 1, n)[k] = s[k]
<1>1. Len(s) \in Nat /\ n \in Int /\ 1 <= n + 1 /\ n <= Len(s) /\ n \in Nat
      /\ n - 1 + 1 = n /\ \A k \in 1 .. n : 1 + k - 1 = k
  BY LenProperties
<1> QED
  BY <1>1, SliceIs

\* A word of a class that is not white, with or without a space in front.
LEMMA WordLengths ==
  ASSUME NEW s \in Seq(Bytes), s # <<>>, NEW C, Space \notin C, NEW p,
         \A x : InPattern(p, x) <=> Words(C, x)
  PROVE  LET i == IF s[1] = Space THEN 2 ELSE 1
         IN  /\ Lengths(p, s) # {} => i <= Len(s) /\ s[i] \in C
             /\ i <= Len(s) /\ s[i] \in C =>
                  /\ RunEnd(s, i, C) \in Lengths(p, s)
                  /\ Max(Lengths(p, s)) = RunEnd(s, i, C)
<1> DEFINE i == IF s[1] = Space THEN 2 ELSE 1
           L == Len(s)
           T == {n \in 1 .. L : n >= i /\ \A k \in i .. n : s[k] \in C}
<1>1. L \in Nat /\ L >= 1
  BY EmptySeq, LenProperties
<1>2. ASSUME NEW n \in 1 .. L
      PROVE  InPattern(p, SubSeq(s, 1, n)) <=>
               n >= i /\ \A k \in i .. n : s[k] \in C
  <2> DEFINE x == SubSeq(s, 1, n)
  <2>1. Len(x) = n /\ n \in Nat /\ n >= 1 /\ \A k \in 1 .. n : x[k] = s[k]
    BY <1>1, BeginningIs
  <2> HIDE DEF x
  <2>2. x[1] = s[1]
    BY <2>1
  <2>3. Words(C, x) <=> \E lead \in {0, 1} :
          /\ lead = 1 => s[1] = Space
          /\ lead < n /\ \A k \in lead + 1 .. n : x[k] \in C
    BY <2>1, <2>2 DEF Words
  <2>4. ASSUME NEW lead \in {0, 1}, lead = 1 => s[1] = Space, lead < n,
               \A k \in lead + 1 .. n : x[k] \in C
        PROVE  n >= i /\ \A k \in i .. n : s[k] \in C
    <3>1. lead = 0 => s[1] \in C
      BY <2>1, <2>2, <2>4
    <3>2. lead + 1 = i
      BY <2>4, <3>1
    <3> QED
      BY <2>1, <2>4, <3>2
  <2>5. ASSUME n >= i, \A k \in i .. n : s[k] \in C
        PROVE  \E lead \in {0, 1} :
                 /\ lead = 1 => s[1] = Space
                 /\ lead < n /\ \A k \in lead + 1 .. n : x[k] \in C
    <3>1. /\ i - 1 \in {0, 1} /\ (i - 1 = 1 => s[1] = Space)
          /\ i - 1 < n /\ (i - 1) + 1 = i
          /\ \A k \in i .. n : x[k] \in C
      BY <2>1, <2>5
    <3> HIDE DEF i
    <3> QED
      BY <3>1
  <2>6. Words(C, x) <=> n >= i /\ \A k \in i .. n : s[k] \in C
    BY <2>3, <2>4, <2>5
  <2> QED
    BY <2>6 DEF x
<1>3. Lengths(p, s) = T
  BY <1>2 DEF Lengths
<1>4. i \in {1, 2}
  OBVIOUS
<1> HIDE DEF i, L
<1>5. ASSUME NEW n \in T PROVE i <= L /\ s[i] \in C
  BY <1>1, <1>4
<1>6. ASSUME i <= L, s[i] \in C
      PROVE  RunEnd(s, i, C) \in T /\ Max(T) = RunEnd(s, i, C)
  <2>1. i \in 1 .. L /\ L \in Nat
    BY <1>1, <1>4, <1>6
  <2> QED
    BY <1>6, <2>1, RunIs DEF L
<1> HIDE DEF T
<1>7. /\ T # {} => i <= L /\ s[i] \in C
      /\ i <= L /\ s[i] \in C => RunEnd(s, i, C) \in T /\ Max(T) = RunEnd(s, i, C)
  BY <1>5, <1>6
<1> QED
  BY <1>3, <1>7 DEF i, L

\* The lengths of white space at the head of a string.
LEMMA WhiteLengths ==
  ASSUME NEW s \in Seq(Bytes), s # <<>>
  PROVE  /\ Lengths("white", s) # {} => s[1] \in White
         /\ s[1] \in White =>
              /\ RunEnd(s, 1, White) \in Lengths("white", s)
              /\ Max(Lengths("white", s)) = RunEnd(s, 1, White)
<1> DEFINE L == Len(s)
           T == {n \in 1 .. L : n >= 1 /\ \A k \in 1 .. n : s[k] \in White}
<1>1. L \in Nat /\ L >= 1
  BY EmptySeq, LenProperties
<1>2. ASSUME NEW n \in 1 .. L
      PROVE  InPattern("white", SubSeq(s, 1, n)) <=>
               n >= 1 /\ \A k \in 1 .. n : s[k] \in White
  <2>1. /\ Len(SubSeq(s, 1, n)) = n /\ \A k \in 1 .. n : SubSeq(s, 1, n)[k] = s[k]
        /\ n >= 1
    BY <1>1, BeginningIs
  <2> QED
    BY <2>1 DEF InPattern
<1>3. Lengths("white", s) = T
  BY <1>2 DEF Lengths
<1> HIDE DEF L
<1>4. ASSUME NEW n \in T PROVE s[1] \in White
  BY <1>1
<1>5. ASSUME s[1] \in White
      PROVE  RunEnd(s, 1, White) \in T /\ Max(T) = RunEnd(s, 1, White)
  <2>1. 1 \in 1 .. L /\ L \in Nat
    BY <1>1
  <2> QED
    BY <1>5, <2>1, RunIs DEF L
<1> HIDE DEF T
<1> QED
  BY <1>3, <1>4, <1>5

\* When a string is a given one of one, two or three bytes.
LEMMA TupleIs ==
  ASSUME NEW s \in Seq(Bytes)
  PROVE  /\ \A a \in Bytes : s = <<a>> <=> Len(s) = 1 /\ s[1] = a
         /\ \A a, b \in Bytes : s = <<a, b>> <=> Len(s) = 2 /\ s[1] = a /\ s[2] = b
         /\ \A a, b, c \in Bytes :
              s = <<a, b, c>> <=> Len(s) = 3 /\ s[1] = a /\ s[2] = b /\ s[3] = c
<1>1. ASSUME NEW a \in Bytes, Len(s) = 1, s[1] = a PROVE s = <<a>>
  <2>1. <<a>> \in Seq(Bytes) /\ \A k \in 1 .. Len(s) : s[k] = <<a>>[k]
    BY <1>1
  <2> QED
    BY <1>1, <2>1, SeqEqual
<1>2. ASSUME NEW a \in Bytes, NEW b \in Bytes, Len(s) = 2, s[1] = a, s[2] = b
      PROVE  s = <<a, b>>
  <2>1. \A k \in 1 .. 2 : k = 1 \/ k = 2
    OBVIOUS
  <2>2. <<a, b>> \in Seq(Bytes) /\ \A k \in 1 .. Len(s) : s[k] = <<a, b>>[k]
    BY <1>2, <2>1
  <2> QED
    BY <1>2, <2>2, SeqEqual
<1>3. ASSUME NEW a \in Bytes, NEW b \in Bytes, NEW c \in Bytes,
             Len(s) = 3, s[1] = a, s[2] = b, s[3] = c
      PROVE  s = <<a, b, c>>
  <2>1. \A k \in 1 .. 3 : k = 1 \/ k = 2 \/ k = 3
    OBVIOUS
  <2>2. <<a, b, c>> \in Seq(Bytes) /\ \A k \in 1 .. Len(s) : s[k] = <<a, b, c>>[k]
    BY <1>3, <2>1
  <2> QED
    BY <1>3, <2>2, SeqEqual
<1> QED
  BY <1>1, <1>2, <1>3

\* The contraction at the head of a text, and the only length of one.
LEMMA Contractions ==
  ASSUME NEW s \in Seq(Bytes)
  PROVE  /\ Contraction(s) \in {0, 2, 3}
         /\ Contraction(s) <= Len(s)
         /\ Lengths("contraction", s) =
              IF Contraction(s) > 0 THEN {Contraction(s)} ELSE {}
<1> DEFINE L == Len(s)
           Short(a) == a \in {115, 116, 109, 100}
           Long(a, b) == \/ a = 114 /\ b = 101
                         \/ a = 118 /\ b = 101
                         \/ a = 108 /\ b = 108
           Two   == L >= 2 /\ s[1] = 39 /\ Short(s[2])
           Three == L >= 3 /\ s[1] = 39 /\ Long(s[2], s[3])
<1>1. L \in Nat
  BY LenProperties
<1>2. L >= 2 => (SubSeq(s, 2, 2) \in ShortEndings <=> Short(s[2]))
  <2>1. ASSUME L >= 2 PROVE SubSeq(s, 2, 2) \in ShortEndings <=> Short(s[2])
    <3> DEFINE t == SubSeq(s, 2, 2)
    <3>1. t \in Seq(Bytes) /\ Len(t) = 2 - 2 + 1
          /\ \A k \in 1 .. 2 - 2 + 1 : t[k] = s[2 + k - 1]
      BY <1>1, <2>1, SliceIs
    <3> HIDE DEF t
    <3>2. Len(t) = 1 /\ t[1] = s[2]
      BY <3>1
    <3>3. {115, 116, 109, 100} \subseteq Bytes
      BY DEF Bytes
    <3>4. t \in ShortEndings <=> Short(s[2])
      BY <3>1, <3>2, <3>3, TupleIs DEF ShortEndings
    <3> QED
      BY <3>4 DEF t
  <2> QED
    BY <2>1
<1>3. L >= 3 => (SubSeq(s, 2, 3) \in LongEndings <=> Long(s[2], s[3]))
  <2>1. ASSUME L >= 3 PROVE SubSeq(s, 2, 3) \in LongEndings <=> Long(s[2], s[3])
    <3> DEFINE t == SubSeq(s, 2, 3)
    <3>1. t \in Seq(Bytes) /\ Len(t) = 3 - 2 + 1
          /\ \A k \in 1 .. 3 - 2 + 1 : t[k] = s[2 + k - 1]
      BY <1>1, <2>1, SliceIs
    <3> HIDE DEF t
    <3>2. Len(t) = 2 /\ t[1] = s[2] /\ t[2] = s[3]
      BY <3>1
    <3>3. {114, 101, 118, 108} \subseteq Bytes
      BY DEF Bytes
    <3>4. t \in LongEndings <=> Long(s[2], s[3])
      BY <3>1, <3>2, <3>3, TupleIs DEF LongEndings
    <3> QED
      BY <3>4 DEF t
  <2> QED
    BY <2>1
<1>4. /\ Two => Contraction(s) = 2
      /\ Three /\ ~Two => Contraction(s) = 3
      /\ ~Two /\ ~Three => Contraction(s) = 0
  BY <1>2, <1>3 DEF Contraction, Apostrophe
<1>5. Two => ~Three
  OBVIOUS
<1>6. ASSUME NEW n \in 1 .. L
      PROVE  InPattern("contraction", SubSeq(s, 1, n)) <=>
               (n = 2 /\ Two) \/ (n = 3 /\ Three)
  <2> DEFINE x == SubSeq(s, 1, n)
  <2>1. x \in Seq(Bytes) /\ Len(x) = n /\ \A k \in 1 .. n : x[k] = s[k]
    BY BeginningIs
  <2>2. InPattern("contraction", x) <=>
          x \in {<<39>> \o e : e \in
                  {<<115>>, <<116>>, <<114, 101>>, <<118, 101>>,
                   <<109>>, <<108, 108>>, <<100>>}}
    BY DEF InPattern
  <2>3. {39, 115, 116, 109, 100, 114, 101, 118, 108} \subseteq Bytes
    BY DEF Bytes
  <2>4. \A a, b \in Bytes : /\ <<39>> \o <<a>> = <<39, a>>
                            /\ <<39>> \o <<a, b>> = <<39, a, b>>
    <3>1. ASSUME NEW a \in Bytes PROVE <<39>> \o <<a>> = <<39, a>>
      <4> DEFINE u == <<39>>
                 v == <<a>>
      <4>1. u \in Seq(Bytes) /\ v \in Seq(Bytes) /\ Len(u) = 1 /\ Len(v) = 1
            /\ u[1] = 39 /\ v[1] = a
        BY <2>3
      <4> HIDE DEF u, v
      <4> DEFINE w == u \o v
      <4>2. w \in Seq(Bytes) /\ Len(w) = 2 /\ w[1] = 39 /\ w[2] = a
        BY <4>1, ConcatProperties
      <4> HIDE DEF w
      <4>3. w = <<39, a>>
        BY <2>3, <4>2, TupleIs
      <4> QED
        BY <4>3 DEF u, v, w
    <3>2. ASSUME NEW a \in Bytes, NEW b \in Bytes
          PROVE  <<39>> \o <<a, b>> = <<39, a, b>>
      <4> DEFINE u == <<39>>
                 v == <<a, b>>
      <4>1. u \in Seq(Bytes) /\ v \in Seq(Bytes) /\ Len(u) = 1 /\ Len(v) = 2
            /\ u[1] = 39 /\ v[1] = a /\ v[2] = b
        BY <2>3
      <4> HIDE DEF u, v
      <4> DEFINE w == u \o v
      <4>2. w \in Seq(Bytes) /\ Len(w) = 3 /\ w[1] = 39 /\ w[2] = a /\ w[3] = b
        <5>1. /\ w \in Seq(Bytes) /\ Len(w) = Len(u) + Len(v)
              /\ \A k \in 1 .. Len(u) + Len(v) :
                   w[k] = IF k <= Len(u) THEN u[k] ELSE v[k - Len(u)]
          BY <4>1, ConcatProperties
        <5>2. \A k \in 1 .. 3 : w[k] = IF k <= 1 THEN u[k] ELSE v[k - 1]
          BY <4>1, <5>1
        <5>3. w[1] = u[1] /\ w[2] = v[1] /\ w[3] = v[2]
          <6>1. /\ 1 \in 1 .. 3 /\ 2 \in 1 .. 3 /\ 3 \in 1 .. 3 /\ 1 <= 1
                /\ ~(2 <= 1) /\ ~(3 <= 1) /\ 2 - 1 = 1 /\ 3 - 1 = 2
            OBVIOUS
          <6>2. /\ w[1] = IF 1 <= 1 THEN u[1] ELSE v[1 - 1]
                /\ w[2] = IF 2 <= 1 THEN u[2] ELSE v[2 - 1]
                /\ w[3] = IF 3 <= 1 THEN u[3] ELSE v[3 - 1]
            BY <5>2, <6>1
          <6> QED
            BY <6>1, <6>2
        <5> QED
          BY <4>1, <5>1, <5>3
      <4> HIDE DEF w
      <4>3. w = <<39, a, b>>
        BY <2>3, <4>2, TupleIs
      <4> QED
        BY <4>3 DEF u, v, w
    <3> QED
      BY <3>1, <3>2
  <2> HIDE DEF x
  <2>5. InPattern("contraction", x) <=>
          \/ \E a \in {115, 116, 109, 100} : x = <<39, a>>
          \/ x = <<39, 114, 101>> \/ x = <<39, 118, 101>> \/ x = <<39, 108, 108>>
    BY <2>2, <2>4, <2>3
  <2>6. \A a \in {115, 116, 109, 100} :
          x = <<39, a>> <=> n = 2 /\ x[1] = 39 /\ x[2] = a
    <3>1. ASSUME NEW a \in {115, 116, 109, 100}
          PROVE  x = <<39, a>> <=> n = 2 /\ x[1] = 39 /\ x[2] = a
      <4>1. a \in Bytes /\ 39 \in Bytes
        BY <2>3
      <4>2. \A b, d \in Bytes : x = <<b, d>> <=> Len(x) = 2 /\ x[1] = b /\ x[2] = d
        BY <2>1, TupleIs
      <4>3. x = <<39, a>> <=> Len(x) = 2 /\ x[1] = 39 /\ x[2] = a
        BY <4>1, <4>2
      <4> QED
        BY <2>1, <4>3
    <3> QED
      BY <3>1
  <2>7. /\ x = <<39, 114, 101>> <=> n = 3 /\ x[1] = 39 /\ x[2] = 114 /\ x[3] = 101
        /\ x = <<39, 118, 101>> <=> n = 3 /\ x[1] = 39 /\ x[2] = 118 /\ x[3] = 101
        /\ x = <<39, 108, 108>> <=> n = 3 /\ x[1] = 39 /\ x[2] = 108 /\ x[3] = 108
    <3>1. \A a, b \in Bytes :
            x = <<39, a, b>> <=> n = 3 /\ x[1] = 39 /\ x[2] = a /\ x[3] = b
      <4>1. \A a, b \in Bytes :
              x = <<39, a, b>> <=> Len(x) = 3 /\ x[1] = 39 /\ x[2] = a /\ x[3] = b
        <5>1. \A d, a, b \in Bytes :
                x = <<d, a, b>> <=> Len(x) = 3 /\ x[1] = d /\ x[2] = a /\ x[3] = b
          BY <2>1, TupleIs
        <5>2. 39 \in Bytes
          BY <2>3
        <5> QED
          BY <5>1, <5>2
      <4> QED
        BY <2>1, <4>1
    <3> QED
      BY <2>3, <3>1
  <2>8. InPattern("contraction", x) <=>
          \/ n = 2 /\ x[1] = 39 /\ Short(x[2])
          \/ n = 3 /\ x[1] = 39 /\ Long(x[2], x[3])
    BY <2>5, <2>6, <2>7
  <2>9. /\ n = 2 => x[1] = s[1] /\ x[2] = s[2] /\ L >= 2
        /\ n = 3 => x[1] = s[1] /\ x[2] = s[2] /\ x[3] = s[3] /\ L >= 3
    BY <1>1, <2>1
  <2> HIDE DEF L
  <2>10. InPattern("contraction", x) <=> (n = 2 /\ Two) \/ (n = 3 /\ Three)
    BY <2>8, <2>9
  <2> QED
    BY <2>10 DEF x
<1>7. Lengths("contraction", s) =
        {n \in 1 .. L : (n = 2 /\ Two) \/ (n = 3 /\ Three)}
  BY <1>6 DEF Lengths
<1>8. (Two => L >= 2) /\ (Three => L >= 3)
  OBVIOUS
<1> HIDE DEF Two, Three, L
<1>9. Contraction(s) \in {0, 2, 3} /\ Contraction(s) <= L
  BY <1>1, <1>4, <1>8
<1>10. {n \in 1 .. L : (n = 2 /\ Two) \/ (n = 3 /\ Three)} =
         IF Contraction(s) > 0 THEN {Contraction(s)} ELSE {}
  <2>1. CASE Two
    BY <1>1, <1>4, <1>5, <1>8, <2>1
  <2>2. CASE Three
    BY <1>1, <1>4, <1>5, <1>8, <2>2
  <2>3. CASE ~Two /\ ~Three
    BY <1>1, <1>4, <2>3
  <2> QED
    BY <2>1, <2>2, <2>3
<1> QED
  BY <1>7, <1>9, <1>10 DEF L

\* How a text is cut: the length of a word is that of the first form of the
\* pattern that fits, and the longest of that form.
LEMMA WordMatched ==
  ASSUME NEW s \in Seq(Bytes), s # <<>>
  PROVE  /\ MatchWord(s) \in 1 .. Len(s)
         /\ LET Live == {k \in DOMAIN Pattern : Lengths(Pattern[k], s) # {}}
            IN  /\ Live # {}
                /\ MatchWord(s) = Max(Lengths(Pattern[Min(Live)], s))
<1> DEFINE Live == {k \in DOMAIN Pattern : Lengths(Pattern[k], s) # {}}
           L == Len(s)
           c == Contraction(s)
           i == IF s[1] = Space THEN 2 ELSE 1
           W == MatchWord(s)
           Goal(k) == /\ k \in Live /\ \A l \in Live : k <= l
                      /\ W = Max(Lengths(Pattern[k], s))
<1>1. L \in Nat /\ L >= 1 /\ s[1] \in Bytes
  BY EmptySeq, LenProperties, ElementOfSeq
<1>2. /\ DOMAIN Pattern = 1 .. 5
      /\ Pattern[1] = "contraction" /\ Pattern[2] = "alpha" /\ Pattern[3] = "digit"
      /\ Pattern[4] = "other" /\ Pattern[5] = "white"
  BY DEF Pattern
<1>3. /\ \A x : InPattern("alpha", x) <=> Words(Alpha, x)
      /\ \A x : InPattern("digit", x) <=> Words(Digit, x)
      /\ \A x : InPattern("other", x) <=> Words(Other, x)
  BY DEF InPattern, Other
<1>4. Space \notin Alpha /\ Space \notin Digit /\ Space \notin Other
  BY Classes
<1>5. ASSUME NEW C, Space \notin C, NEW p, \A x : InPattern(p, x) <=> Words(C, x)
      PROVE  /\ Lengths(p, s) # {} => i <= L /\ s[i] \in C
             /\ i <= L /\ s[i] \in C =>
                  /\ RunEnd(s, i, C) \in Lengths(p, s)
                  /\ Max(Lengths(p, s)) = RunEnd(s, i, C)
  BY <1>5, WordLengths
<1>6. /\ c \in {0, 2, 3} /\ c <= L
      /\ Lengths("contraction", s) = IF c > 0 THEN {c} ELSE {}
  BY Contractions
<1>7. /\ Lengths("white", s) # {} => s[1] \in White
      /\ s[1] \in White => /\ RunEnd(s, 1, White) \in Lengths("white", s)
                           /\ Max(Lengths("white", s)) = RunEnd(s, 1, White)
  BY WhiteLengths
<1>8. i \in {1, 2} /\ (i = 1 <=> s[1] # Space)
  OBVIOUS
<1>9. \A p : Lengths(p, s) \in SUBSET (1 .. L)
  BY DEF Lengths
<1>10. /\ c > 0 => W = c
       /\ c = 0 /\ i <= L /\ s[i] \notin White =>
            W = RunEnd(s, i, CHOOSE C \in {Alpha, Digit, Other} : s[i] \in C)
       /\ c = 0 /\ ~(i <= L /\ s[i] \notin White) => W = RunEnd(s, 1, White)
  <2>1. c > 0 => W = c
    BY DEF MatchWord
  <2>2. c = 0 => ~(c > 0)
    OBVIOUS
  <2>3. W = CASE c > 0 -> c
              [] c = 0 /\ i <= L /\ s[i] \notin White ->
                   RunEnd(s, i, CHOOSE C \in {Alpha, Digit, Other} : s[i] \in C)
              [] OTHER -> RunEnd(s, 1, White)
    BY DEF MatchWord
  <2> HIDE DEF W, c, i, L
  <2> QED
    BY <2>1, <2>2, <2>3
<1> HIDE DEF L, c, i, W
<1>11. \A l \in Live : l \in 1 .. 5
  BY <1>2
<1>12. \E k \in 1 .. 5 : Goal(k) /\ W \in 1 .. L
  <2>1. CASE c > 0
    <3>1. Lengths(Pattern[1], s) = {c}
      BY <1>2, <1>6, <2>1
    <3>2. Lengths(Pattern[1], s) = {c} /\ 1 \in Live
      <4>1. 1 \in 1 .. 5 /\ {c} # {}
        OBVIOUS
      <4> QED
        BY <1>2, <3>1, <4>1
    <3>3. Max({c}) = c
      BY DEF Max
    <3>4. \A l \in Live : 1 <= l
      BY <1>11
    <3>5. W \in 1 .. L
      BY <1>1, <1>6, <1>10, <2>1
    <3>6. W = Max(Lengths(Pattern[1], s))
      BY <1>10, <2>1, <3>2, <3>3
    <3> HIDE DEF Live
    <3>7. Goal(1) /\ 1 \in 1 .. 5
      BY <3>2, <3>4, <3>6
    <3> QED
      BY <3>5, <3>7
  <2>2. CASE c = 0 /\ i <= L /\ s[i] \notin White
    <3> DEFINE C == CHOOSE C \in {Alpha, Digit, Other} : s[i] \in C
    <3>1. s[i] \in Bytes
      <4>1. i \in 1 .. L
        BY <1>1, <1>8, <2>2
      <4> QED
        BY <4>1, ElementOfSeq DEF L
    <3>2. C \in {Alpha, Digit, Other} /\ s[i] \in C
      BY <2>2, <3>1, Classes
    <3>3. W = RunEnd(s, i, C)
      BY <1>10, <2>2
    <3> HIDE DEF C
    <3>4. 1 \notin Live
      BY <1>2, <1>6, <2>2
    <3>5. /\ 2 \in Live => s[i] \in Alpha
          /\ 3 \in Live => s[i] \in Digit
      BY <1>2, <1>3, <1>4, <1>5
    <3>6. ASSUME NEW k \in 2 .. 4, NEW D, C = D, Space \notin D,
                 \A x : InPattern(Pattern[k], x) <=> Words(D, x)
          PROVE  k \in Live /\ W = Max(Lengths(Pattern[k], s)) /\ W \in 1 .. L
      <4>1. /\ RunEnd(s, i, D) \in Lengths(Pattern[k], s)
            /\ Max(Lengths(Pattern[k], s)) = RunEnd(s, i, D)
        BY <1>5, <2>2, <3>2, <3>6
      <4>2. Lengths(Pattern[k], s) # {} /\ k \in 1 .. 5
        BY <4>1
      <4> QED
        BY <1>2, <1>9, <3>3, <3>6, <4>1, <4>2
    <3> HIDE DEF Live
    <3>7. CASE C = Alpha
      <4>1. 2 \in Live /\ W = Max(Lengths(Pattern[2], s)) /\ W \in 1 .. L
        BY <1>2, <1>3, <1>4, <3>6, <3>7
      <4>2. \A l \in Live : 2 <= l
        BY <1>11, <3>4
      <4> QED
        BY <4>1, <4>2
    <3>8. CASE C = Digit
      <4>1. 3 \in Live /\ W = Max(Lengths(Pattern[3], s)) /\ W \in 1 .. L
        BY <1>2, <1>3, <1>4, <3>6, <3>8
      <4>2. 2 \notin Live
        BY <3>2, <3>5, <3>8, Classes
      <4>3. \A l \in Live : 3 <= l
        BY <1>11, <3>4, <4>2
      <4> QED
        BY <4>1, <4>3
    <3>9. CASE C = Other
      <4>1. 4 \in Live /\ W = Max(Lengths(Pattern[4], s)) /\ W \in 1 .. L
        BY <1>2, <1>3, <1>4, <3>6, <3>9
      <4>2. 2 \notin Live /\ 3 \notin Live
        BY <3>2, <3>5, <3>9, Classes
      <4>3. \A l \in Live : 4 <= l
        BY <1>11, <3>4, <4>2
      <4> QED
        BY <4>1, <4>3
    <3> QED
      BY <3>2, <3>7, <3>8, <3>9
  <2>3. CASE c = 0 /\ ~(i <= L /\ s[i] \notin White)
    <3>1. s[1] \in White
      BY <1>1, <1>8, <2>3, Classes
    <3>2. W = RunEnd(s, 1, White)
      BY <1>10, <2>3
    <3>3. i <= L => s[i] \notin Alpha /\ s[i] \notin Digit /\ s[i] \notin Other
      BY <2>3, Classes
    <3>4. 1 \notin Live
      BY <1>2, <1>6, <2>3
    <3>5. 2 \notin Live /\ 3 \notin Live /\ 4 \notin Live
      BY <1>2, <1>3, <1>4, <1>5, <3>3
    <3>6. 5 \in Live /\ W = Max(Lengths(Pattern[5], s)) /\ W \in 1 .. L
      BY <1>2, <1>7, <1>9, <3>1, <3>2
    <3> HIDE DEF Live
    <3>7. \A l \in Live : 5 <= l
      BY <1>11, <3>4, <3>5
    <3> QED
      BY <3>6, <3>7
  <2> QED
    BY <1>6, <2>1, <2>2, <2>3
<1>13. PICK k \in 1 .. 5 : Goal(k) /\ W \in 1 .. L
  BY <1>12
<1>14. Min(Live) = k
  <2>1. \A x, y \in Live : x <= y /\ y <= x => x = y
    BY <1>11
  <2> HIDE DEF Live
  <2> QED
    BY <1>13, <2>1 DEF Min
<1> HIDE DEF Live
<1>15. Live # {} /\ W = Max(Lengths(Pattern[Min(Live)], s)) /\ W \in 1 .. L
  BY <1>13, <1>14
<1> QED
  BY <1>15 DEF Live, W, L

\* Every text begins with a word of the pattern: the first alternative that
\* matches, as long as it goes on matching (match_gpt2_word).
THEOREM SplitAsPattern == TextSpec => []SplitsAsPattern
<1>1. TextTyped => SplitsAsPattern
  <2> SUFFICES ASSUME TextTyped, text # <<>> PROVE SplitsAsPattern
    BY DEF SplitsAsPattern
  <2>1. text \in Seq(Bytes)
    BY SeqMonotonic DEF TextTyped
  <2>2. LET Live == {k \in DOMAIN Pattern : Lengths(Pattern[k], text) # {}}
        IN  /\ Live # {}
            /\ MatchWord(text) = Max(Lengths(Pattern[Min(Live)], text))
    BY <2>1, WordMatched
  <2> QED
    BY <2>2 DEF SplitsAsPattern, Lengths
<1> QED
  BY <1>1, TextStays, PTL

-----------------------------------------------------------------------------
(* What is shown of a text.                                                *)

\* The bytes back are the bytes a + 1 to n of s, in order, without bytes only
\* where there is no token for them.
Shows(name, back, s, a, n) ==
  /\ back \in Seq(Bytes)
  /\ \E kept \in [1 .. Len(back) -> a + 1 .. n] :
       /\ \A i, j \in 1 .. Len(back) : i < j => kept[i] < kept[j]
       /\ \A i \in 1 .. Len(back) : back[i] = s[kept[i]]
       /\ \A m \in a + 1 .. n :
            (\A i \in 1 .. Len(back) : kept[i] # m) => ~HasToken(name, s[m])

\* Nothing shows nothing, or a byte that has no token.
LEMMA ShowsNone ==
  ASSUME NEW name, NEW s, NEW a \in Int
  PROVE  /\ Shows(name, <<>>, s, a, a)
         /\ ~HasToken(name, s[a + 1]) => Shows(name, <<>>, s, a, a + 1)
<1>1. <<>> \in Seq(Bytes) /\ Len(<<>>) = 0 /\ 1 .. 0 = {}
  BY EmptySeq
<1>2. Shows(name, <<>>, s, a, a)
  <2> DEFINE kept == [i \in {} |-> i]
  <2>1. kept \in [{} -> a + 1 .. a] /\ a + 1 .. a = {}
    OBVIOUS
  <2> HIDE DEF kept
  <2> QED
    BY <1>1, <2>1 DEF Shows
<1>3. ASSUME ~HasToken(name, s[a + 1]) PROVE Shows(name, <<>>, s, a, a + 1)
  <2> DEFINE kept == [i \in {} |-> i]
  <2>1. kept \in [{} -> a + 1 .. a + 1] /\ \A m \in a + 1 .. a + 1 : m = a + 1
    OBVIOUS
  <2> HIDE DEF kept
  <2> QED
    BY <1>1, <1>3, <2>1 DEF Shows
<1> QED
  BY <1>2, <1>3

\* A part of a text shows itself.
LEMMA ShowsAll ==
  ASSUME NEW name, NEW s \in Seq(Bytes), NEW a \in Nat, NEW n \in Nat,
         a <= n, n <= Len(s)
  PROVE  Shows(name, SubSeq(s, a + 1, n), s, a, n)
<1> DEFINE t == SubSeq(s, a + 1, n)
           kept == [i \in 1 .. n - a |-> a + i]
<1>1. /\ t \in Seq(Bytes) /\ Len(t) = n - a
      /\ \A k \in 1 .. n - a : t[k] = s[a + k]
  <2>1. /\ a + 1 \in Int /\ n \in Int /\ 1 <= a + 1 /\ a + 1 <= n + 1
        /\ n - (a + 1) + 1 = n - a /\ \A k \in 1 .. n - a : (a + 1) + k - 1 = a + k
    OBVIOUS
  <2> QED
    BY <2>1, SliceIs
<1>2. /\ kept \in [1 .. n - a -> a + 1 .. n]
      /\ \A i \in 1 .. n - a : kept[i] = a + i
  OBVIOUS
<1> HIDE DEF t, kept
<1>3. \A i, j \in 1 .. n - a : i < j => kept[i] < kept[j]
  <2>1. ASSUME NEW i \in 1 .. n - a, NEW j \in 1 .. n - a, i < j
        PROVE  kept[i] < kept[j]
    <3>1. kept[i] = a + i /\ kept[j] = a + j /\ a + i < a + j
      BY <1>2, <2>1
    <3> QED
      BY <3>1
  <2> QED
    BY <2>1
<1>4. \A m \in a + 1 .. n : \E i \in 1 .. n - a : kept[i] = m
  <2>1. \A m \in a + 1 .. n : m - a \in 1 .. n - a /\ a + (m - a) = m
    OBVIOUS
  <2> QED
    BY <1>2, <2>1
<1>5. \A i \in 1 .. n - a : t[i] = s[kept[i]]
  BY <1>1, <1>2
<1>6. /\ kept \in [1 .. Len(t) -> a + 1 .. n]
      /\ \A i, j \in 1 .. Len(t) : i < j => kept[i] < kept[j]
      /\ \A i \in 1 .. Len(t) : t[i] = s[kept[i]]
      /\ \A m \in a + 1 .. n :
           (\A i \in 1 .. Len(t) : kept[i] # m) => ~HasToken(name, s[m])
  BY <1>1, <1>2, <1>3, <1>4, <1>5
<1>7. Shows(name, t, s, a, n)
  BY <1>1, <1>6 DEF Shows
<1> QED
  BY <1>7 DEF t

\* What shows two parts, one behind the other, shows both.
LEMMA ShowsJoin ==
  ASSUME NEW name, NEW s, NEW a \in Int, NEW m \in Int, NEW n \in Int,
         a <= m, m <= n, NEW x, NEW y,
         Shows(name, x, s, a, m), Shows(name, y, s, m, n)
  PROVE  Shows(name, x \o y, s, a, n)
<1> DEFINE z == x \o y
           u == Len(x)
           v == Len(y)
<1>1. x \in Seq(Bytes) /\ y \in Seq(Bytes)
  BY DEF Shows
<1>2. /\ u \in Nat /\ v \in Nat /\ z \in Seq(Bytes) /\ Len(z) = u + v
      /\ \A i \in 1 .. u + v : z[i] = IF i <= u THEN x[i] ELSE y[i - u]
  BY <1>1, ConcatProperties, LenProperties
<1>3. PICK f \in [1 .. u -> a + 1 .. m] :
        /\ \A i, j \in 1 .. u : i < j => f[i] < f[j]
        /\ \A i \in 1 .. u : x[i] = s[f[i]]
        /\ \A k \in a + 1 .. m :
             (\A i \in 1 .. u : f[i] # k) => ~HasToken(name, s[k])
  BY DEF Shows
<1>4. PICK g \in [1 .. v -> m + 1 .. n] :
        /\ \A i, j \in 1 .. v : i < j => g[i] < g[j]
        /\ \A i \in 1 .. v : y[i] = s[g[i]]
        /\ \A k \in m + 1 .. n :
             (\A i \in 1 .. v : g[i] # k) => ~HasToken(name, s[k])
  BY DEF Shows
<1> HIDE DEF z, u, v
<1> DEFINE kept == [i \in 1 .. u + v |-> IF i <= u THEN f[i] ELSE g[i - u]]
<1>5. ASSUME NEW i \in 1 .. u + v
      PROVE  \/ /\ i <= u /\ i \in 1 .. u /\ kept[i] = f[i]
                /\ kept[i] \in a + 1 .. m
             \/ /\ ~(i <= u) /\ i - u \in 1 .. v /\ kept[i] = g[i - u]
                /\ kept[i] \in m + 1 .. n
  BY <1>2, <1>3, <1>4
<1>6. kept \in [1 .. u + v -> a + 1 .. n]
  <2>1. \A k \in a + 1 .. m : k \in a + 1 .. n
    OBVIOUS
  <2>2. \A k \in m + 1 .. n : k \in a + 1 .. n
    OBVIOUS
  <2>3. \A i \in 1 .. u + v : kept[i] \in a + 1 .. n
    <3> HIDE DEF kept
    <3> QED
      BY <1>5, <2>1, <2>2
  <2> QED
    BY <2>3
<1> HIDE DEF kept
<1>7. ASSUME NEW i \in 1 .. u + v, NEW j \in 1 .. u + v, i < j
      PROVE  kept[i] < kept[j]
  <2>1. CASE i <= u /\ j <= u
    <3>1. i \in 1 .. u /\ j \in 1 .. u /\ kept[i] = f[i] /\ kept[j] = f[j]
      BY <1>5, <2>1
    <3> QED
      BY <1>3, <1>7, <3>1
  <2>2. CASE i <= u /\ ~(j <= u)
    <3> DEFINE p == kept[i]
               q == kept[j]
    <3>1. p \in a + 1 .. m /\ q \in m + 1 .. n
      BY <1>5, <2>2
    <3> HIDE DEF p, q
    <3>2. p < q
      BY <3>1
    <3> QED
      BY <3>2 DEF p, q
  <2>3. CASE ~(i <= u)
    <3>1. ~(j <= u) /\ i - u < j - u
      BY <1>2, <1>7, <2>3
    <3>2. /\ i - u \in 1 .. v /\ j - u \in 1 .. v
          /\ kept[i] = g[i - u] /\ kept[j] = g[j - u]
      BY <1>5, <2>3, <3>1
    <3> QED
      BY <1>4, <3>1, <3>2
  <2> QED
    BY <2>1, <2>2, <2>3
<1>8. ASSUME NEW i \in 1 .. u + v PROVE z[i] = s[kept[i]]
  <2>1. CASE i <= u
    <3>1. i \in 1 .. u /\ kept[i] = f[i] /\ z[i] = x[i]
      BY <1>2, <1>5, <2>1
    <3> QED
      BY <1>3, <3>1
  <2>2. CASE ~(i <= u)
    <3>1. i - u \in 1 .. v /\ kept[i] = g[i - u] /\ z[i] = y[i - u]
      BY <1>2, <1>5, <2>2
    <3> QED
      BY <1>4, <3>1
  <2> QED
    BY <2>1, <2>2
<1>9. ASSUME NEW k \in a + 1 .. n, \A i \in 1 .. u + v : kept[i] # k
      PROVE  ~HasToken(name, s[k])
  <2>1. CASE k <= m
    <3>1. k \in a + 1 .. m
      BY <2>1
    <3>2. ASSUME NEW i \in 1 .. u PROVE f[i] # k
      <4>1. i \in 1 .. u + v /\ i <= u
        BY <1>2
      <4>2. kept[i] = f[i]
        BY <1>5, <4>1
      <4> QED
        BY <1>9, <4>1, <4>2
    <3> QED
      BY <1>3, <3>1, <3>2
  <2>2. CASE ~(k <= m)
    <3>1. k \in m + 1 .. n
      BY <2>2
    <3>2. ASSUME NEW i \in 1 .. v PROVE g[i] # k
      <4>1. u + i \in 1 .. u + v /\ ~(u + i <= u) /\ (u + i) - u = i
        BY <1>2
      <4>2. kept[u + i] = g[i]
        BY <1>5, <4>1
      <4> QED
        BY <1>9, <4>1, <4>2
    <3> QED
      BY <1>4, <3>1, <3>2
  <2> QED
    BY <2>1, <2>2
<1>10. /\ kept \in [1 .. Len(z) -> a + 1 .. n]
       /\ \A i, j \in 1 .. Len(z) : i < j => kept[i] < kept[j]
       /\ \A i \in 1 .. Len(z) : z[i] = s[kept[i]]
       /\ \A k \in a + 1 .. n :
            (\A i \in 1 .. Len(z) : kept[i] # k) => ~HasToken(name, s[k])
  BY <1>2, <1>6, <1>7, <1>8, <1>9
<1>11. Shows(name, z, s, a, n)
  BY <1>2, <1>10 DEF Shows
<1> QED
  BY <1>11 DEF z

\* What is shown of a part is shown of the whole.
LEMMA ShowsPart ==
  ASSUME NEW name, NEW s, NEW t, NEW a \in Int, NEW n \in Int,
         \A k \in 1 .. n : t[k] = s[a + k], NEW x, Shows(name, x, t, 0, n)
  PROVE  Shows(name, x, s, a, a + n)
<1> DEFINE u == Len(x)
<1>1. x \in Seq(Bytes)
  BY DEF Shows
<1>2. PICK f \in [1 .. u -> 0 + 1 .. n] :
        /\ \A i, j \in 1 .. u : i < j => f[i] < f[j]
        /\ \A i \in 1 .. u : x[i] = t[f[i]]
        /\ \A k \in 0 + 1 .. n :
             (\A i \in 1 .. u : f[i] # k) => ~HasToken(name, t[k])
  BY DEF Shows
<1> DEFINE kept == [i \in 1 .. u |-> a + f[i]]
<1> HIDE DEF u
<1>3. \A i \in 1 .. u : f[i] \in 1 .. n /\ f[i] \in Int /\ kept[i] = a + f[i]
  BY <1>2
<1>4. kept \in [1 .. u -> a + 1 .. a + n]
  <2>1. \A k \in 1 .. n : a + k \in a + 1 .. a + n
    OBVIOUS
  <2> QED
    BY <1>3, <2>1
<1> HIDE DEF kept
<1>5. ASSUME NEW i \in 1 .. u, NEW j \in 1 .. u, i < j PROVE kept[i] < kept[j]
  <2> DEFINE p == f[i]
             q == f[j]
  <2>1. p \in Int /\ q \in Int /\ p < q /\ kept[i] = a + p /\ kept[j] = a + q
    BY <1>2, <1>3, <1>5
  <2> HIDE DEF p, q
  <2>2. a + p < a + q
    BY <2>1
  <2> QED
    BY <2>1, <2>2
<1>6. \A i \in 1 .. u : x[i] = s[kept[i]]
  BY <1>2, <1>3
<1>7. ASSUME NEW k \in a + 1 .. a + n, \A i \in 1 .. u : kept[i] # k
      PROVE  ~HasToken(name, s[k])
  <2>1. k - a \in 0 + 1 .. n /\ a + (k - a) = k /\ k - a \in 1 .. n
    OBVIOUS
  <2>2. \A i \in 1 .. u : f[i] # k - a
    BY <1>3, <1>7, <2>1
  <2>3. ~HasToken(name, t[k - a])
    BY <1>2, <2>1, <2>2
  <2>4. t[k - a] = s[k]
    BY <2>1
  <2> QED
    BY <2>3, <2>4
<1> QED
  BY <1>1, <1>4, <1>5, <1>6, <1>7 DEF Shows, u

-----------------------------------------------------------------------------
(* What is printed for tokens.                                             *)

Decodable(tok) == {id \in Int : DecodeToBytes(tok, id) \in Seq(Bytes)}

\* The loop that prints tokens.
LEMMA PrintedLoop ==
  ASSUME NEW tok, NEW tokens \in Seq(Decodable(tok))
  PROVE  \E r : /\ r \in [0 .. Len(tokens) -> Seq(Bytes)]
                /\ r[0] = <<>>
                /\ \A m \in 1 .. Len(tokens) : r[m] = r[m - 1] \o DecodeToBytes(tok, tokens[m])
                /\ Printed(tok, tokens) = r[Len(tokens)]
<1> DEFINE n == Len(tokens)
           V == Seq(Bytes)
           v == <<>>
           T(x, m) == x \o DecodeToBytes(tok, tokens[m])
           S == [m \in 0 + 1 .. n |-> [x \in V |-> T(x, m)]]
           Def(f) == f = [m \in 0 .. n |-> IF m = 0 THEN v ELSE T(f[m - 1], m)]
           r == CHOOSE f : Def(f)
<1>1. n \in Nat /\ v \in V
  BY LenProperties, EmptySeq
<1>2. ASSUME NEW m \in 1 .. n, NEW x \in V PROVE T(x, m) \in V
  <2>1. tokens[m] \in Decodable(tok)
    BY ElementOfSeq
  <2>2. DecodeToBytes(tok, tokens[m]) \in Seq(Bytes)
    BY <2>1 DEF Decodable
  <2> QED
    BY <2>2, ConcatProperties
<1>3. 0 \in Int /\ n \in Int /\ 0 <= n /\ 0 + 1 .. n = 1 .. n
  BY <1>1
<1>4. Printed(tok, tokens) = r[Len(tokens)]
  BY DEF Printed
<1> HIDE DEF n, V, v, T
<1>5. S \in [0 + 1 .. n -> [V -> V]]
  BY <1>2, <1>3
<1>6. \A m \in 0 .. n : m = 0 \/ (m \in 1 .. n /\ m - 1 \in 0 .. n)
  BY <1>1
<1>7. \E f : Def(f)
  <2>1. PICK f : LoopIs(f, V, v, 0, n, S)
    <3> HIDE DEF S
    <3> QED
      BY <1>1, <1>3, <1>5, LoopExists
  <2>2. /\ f \in [0 .. n -> V] /\ f[0] = v
        /\ \A m \in 1 .. n : f[m] = S[m][f[m - 1]]
    <3> HIDE DEF S
    <3> QED
      BY <1>3, <2>1 DEF LoopIs
  <2>3. \A m \in 1 .. n : S[m][f[m - 1]] = T(f[m - 1], m)
    BY <1>3, <1>6, <2>2
  <2> HIDE DEF S
  <2>4. \A m \in 0 .. n : f[m] = IF m = 0 THEN v ELSE T(f[m - 1], m)
    BY <1>6, <2>2, <2>3
  <2> QED
    BY <2>2, <2>4
<1>8. Def(r)
  <2> HIDE DEF Def
  <2> QED
    BY <1>7
<1> HIDE DEF r
<1>9. r[0] = v /\ \A m \in 1 .. n : r[m] = T(r[m - 1], m)
  <2>1. 0 \in 0 .. n /\ \A m \in 1 .. n : m \in 0 .. n /\ m # 0
    BY <1>1
  <2> QED
    BY <1>8, <2>1
<1>10. r \in [0 .. n -> V]
  <2> DEFINE P == {m \in 0 .. n : r[m] \in V}
  <2>1. 0 \in P /\ \A m \in 0 + 1 .. n : m - 1 \in P => m \in P
    BY <1>1, <1>2, <1>3, <1>6, <1>9
  <2>2. 0 .. n \subseteq P
    <3> HIDE DEF P
    <3> QED
      BY <1>3, <2>1, IntervalInduction
  <2> QED
    BY <1>8, <2>2
<1> QED
  BY <1>4, <1>9, <1>10 DEF n, V, v, T

\* What is printed for one token, and for none.
LEMMA PrintedOne ==
  ASSUME NEW tok, NEW id \in Decodable(tok)
  PROVE  /\ Printed(tok, <<id>>) = DecodeToBytes(tok, id)
         /\ Printed(tok, <<>>) = <<>>
<1>1. Printed(tok, <<>>) = <<>>
  <2>1. <<>> \in Seq(Decodable(tok)) /\ Len(<<>>) = 0
    BY EmptySeq
  <2> QED
    BY <2>1, PrintedLoop
<1>2. Printed(tok, <<id>>) = DecodeToBytes(tok, id)
  <2> DEFINE t == <<id>>
  <2>1. t \in Seq(Decodable(tok)) /\ Len(t) = 1 /\ t[1] = id
    OBVIOUS
  <2> HIDE DEF t
  <2>2. PICK r : /\ r[0] = <<>>
                 /\ \A m \in 1 .. Len(t) : r[m] = r[m - 1] \o DecodeToBytes(tok, t[m])
                 /\ Printed(tok, t) = r[Len(t)]
    BY <2>1, PrintedLoop
  <2>3. 1 \in 1 .. Len(t) /\ 1 - 1 = 0
    BY <2>1
  <2>4. r[1] = <<>> \o DecodeToBytes(tok, id)
    BY <2>1, <2>2, <2>3
  <2>5. DecodeToBytes(tok, id) \in Seq(Bytes)
    BY DEF Decodable
  <2>6. Printed(tok, t) = DecodeToBytes(tok, id)
    BY <2>1, <2>2, <2>4, <2>5, ConcatEmptySeq
  <2> QED
    BY <2>6 DEF t
<1> QED
  BY <1>1, <1>2

\* Tokens are printed one after the other.
LEMMA PrintedJoin ==
  ASSUME NEW tok, NEW x \in Seq(Decodable(tok)), NEW y \in Seq(Decodable(tok))
  PROVE  Printed(tok, x \o y) = Printed(tok, x) \o Printed(tok, y)
<1> DEFINE z == x \o y
           u == Len(x)
           v == Len(y)
           D(id) == DecodeToBytes(tok, id)
<1>1. /\ u \in Nat /\ v \in Nat /\ z \in Seq(Decodable(tok)) /\ Len(z) = u + v
      /\ \A i \in 1 .. u + v : z[i] = IF i <= u THEN x[i] ELSE y[i - u]
  BY ConcatProperties, LenProperties
<1>2. PICK f : /\ f \in [0 .. u -> Seq(Bytes)] /\ f[0] = <<>>
               /\ \A m \in 1 .. u : f[m] = f[m - 1] \o D(x[m])
               /\ Printed(tok, x) = f[u]
  BY PrintedLoop
<1>3. PICK g : /\ g \in [0 .. v -> Seq(Bytes)] /\ g[0] = <<>>
               /\ \A m \in 1 .. v : g[m] = g[m - 1] \o D(y[m])
               /\ Printed(tok, y) = g[v]
  BY PrintedLoop
<1>4. PICK r : /\ r \in [0 .. Len(z) -> Seq(Bytes)] /\ r[0] = <<>>
               /\ \A m \in 1 .. Len(z) : r[m] = r[m - 1] \o D(z[m])
               /\ Printed(tok, z) = r[Len(z)]
  BY <1>1, PrintedLoop
<1>5. \A m \in 1 .. v : D(y[m]) \in Seq(Bytes)
  <2>1. \A m \in 1 .. v : y[m] \in Decodable(tok)
    BY ElementOfSeq
  <2> QED
    BY <2>1 DEF Decodable
<1> HIDE DEF z, u, v, D
<1>6. r[u] = f[u]
  <2> DEFINE P == {m \in 0 .. u : r[m] = f[m]}
  <2>1. 0 \in P
    BY <1>1, <1>2, <1>4
  <2>2. ASSUME NEW m \in 0 + 1 .. u, m - 1 \in P PROVE m \in P
    <3>1. m \in 1 .. u /\ m \in 0 .. u /\ m \in 1 .. Len(z) /\ m <= u
      BY <1>1
    <3>2. z[m] = x[m]
      BY <1>1, <3>1
    <3> QED
      BY <1>2, <1>4, <2>2, <3>1, <3>2
  <2>3. 0 \in Int /\ u \in Int /\ u \in 0 .. u
    BY <1>1
  <2>4. 0 .. u \subseteq P
    <3> HIDE DEF P
    <3> QED
      BY <2>1, <2>2, <2>3, IntervalInduction
  <2> QED
    BY <2>3, <2>4
<1>7. r[u + v] = r[u] \o g[v]
  <2> DEFINE P == {m \in 0 .. v : r[u + m] = r[u] \o g[m]}
  <2>1. r[u] \in Seq(Bytes) /\ u + 0 = u
    BY <1>1, <1>4
  <2>2. 0 \in P
    BY <1>1, <1>3, <2>1, ConcatEmptySeq
  <2>3. ASSUME NEW m \in 0 + 1 .. v, m - 1 \in P PROVE m \in P
    <3>1. /\ m \in 1 .. v /\ m \in 0 .. v /\ m - 1 \in 0 .. v
          /\ u + m \in 1 .. Len(z) /\ u + m \in 1 .. u + v /\ ~(u + m <= u)
          /\ (u + m) - u = m /\ (u + m) - 1 = u + (m - 1)
      BY <1>1
    <3>2. z[u + m] = y[m]
      BY <1>1, <3>1
    <3>3. r[u + m] = (r[u] \o g[m - 1]) \o D(y[m])
      BY <1>4, <2>3, <3>1, <3>2
    <3>4. g[m] = g[m - 1] \o D(y[m]) /\ g[m - 1] \in Seq(Bytes)
          /\ D(y[m]) \in Seq(Bytes)
      BY <1>3, <1>5, <3>1
    <3> DEFINE A == r[u]
               B == g[m - 1]
               C == D(y[m])
    <3>5. /\ A \in Seq(Bytes) /\ B \in Seq(Bytes) /\ C \in Seq(Bytes)
          /\ r[u + m] = (A \o B) \o C /\ g[m] = B \o C
      BY <2>1, <3>3, <3>4
    <3> HIDE DEF A, B, C
    <3>6. r[u + m] = A \o g[m]
      BY <3>5, ConcatAssociative
    <3> QED
      BY <3>1, <3>6 DEF A
  <2>4. 0 \in Int /\ v \in Int /\ v \in 0 .. v
    BY <1>1
  <2>5. 0 .. v \subseteq P
    <3> HIDE DEF P
    <3> QED
      BY <2>2, <2>3, <2>4, IntervalInduction
  <2> QED
    BY <2>4, <2>5
<1>8. Printed(tok, z) = Printed(tok, x) \o Printed(tok, y)
  BY <1>1, <1>2, <1>3, <1>4, <1>6, <1>7
<1> QED
  BY <1>8 DEF z

\* The loop of decode_token_to_bytes.
LEMMA DecodeTokenLoop ==
  ASSUME NEW s \in Seq(Bytes)
  PROVE  \E r : /\ r \in [0 .. Len(s) -> [i : Nat \ {0}, out : Seq(Bytes)]]
                /\ r[0] = At(1, <<>>)
                /\ \A m \in 1 .. Len(s) : r[m] = DecodeRound(s, r[m - 1])
                /\ DecodeToken(s) = r[Len(s)].out
<1> DEFINE n == Len(s)
           V == [i : Nat \ {0}, out : Seq(Bytes)]
           v == At(1, <<>>)
           T(x, m) == DecodeRound(s, x)
           S == [m \in 0 + 1 .. n |-> [x \in V |-> T(x, m)]]
           Def(f) == f = [m \in 0 .. n |-> IF m = 0 THEN v ELSE T(f[m - 1], m)]
           r == CHOOSE f : Def(f)
<1>1. n \in Nat /\ v \in V
  BY LenProperties, EmptySeq DEF At
<1>2. ASSUME NEW m \in 1 .. n, NEW x \in V PROVE T(x, m) \in V
  <2>1. x.i \in Nat \ {0} /\ x.out \in Seq(Bytes) /\ Len(s) \in Nat
    BY <1>1
  <2>2. CASE x.i > Len(s)
    BY <2>2 DEF DecodeRound
  <2>3. CASE ~(x.i > Len(s))
    <3> DEFINE t == SubSeq(s, x.i, Len(s))
               c == DecodeCodepoint(t)
    <3>1. t \in Seq(Bytes) /\ Len(t) = Len(s) - x.i + 1
      BY <2>1, <2>3, SliceIs
    <3>2. t # <<>>
      <4> DEFINE a == x.i
      <4>1. a \in Nat \ {0} /\ Len(s) \in Nat /\ ~(a > Len(s))
        BY <2>1, <2>3
      <4>2. Len(t) = Len(s) - a + 1 /\ Len(<<>>) = 0
        BY <3>1
      <4> HIDE DEF a, t
      <4>3. Len(t) # 0
        BY <4>1, <4>2
      <4> QED
        BY <4>2, <4>3
    <3> HIDE DEF t
    <3>3. c.cp \in Nat /\ c.size \in 1 .. 3
      BY <3>1, <3>2, CodepointTyped
    <3>4. T(x, m) = At(x.i + c.size, Append(x.out, DecodedByte(c.cp)))
      BY <2>3 DEF DecodeRound, t
    <3> HIDE DEF c
    <3>5. x.i + c.size \in Nat \ {0}
      BY <2>1, <3>3
    <3>6. Append(x.out, DecodedByte(c.cp)) \in Seq(Bytes)
      BY <2>1, <3>3, ByteDecoded, AppendProperties
    <3> QED
      BY <3>4, <3>5, <3>6 DEF At
  <2> QED
    BY <2>2, <2>3
<1>3. 0 \in Int /\ n \in Int /\ 0 <= n /\ 0 + 1 .. n = 1 .. n
  BY <1>1
<1>4. DecodeToken(s) = r[Len(s)].out
  BY DEF DecodeToken
<1> HIDE DEF n, V, v, T
<1>5. S \in [0 + 1 .. n -> [V -> V]]
  BY <1>2, <1>3
<1>6. \A m \in 0 .. n : m = 0 \/ (m \in 1 .. n /\ m - 1 \in 0 .. n)
  BY <1>1
<1>7. \E f : Def(f)
  <2>1. PICK f : LoopIs(f, V, v, 0, n, S)
    <3> HIDE DEF S
    <3> QED
      BY <1>1, <1>3, <1>5, LoopExists
  <2>2. /\ f \in [0 .. n -> V] /\ f[0] = v
        /\ \A m \in 1 .. n : f[m] = S[m][f[m - 1]]
    <3> HIDE DEF S
    <3> QED
      BY <1>3, <2>1 DEF LoopIs
  <2>3. \A m \in 1 .. n : S[m][f[m - 1]] = T(f[m - 1], m)
    BY <1>3, <1>6, <2>2
  <2> HIDE DEF S
  <2>4. \A m \in 0 .. n : f[m] = IF m = 0 THEN v ELSE T(f[m - 1], m)
    BY <1>6, <2>2, <2>3
  <2> QED
    BY <2>2, <2>4
<1>8. Def(r)
  <2> HIDE DEF Def
  <2> QED
    BY <1>7
<1> HIDE DEF r
<1>9. r[0] = v /\ \A m \in 1 .. n : r[m] = T(r[m - 1], m)
  <2>1. 0 \in 0 .. n /\ \A m \in 1 .. n : m \in 0 .. n /\ m # 0
    BY <1>1
  <2> QED
    BY <1>8, <2>1
<1>10. r \in [0 .. n -> V]
  <2> DEFINE P == {m \in 0 .. n : r[m] \in V}
  <2>1. 0 \in P /\ \A m \in 0 + 1 .. n : m - 1 \in P => m \in P
    BY <1>1, <1>2, <1>3, <1>6, <1>9
  <2>2. 0 .. n \subseteq P
    <3> HIDE DEF P
    <3> QED
      BY <1>3, <2>1, IntervalInduction
  <2> QED
    BY <1>8, <2>2
<1> QED
  BY <1>4, <1>9, <1>10 DEF n, V, v, T

\* The spelling of a string is read back as the string, whatever its bytes
\* (text_to_byte_encoding, decode_token_to_bytes).
THEOREM SpellingRead ==
  ASSUME NEW u \in Seq(Bytes)
  PROVE  DecodeToken(EncodeText(u)) = u
<1> DEFINE c == EncodeText(u)
           N == Len(u)
           z == Len(c)
<1>1. PICK p : Places(TRUE, c, u, p)
  <2>1. Coded(TRUE, u) = c
    BY DEF Coded
  <2> QED
    BY <2>1, CodedPlaces
<1>2. /\ c \in Seq(Bytes) /\ p[0] = 0 /\ p[N] = z /\ N \in Nat /\ z \in Nat
      /\ \A n \in 0 .. N : p[n] \in Nat
      /\ \A n \in 1 .. N :
           /\ u[n] \in Bytes
           /\ p[n] = p[n - 1] + Len(EncodeByte(u[n]))
           /\ \A k \in 1 .. Len(EncodeByte(u[n])) :
                c[p[n - 1] + k] = EncodeByte(u[n])[k]
  <2>1. \A n \in 1 .. N : u[n] \in Bytes
    BY ElementOfSeq
  <2>2. \A b : CodeOf(TRUE, b) = EncodeByte(b)
    BY DEF CodeOf
  <2>3. /\ c \in Seq(Bytes) /\ p \in [0 .. N -> Nat] /\ p[0] = 0 /\ p[N] = z
        /\ \A n \in 1 .. N :
             /\ p[n] = p[n - 1] + Len(EncodeByte(u[n]))
             /\ \A k \in 1 .. Len(EncodeByte(u[n])) :
                  c[p[n - 1] + k] = EncodeByte(u[n])[k]
    BY <1>1, <2>2 DEF Places
  <2>4. N \in Nat /\ z \in Nat
    BY <2>3, LenProperties
  <2> QED
    BY <2>1, <2>3, <2>4
<1>3. \A i, j \in 0 .. N : i <= j => p[i] + (j - i) <= p[j]
  BY <1>1, PlacesOrder
<1>4. PICK r : /\ r[0] = At(1, <<>>)
               /\ \A m \in 1 .. z : r[m] = DecodeRound(c, r[m - 1])
               /\ DecodeToken(c) = r[z].out
  BY <1>2, DecodeTokenLoop
<1> HIDE DEF c, N, z
<1>5. N <= z
  <2>1. 0 \in 0 .. N /\ N \in 0 .. N /\ 0 <= N
    BY <1>2
  <2>2. 0 + (N - 0) <= p[N]
    BY <1>2, <1>3, <2>1
  <2> QED
    BY <1>2, <2>2
<1> DEFINE P == {m \in 0 .. N : r[m] = At(p[m] + 1, SubSeq(u, 1, m))}
<1>6. 0 \in P
  <2>1. SubSeq(u, 1, 0) = <<>> /\ p[0] + 1 = 1 /\ 0 \in 0 .. N
    BY <1>2, SubSeqEmpty
  <2>2. At(p[0] + 1, SubSeq(u, 1, 0)) = At(1, <<>>)
    BY <2>1
  <2> QED
    BY <1>4, <2>1, <2>2
<1>7. ASSUME NEW m \in 0 + 1 .. N, m - 1 \in P PROVE m \in P
  <2> DEFINE g == p[m - 1]
             d == EncodeByte(u[m])
             l == Len(d)
             t == SubSeq(c, g + 1, z)
             w == At(g + 1, SubSeq(u, 1, m - 1))
  <2>1. m \in 1 .. N /\ m \in 1 .. z /\ m \in 0 .. N /\ m - 1 \in 0 .. N
        /\ r[m - 1] = w /\ N \in 0 .. N /\ m <= N
    BY <1>2, <1>5, <1>7
  <2>2. /\ u[m] \in Bytes /\ g \in Nat /\ p[m] = g + l /\ p[m] \in Nat
        /\ \A k \in 1 .. l : c[g + k] = d[k]
    BY <1>2, <2>1
  <2>3. l \in {1, 2}
    BY <2>2, CodeTells
  <2>4. p[m] + (N - m) <= z
    BY <1>2, <1>3, <2>1
  <2> HIDE DEF g, l
  <2>5. g + l <= z /\ g + 1 <= z /\ l \in Nat
    BY <1>2, <2>1, <2>2, <2>3, <2>4
  <2>6. /\ t \in Seq(Bytes) /\ Len(t) = z - (g + 1) + 1
        /\ \A k \in 1 .. z - (g + 1) + 1 : t[k] = c[(g + 1) + k - 1]
    <3>1. g + 1 \in Int /\ z \in Int /\ 1 <= g + 1 /\ g + 1 <= z + 1 /\ z <= Len(c)
      BY <1>2, <2>2, <2>5 DEF z
    <3> QED
      BY <1>2, <3>1, SliceIs
  <2> HIDE DEF t, d
  <2>7. Len(t) >= l
    <3>1. z \in Int /\ g \in Int /\ l \in Int /\ g + l <= z
      BY <1>2, <2>2, <2>5
    <3>2. z - (g + 1) + 1 >= l
      BY <3>1
    <3> QED
      BY <2>6, <3>2
  <2>8. ASSUME NEW k \in 1 .. l PROVE t[k] = d[k]
    <3>1. z \in Int /\ g \in Int /\ l \in Int /\ g + l <= z
      BY <1>2, <2>2, <2>5
    <3>2. k \in 1 .. z - (g + 1) + 1 /\ (g + 1) + k - 1 = g + k
      BY <3>1
    <3> QED
      BY <2>2, <2>6, <3>2
  <2>9. /\ DecodeCodepoint(t).size = l
        /\ DecodedByte(DecodeCodepoint(t).cp) = u[m]
    BY <2>2, <2>6, <2>7, <2>8, CodeDecoded DEF d, l
  <2>10. DecodeRound(c, w) = At((g + 1) + l, Append(SubSeq(u, 1, m - 1), u[m]))
    <3>1. w.i = g + 1 /\ w.out = SubSeq(u, 1, m - 1)
      BY DEF At
    <3> HIDE DEF w
    <3>2. ~(w.i > z)
      BY <1>2, <2>2, <2>5, <3>1
    <3> QED
      BY <2>9, <3>1, <3>2 DEF DecodeRound, t, z
  <2>11. Append(SubSeq(u, 1, m - 1), u[m]) = SubSeq(u, 1, m)
    <3>1. 1 \in 1 .. Len(u) /\ m \in 1 .. Len(u)
      BY <1>2, <2>1 DEF N
    <3>2. SubSeq(u, 1, m) = SubSeq(u, 1, m - 1) \o <<u[m]>>
      BY <3>1, SubSeqRecursiveSecond
    <3>3. SubSeq(u, 1, m - 1) \in Seq(Bytes)
      <4>1. 1 \in Int /\ m - 1 \in Int /\ 1 <= 1 /\ 1 <= (m - 1) + 1 /\ m - 1 <= Len(u)
        BY <1>2, <2>1 DEF N
      <4> QED
        BY <4>1, SliceIs
    <3> QED
      BY <2>2, <3>2, <3>3, AppendIsConcat
  <2>12. (g + 1) + l = p[m] + 1
    BY <2>2, <2>5
  <2> QED
    BY <1>4, <2>1, <2>10, <2>11, <2>12
<1>8. 0 .. N \subseteq P
  <2>1. 0 \in Int /\ N \in Int
    BY <1>2
  <2> HIDE DEF P
  <2> QED
    BY <1>6, <1>7, <2>1, IntervalInduction
<1> DEFINE done == At(z + 1, u)
           Q == {m \in N .. z : r[m] = done}
<1>9. N \in Q
  <2>1. N \in 0 .. N /\ N \in N .. z /\ SubSeq(u, 1, N) = u
    BY <1>2, <1>5, SubSeqFull DEF N
  <2>2. N \in P
    BY <1>8, <2>1
  <2>3. r[N] = At(p[N] + 1, SubSeq(u, 1, N))
    BY <2>2
  <2> QED
    BY <1>2, <2>1, <2>3
<1>10. ASSUME NEW m \in N + 1 .. z, m - 1 \in Q PROVE m \in Q
  <2>1. m \in 1 .. z /\ m \in N .. z /\ r[m - 1] = done
    BY <1>2, <1>10
  <2>2. done.i = z + 1
    BY DEF At
  <2> HIDE DEF done
  <2>3. done.i > z
    BY <1>2, <2>2
  <2>4. DecodeRound(c, done) = done
    BY <2>3 DEF DecodeRound, z
  <2> QED
    BY <1>4, <2>1, <2>4
<1>11. N .. z \subseteq Q
  <2>1. N \in Int /\ z \in Int
    BY <1>2
  <2> HIDE DEF Q
  <2> QED
    BY <1>9, <1>10, <2>1, IntervalInduction
<1>12. r[z] = done
  BY <1>2, <1>5, <1>11
<1>13. DecodeToken(c) = u
  BY <1>4, <1>12 DEF At
<1> QED
  BY <1>13 DEF c

\* The loader tells the spelling by the token of a space.
LEMMA SpellingKnown ==
  ASSUME NEW name \in DOMAIN Files
  PROVE  Tokenizers[name].is_byte_encoded = Files[name].spelled
<1> DEFINE sp == Files[name].spelled
           e  == Files[name].entries
           t  == Strings(name)
           c  == CodeOf(sp, Space)
<1>1. /\ sp \in BOOLEAN /\ Len(e) >= 221 /\ Len(e) \in Nat /\ e[221] = <<Space>>
      /\ \A k \in 1 .. Len(e) : e[k] \in Seq(Bytes) /\ t[k] = Coded(sp, e[k])
      /\ Tokenizers[name] = Load(t)
  BY StringsAre
<1>2. 220 + 1 = 221 /\ 221 \in 1 .. Len(e)
  BY <1>1
<1>3. t[221] = Coded(sp, <<Space>>)
  BY <1>1, <1>2
<1> HIDE DEF t, e, sp
<1>4. Tokenizers[name].is_byte_encoded = (Len(t[221]) = 2 /\ t[221][1] = 196)
  <2>1. Token(t, 220) = t[221]
    BY <1>2 DEF Token
  <2> DEFINE A == Token(t, 220)
  <2>2. Load(t).is_byte_encoded = (Len(A) = 2 /\ A[1] = 196)
    BY DEF Load
  <2> HIDE DEF A
  <2>3. A = t[221]
    BY <2>1 DEF A
  <2>4. (Len(A) = 2 /\ A[1] = 196) = (Len(t[221]) = 2 /\ t[221][1] = 196)
    BY <2>3, Zenon
  <2> QED
    BY <1>1, <2>2, <2>4, Zenon
<1>5. CASE ~sp
  <2>1. t[221] = <<Space>>
    BY <1>3, <1>5 DEF Coded
  <2>2. Len(t[221]) = 1
    BY <2>1
  <2> QED
    BY <1>1, <1>4, <1>5, <2>2 DEF sp
<1>6. CASE sp
  <2>1. byte_to_unicode[Space] = 288
    <3> DEFINE Low == {b \in 0 .. Space - 1 : b \notin Printable}
    <3>1. byte_to_unicode[Space] = IF Space \in Printable THEN Space
                                   ELSE 256 + Cardinality(Low)
      BY DEF byte_to_unicode, Space, Bytes
    <3>2. Low = 0 .. 31 /\ Space \notin Printable
      BY DEF Space, Printable
    <3>3. Cardinality(0 .. 31) = 32
      <4>1. \A b \in Nat : Cardinality(0 .. b) = IF 0 > b THEN 0 ELSE b - 0 + 1
        BY FS_Interval
      <4> DEFINE b == 31
      <4>2. b \in Nat /\ ~(0 > b) /\ b - 0 + 1 = 32
        OBVIOUS
      <4> HIDE DEF b
      <4>3. Cardinality(0 .. b) = 32
        BY <4>1, <4>2
      <4> QED
        BY <4>3 DEF b
    <3> HIDE DEF Low
    <3> QED
      BY <3>1, <3>2, <3>3
  <2>2. Space \in Bytes /\ <<Space>> \in Seq(Bytes) /\ Len(<<Space>>) = 1
        /\ <<Space>>[1] = Space
    BY DEF Space, Bytes
  <2> DEFINE u == <<Space>>
             d == Coded(sp, u)
             f == EncodeByte(Space)
  <2>3. PICK p : Places(sp, d, u, p)
    BY <1>1, <2>2, CodedPlaces
  <2>4. CodeOf(sp, Space) = f
    BY <1>6 DEF CodeOf
  <2> HIDE DEF u, d
  <2>5. Len(u) = 1 /\ u[1] = Space
    BY <2>2 DEF u
  <2>6. p[0] = 0 /\ p[1] = Len(d) /\ p[1] = p[1 - 1] + Len(f)
        /\ \A k \in 1 .. Len(f) : d[p[1 - 1] + k] = f[k]
    <3>1. 1 \in 1 .. Len(u)
      BY <2>5
    <3> QED
      BY <2>3, <2>4, <2>5, <3>1 DEF Places
  <2>7. Len(f) = 2 /\ f[1] = 196
    BY <2>1 DEF EncodeByte
  <2> HIDE DEF f
  <2>8. 1 - 1 = 0 /\ 0 + 2 = 2 /\ 0 + 1 = 1 /\ 1 \in 1 .. 2
    OBVIOUS
  <2>9. Len(d) = 2 /\ d[1] = 196
    BY <2>6, <2>7, <2>8
  <2> QED
    BY <1>1, <1>3, <1>4, <1>6, <2>9 DEF sp, d, u
<1> QED
  BY <1>5, <1>6

\* A token is printed as the string of its entry.
LEMMA TokenPrinted ==
  ASSUME NEW name \in DOMAIN Files, NEW id \in 0 .. Len(Files[name].entries) - 1,
         NEW u \in Seq(Bytes \ {0}), Files[name].entries[id + 1] = u
  PROVE  DecodeToBytes(Tokenizers[name], id) = u
<1> DEFINE e   == Files[name].entries
           sp  == Files[name].spelled
           tok == Tokenizers[name]
           c   == Coded(sp, u)
<1>1. u \in Seq(Bytes)
  BY SeqMonotonic
<1>2. /\ sp \in BOOLEAN /\ Len(e) \in Nat /\ Strings(name)[id + 1] = c
      /\ tok = Load(Strings(name)) /\ Len(Strings(name)) = Len(e)
      /\ tok.is_byte_encoded = sp
  <2>1. /\ sp \in BOOLEAN /\ Len(e) \in Nat /\ tok = Load(Strings(name))
        /\ Len(Strings(name)) = Len(e)
        /\ \A k \in 1 .. Len(e) : Strings(name)[k] = Coded(sp, e[k])
    BY StringsAre
  <2>2. id + 1 \in 1 .. Len(e)
    BY <2>1
  <2> QED
    BY <2>1, <2>2, SpellingKnown
<1>3. Decode(tok, id) = c
  <2>1. tok.id_to_token = Strings(name)
    BY <1>2 DEF Load
  <2> QED
    BY <1>2, <2>1 DEF Decode, Token
<1>4. PICK p : Places(sp, c, u, p)
  BY <1>1, <1>2, CodedPlaces
<1>5. \A i \in 1 .. Len(c) : c[i] # 0
  <2>1. ASSUME NEW i \in 1 .. Len(c) PROVE c[i] # 0
    <3>1. PICK n \in 1 .. Len(u) : p[n - 1] < i /\ i <= p[n]
      BY <1>2, <1>4, PlacesOrder
    <3> DEFINE d == CodeOf(sp, u[n])
               l == Len(d)
               g == p[n - 1]
    <3>2. u[n] \in Bytes \ {0}
      BY ElementOfSeq
    <3>3. /\ p[n] = g + l /\ g \in Nat
          /\ \A k \in 1 .. l : c[g + k] = d[k]
      <4>1. n - 1 \in 0 .. Len(u)
        BY <1>1, LenProperties
      <4> QED
        BY <1>4, <4>1 DEF Places
    <3>4. l \in {1, 2} /\ \A k \in 1 .. l : d[k] # 0
      BY <1>2, <3>2, CodeOfTells
    <3>5. i \in Nat
      BY <1>4, LenProperties DEF Places
    <3>6. g < i /\ i <= g + l
      BY <3>1, <3>3
    <3> HIDE DEF g, l, d
    <3>7. i - g \in 1 .. l /\ g + (i - g) = i
      BY <3>3, <3>4, <3>5, <3>6
    <3>8. c[g + (i - g)] = d[i - g] /\ d[i - g] # 0
      BY <3>3, <3>4, <3>7
    <3> QED
      BY <3>7, <3>8
  <2> QED
    BY <2>1
<1>6. CString(c) = c
  <2>1. {i \in 1 .. Len(c) : c[i] = 0} = {}
    BY <1>5
  <2> QED
    BY <2>1 DEF CString
<1>7. DecodeToBytes(tok, id) = IF sp THEN DecodeToken(c) ELSE c
  BY <1>2, <1>3, <1>6 DEF DecodeToBytes
<1>8. sp => DecodeToken(c) = u
  BY <1>1, SpellingRead DEF Coded
<1>9. ~sp => c = u
  BY DEF Coded
<1> HIDE DEF c, tok, sp
<1> QED
  BY <1>2, <1>7, <1>8, <1>9 DEF tok

-----------------------------------------------------------------------------
(* The longest tokens of a word.                                           *)

\* What a look-up finds of any string of bytes, a spelling or not.
LEMMA LookupString ==
  ASSUME NEW name \in DOMAIN Files, NEW z \in Seq(Bytes)
  PROVE  LET n  == Len(Files[name].entries)
             id == Lookup(Tokenizers[name], z)
         IN  /\ id \in -1 .. n - 1
             /\ id # Empty => id \in 0 .. n - 1 /\ Strings(name)[id + 1] = z
             /\ id = Empty => \A k \in 1 .. n : Strings(name)[k] # z
<1> DEFINE n  == Len(Files[name].entries)
           t  == Strings(name)
           id == Lookup(Tokenizers[name], z)
           T  == {k \in 1 .. n : t[k] = z}
<1>1. /\ n \in Nat /\ n < HtSize /\ t \in Seq(Seq(Bytes)) /\ Len(t) = n
      /\ id = Lookup(Load(t), z)
  BY StringsAre
<1> HIDE DEF n, t, id
<1>2. /\ (\A k \in 1 .. n : t[k] # z) => id = Empty
      /\ \A k \in 1 .. n :
           t[k] = z /\ (\A j \in 1 .. k - 1 : t[j] # z) => id = k - 1
  BY <1>1, LookupFinds
<1>3. CASE T = {}
  <2>1. \A k \in 1 .. n : t[k] # z
    BY <1>3
  <2>2. id = Empty
    BY <1>2, <2>1
  <2> QED
    BY <1>1, <2>1, <2>2 DEF Empty, n, t, id
<1>4. CASE T # {}
  <2>1. PICK k \in T : \A l \in 0 .. k - 1 : l \notin T
    <3>1. T \in SUBSET Nat
      BY <1>1
    <3> HIDE DEF T
    <3> QED
      BY <1>4, <3>1, LeastIs
  <2>2. \A j \in 1 .. k - 1 : j \in 0 .. k - 1 /\ j \in 1 .. n
    BY <1>1
  <2>3. \A j \in 1 .. k - 1 : t[j] # z
    BY <2>1, <2>2
  <2>4. id = k - 1 /\ k \in 1 .. n /\ t[k] = z
    BY <1>2, <2>3
  <2>5. id \in 0 .. n - 1 /\ id \in -1 .. n - 1 /\ id + 1 = k /\ id # -1
    BY <1>1, <2>4
  <2> QED
    BY <2>4, <2>5 DEF Empty, n, t, id
<1> QED
  BY <1>3, <1>4

\* The longest token at a place of a string.
LEMMA EndsAre ==
  ASSUME NEW tok, NEW s, Len(s) \in Nat, NEW i \in Nat \ {0}
  PROVE  /\ Ends(tok, s, i) \in SUBSET (i .. Len(s))
         /\ Ends(tok, s, i) # {} =>
              /\ Max(Ends(tok, s, i)) \in Ends(tok, s, i)
              /\ Max(Ends(tok, s, i)) \in i .. Len(s)
              /\ Lookup(tok, SubSeq(s, i, Max(Ends(tok, s, i)))) # Empty
<1> DEFINE T == Ends(tok, s, i)
<1>1. T \in SUBSET (i .. Len(s))
      /\ \A j \in T : Lookup(tok, SubSeq(s, i, j)) # Empty
  BY DEF Ends
<1> HIDE DEF T
<1>2. IsFiniteSet(T) /\ T \subseteq Nat
  <2>1. IsFiniteSet(i .. Len(s))
    BY FS_Interval
  <2>2. IsFiniteSet(T)
    BY <1>1, <2>1, FS_Subset
  <2> QED
    BY <1>1, <2>2
<1>3. T # {} => Max(T) \in T
  BY <1>2, LargestNumber DEF Max
<1>4. T # {} => Max(T) \in i .. Len(s) /\ Lookup(tok, SubSeq(s, i, Max(T))) # Empty
  BY <1>1, <1>3
<1> QED
  BY <1>1, <1>3, <1>4 DEF T

\* The loop over the bytes of a word.
LEMMA GreedyLoop ==
  ASSUME NEW name \in DOMAIN Files, NEW s \in Seq(Bytes), NEW max \in Nat
  PROVE  \E r : /\ r \in [0 .. Len(s) -> [i : Nat \ {0}, out : Seq(Int)]]
                /\ r[0] = At(1, <<>>)
                /\ \A m \in 1 .. Len(s) : r[m] = GreedyRound(Tokenizers[name], s, max, r[m - 1])
                /\ Greedy(Tokenizers[name], s, max) = r[Len(s)].out
<1> DEFINE n == Len(s)
           V == [i : Nat \ {0}, out : Seq(Int)]
           v == At(1, <<>>)
           T(x, m) == GreedyRound(Tokenizers[name], s, max, x)
           S == [m \in 0 + 1 .. n |-> [x \in V |-> T(x, m)]]
           Def(f) == f = [m \in 0 .. n |-> IF m = 0 THEN v ELSE T(f[m - 1], m)]
           r == CHOOSE f : Def(f)
<1>1. n \in Nat /\ v \in V
  BY LenProperties, EmptySeq DEF At
<1>2. ASSUME NEW m \in 1 .. n, NEW x \in V PROVE T(x, m) \in V
  <2> DEFINE tok == Tokenizers[name]
             e   == Ends(tok, s, x.i)
             id  == Lookup(tok, SubSeq(s, x.i, Max(e)))
  <2>1. x.i \in Nat \ {0} /\ x.out \in Seq(Int) /\ Len(s) \in Nat
    BY <1>1
  <2>2. CASE x.i > Len(s) \/ Len(x.out) >= max
    BY <2>2 DEF GreedyRound
  <2>3. CASE x.i <= Len(s) /\ Len(x.out) < max /\ e = {}
    <3>1. ~(x.i > Len(s) \/ Len(x.out) >= max)
      <4>1. Len(x.out) \in Nat
        BY <2>1, LenProperties
      <4> QED
        BY <2>1, <2>3, <4>1
    <3>2. T(x, m) = At(x.i + 1, x.out)
      BY <2>3, <3>1 DEF GreedyRound
    <3> QED
      BY <2>1, <3>2 DEF At
  <2>4. CASE ~(x.i > Len(s) \/ Len(x.out) >= max) /\ e # {}
    <3>1. T(x, m) = At(Max(e) + 1, Append(x.out, id))
      BY <2>4 DEF GreedyRound
    <3>2. Max(e) \in x.i .. Len(s)
      BY <2>1, <2>4, EndsAre
    <3>3. SubSeq(s, x.i, Max(e)) \in Seq(Bytes)
      <4> DEFINE i == x.i
                 j == Max(e)
      <4>1. i \in Int /\ j \in Int /\ 1 <= i /\ i <= j + 1 /\ j <= Len(s)
        BY <2>1, <3>2
      <4> HIDE DEF i, j, e
      <4>2. SubSeq(s, i, j) \in Seq(Bytes)
        BY <4>1, SliceIs
      <4> QED
        BY <4>2 DEF i, j
    <3>4. id \in Int
      <4> DEFINE z == SubSeq(s, x.i, Max(e))
      <4>1. z \in Seq(Bytes)
        BY <3>3
      <4> HIDE DEF z, e
      <4>2. Lookup(tok, z) \in -1 .. Len(Files[name].entries) - 1
        BY <4>1, LookupString
      <4>3. Len(Files[name].entries) \in Nat
        BY StringsAre
      <4> QED
        BY <4>2, <4>3 DEF z
    <3> HIDE DEF id, e
    <3>5. Append(x.out, id) \in Seq(Int)
      BY <2>1, <3>4, AppendProperties
    <3> QED
      BY <2>1, <3>1, <3>2, <3>5 DEF At
  <2>5. ~(x.i > Len(s) \/ Len(x.out) >= max) => x.i <= Len(s) /\ Len(x.out) < max
    <3>1. Len(x.out) \in Nat
      BY <2>1, LenProperties
    <3> QED
      BY <2>1, <3>1
  <2> HIDE DEF e
  <2> QED
    BY <2>2, <2>3, <2>4, <2>5
<1>3. 0 \in Int /\ n \in Int /\ 0 <= n /\ 0 + 1 .. n = 1 .. n
  BY <1>1
<1>4. Greedy(Tokenizers[name], s, max) = r[Len(s)].out
  BY DEF Greedy
<1> HIDE DEF n, V, v, T
<1>5. S \in [0 + 1 .. n -> [V -> V]]
  BY <1>2, <1>3
<1>6. \A m \in 0 .. n : m = 0 \/ (m \in 1 .. n /\ m - 1 \in 0 .. n)
  BY <1>1
<1>7. \E f : Def(f)
  <2>1. PICK f : LoopIs(f, V, v, 0, n, S)
    <3> HIDE DEF S
    <3> QED
      BY <1>1, <1>3, <1>5, LoopExists
  <2>2. /\ f \in [0 .. n -> V] /\ f[0] = v
        /\ \A m \in 1 .. n : f[m] = S[m][f[m - 1]]
    <3> HIDE DEF S
    <3> QED
      BY <1>3, <2>1 DEF LoopIs
  <2>3. \A m \in 1 .. n : S[m][f[m - 1]] = T(f[m - 1], m)
    BY <1>3, <1>6, <2>2
  <2> HIDE DEF S
  <2>4. \A m \in 0 .. n : f[m] = IF m = 0 THEN v ELSE T(f[m - 1], m)
    BY <1>6, <2>2, <2>3
  <2> QED
    BY <2>2, <2>4
<1>8. Def(r)
  <2> HIDE DEF Def
  <2> QED
    BY <1>7
<1> HIDE DEF r
<1>9. r[0] = v /\ \A m \in 1 .. n : r[m] = T(r[m - 1], m)
  <2>1. 0 \in 0 .. n /\ \A m \in 1 .. n : m \in 0 .. n /\ m # 0
    BY <1>1
  <2> QED
    BY <1>8, <2>1
<1>10. r \in [0 .. n -> V]
  <2> DEFINE P == {m \in 0 .. n : r[m] \in V}
  <2>1. 0 \in P /\ \A m \in 0 + 1 .. n : m - 1 \in P => m \in P
    BY <1>1, <1>2, <1>3, <1>6, <1>9
  <2>2. 0 .. n \subseteq P
    <3> HIDE DEF P
    <3> QED
      BY <1>3, <2>1, IntervalInduction
  <2> QED
    BY <1>8, <2>2
<1> QED
  BY <1>4, <1>9, <1>10 DEF n, V, v, T

\* The spelling of one byte.
LEMMA CodedOne ==
  ASSUME NEW sp \in BOOLEAN, NEW b \in Bytes
  PROVE  Coded(sp, <<b>>) = CodeOf(sp, b) /\ Coded(sp, <<>>) = <<>>
<1> DEFINE u == <<b>>
<1>1. u \in Seq(Bytes) /\ Len(u) = 1 /\ u[1] = b
  OBVIOUS
<1>2. CASE ~sp
  BY <1>2 DEF Coded, CodeOf
<1>3. CASE sp
  <2> HIDE DEF u
  <2>1. PICK r : /\ r[0] = <<>>
                 /\ \A m \in 1 .. Len(u) : r[m] = r[m - 1] \o EncodeByte(u[m])
                 /\ EncodeText(u) = r[Len(u)]
    BY <1>1, EncodeTextLoop
  <2>2. 1 \in 1 .. Len(u) /\ 1 - 1 = 0
    BY <1>1
  <2>3. r[1] = <<>> \o EncodeByte(b)
    BY <1>1, <2>1, <2>2
  <2>4. EncodeByte(b) \in Seq(Bytes)
    BY CodeTells
  <2>5. EncodeText(u) = EncodeByte(b)
    BY <1>1, <2>1, <2>3, <2>4, ConcatEmptySeq
  <2>6. <<>> \in Seq(Bytes) /\ Len(<<>>) = 0
    BY EmptySeq
  <2>7. EncodeText(<<>>) = <<>>
    BY <2>6, EncodeTextLoop
  <2> QED
    BY <1>3, <2>5, <2>7 DEF Coded, CodeOf, u
<1> QED
  BY <1>2, <1>3

\* The string e is the part of s whose code lies at i to j.
Occurs(s, p, e, i, j) ==
  \E a \in 0 .. Len(s) - 1 : \E b \in a + 1 .. Len(s) :
    i = p[a] + 1 /\ j = p[b] /\ e = SubSeq(s, a + 1, b)

\* CodeMatches, in these words.
LEMMA CodeOccurs ==
  ASSUME NEW sp \in BOOLEAN, NEW c, NEW s, NEW p, Places(sp, c, s, p),
         NEW d, NEW e, NEW q, Places(sp, d, e, q), e # <<>>,
         NEW i \in 1 .. Len(c), NEW j \in i .. Len(c), SubSeq(c, i, j) = d
  PROVE  Occurs(s, p, e, i, j)
  BY CodeMatches DEF Occurs

\* A token found in the spelling of a word is a part of the word.
LEMMA TokenInWord ==
  ASSUME NEW name \in DOMAIN Files, NEW word, NEW c, NEW p,
         Places(Files[name].spelled, c, word, p),
         NEW i \in 1 .. Len(c), NEW j \in i .. Len(c),
         Lookup(Tokenizers[name], SubSeq(c, i, j)) # Empty
  PROVE  LET id == Lookup(Tokenizers[name], SubSeq(c, i, j))
         IN  /\ id \in 0 .. Len(Files[name].entries) - 1
             /\ \E a \in 0 .. Len(word) - 1 : \E b \in a + 1 .. Len(word) :
                  /\ i = p[a] + 1 /\ j = p[b]
                  /\ Files[name].entries[id + 1] = SubSeq(word, a + 1, b)
<1> DEFINE z  == SubSeq(c, i, j)
           id == Lookup(Tokenizers[name], z)
           sp == Files[name].spelled
           e  == Files[name].entries[id + 1]
<1>1. c \in Seq(Bytes) /\ Len(c) \in Nat
  BY LenProperties DEF Places
<1>2. z \in Seq(Bytes) /\ Len(z) = j - i + 1
  <2>1. i \in Int /\ j \in Int /\ 1 <= i /\ i <= j + 1 /\ j <= Len(c)
    BY <1>1
  <2> QED
    BY <1>1, <2>1, SliceIs
<1>3. id \in 0 .. Len(Files[name].entries) - 1 /\ Strings(name)[id + 1] = z
  <2> HIDE DEF z
  <2> QED
    BY <1>2, LookupString DEF z
<1>4. id + 1 \in 1 .. Len(Files[name].entries) /\ sp \in BOOLEAN
  <2> DEFINE n == Len(Files[name].entries)
  <2>1. n \in Nat /\ sp \in BOOLEAN /\ id \in 0 .. n - 1
    BY <1>3, StringsAre
  <2> HIDE DEF n, id, sp
  <2>2. id + 1 \in 1 .. n
    BY <2>1
  <2> QED
    BY <2>1, <2>2 DEF n
<1>5. e \in Seq(Bytes) /\ z = Coded(sp, e)
  <2>1. \A k \in 1 .. Len(Files[name].entries) :
          /\ Files[name].entries[k] \in Seq(Bytes)
          /\ Strings(name)[k] = Coded(sp, Files[name].entries[k])
    BY StringsAre
  <2> QED
    BY <1>3, <1>4, <2>1
<1>6. Places(sp, c, word, p)
  OBVIOUS
<1> HIDE DEF e, sp
<1>7. PICK q : Places(sp, z, e, q)
  BY <1>4, <1>5, CodedPlaces
<1>8. e # <<>>
  <2>1. Len(z) # 0
    BY <1>1, <1>2
  <2>2. Coded(sp, <<>>) = <<>> /\ Len(<<>>) = 0
    <3>1. 0 \in Bytes
      BY DEF Bytes
    <3> QED
      BY <1>4, <3>1, CodedOne
  <2> QED
    BY <1>5, <2>1, <2>2
<1>9. Occurs(word, p, e, i, j)
  <2>1. SubSeq(c, i, j) = z /\ sp \in BOOLEAN
    BY <1>4
  <2> HIDE DEF z
  <2> QED
    BY <1>6, <1>7, <1>8, <2>1, CodeOccurs
<1> QED
  BY <1>3, <1>9 DEF e, Occurs

\* A byte with a token of its own is found where its code is.
LEMMA ByteFound ==
  ASSUME NEW name \in DOMAIN Files, NEW word \in Seq(Bytes), NEW c, NEW p,
         Places(Files[name].spelled, c, word, p),
         NEW n \in 1 .. Len(word), HasToken(name, word[n])
  PROVE  Lookup(Tokenizers[name], SubSeq(c, p[n - 1] + 1, p[n])) # Empty
<1> DEFINE sp == Files[name].spelled
           g == p[n - 1]
           h == p[n]
           z == SubSeq(c, g + 1, h)
           d == CodeOf(sp, word[n])
           l == Len(d)
<1>1. /\ sp \in BOOLEAN
      /\ DOMAIN Files[name].entries = 1 .. Len(Files[name].entries)
      /\ \A k \in 1 .. Len(Files[name].entries) :
           Strings(name)[k] = Coded(sp, Files[name].entries[k])
  BY StringsAre
<1>2. /\ c \in Seq(Bytes) /\ Len(c) \in Nat /\ Len(word) \in Nat
      /\ g \in Nat /\ h = g + l /\ \A k \in 1 .. l : c[g + k] = d[k]
  <2>1. n - 1 \in 0 .. Len(word) /\ Len(word) \in Nat
    BY LenProperties
  <2> QED
    BY <2>1, LenProperties DEF Places
<1>3. word[n] \in Bytes
  BY ElementOfSeq
<1>4. d \in Seq(Bytes) /\ l \in {1, 2}
  BY <1>1, <1>3, CodeOfTells
<1>5. h + (Len(word) - n) <= Len(c)
  <2>1. n \in 0 .. Len(word) /\ Len(word) \in 0 .. Len(word) /\ n <= Len(word)
    BY <1>2
  <2>2. p[n] + (Len(word) - n) <= p[Len(word)]
    BY <1>1, <2>1, PlacesOrder
  <2> QED
    BY <2>2 DEF Places
<1>6. PICK k \in 1 .. Len(Files[name].entries) : Files[name].entries[k] = <<word[n]>>
  BY <1>1 DEF HasToken
<1>7. Strings(name)[k] = d
  BY <1>1, <1>3, <1>6, CodedOne
<1> HIDE DEF g, h, l
<1>8. l \in Nat /\ h <= Len(c)
  BY <1>2, <1>4, <1>5
<1>9. z \in Seq(Bytes) /\ Len(z) = l /\ \A m \in 1 .. l : z[m] = d[m]
  <2>1. /\ g + 1 \in Int /\ h \in Int /\ 1 <= g + 1 /\ g + 1 <= h + 1 /\ h <= Len(c)
        /\ h - (g + 1) + 1 = l /\ \A m \in 1 .. l : (g + 1) + m - 1 = g + m
    BY <1>2, <1>8
  <2>2. /\ z \in Seq(Bytes) /\ Len(z) = h - (g + 1) + 1
        /\ \A m \in 1 .. h - (g + 1) + 1 : z[m] = c[(g + 1) + m - 1]
    <3> DEFINE f == g + 1
    <3>1. f \in Int /\ h \in Int /\ 1 <= f /\ f <= h + 1 /\ h <= Len(c)
      BY <2>1
    <3> HIDE DEF f
    <3>2. /\ SubSeq(c, f, h) \in Seq(Bytes) /\ Len(SubSeq(c, f, h)) = h - f + 1
          /\ \A m \in 1 .. h - f + 1 : SubSeq(c, f, h)[m] = c[f + m - 1]
      BY <1>2, <3>1, SliceIs
    <3> QED
      BY <3>2 DEF f
  <2> HIDE DEF z, d
  <2> QED
    BY <1>2, <2>1, <2>2
<1>10. z = d
  <2>1. Len(d) = l
    BY DEF l
  <2> HIDE DEF z, d
  <2> QED
    BY <1>4, <1>9, <2>1, SeqEqual
<1> HIDE DEF z, d
<1>11. Strings(name)[k] = z
  BY <1>7, <1>10
<1>12. Lookup(Tokenizers[name], z) # Empty
  BY <1>9, <1>11, LookupString
<1> QED
  BY <1>12 DEF z, g, h

\* The tokens put out show the first a bytes of the word, and the position is
\* behind the code of byte a, or within it when no token starts with it.
Kept(name, word, p, out, i) ==
  /\ out \in Seq(Decodable(Tokenizers[name]))
  /\ \E a \in 0 .. Len(word) :
       /\ Shows(name, Printed(Tokenizers[name], out), word, 0, a)
       /\ \/ i = p[a] + 1
          \/ a # 0 /\ i = p[a] /\ p[a] = p[a - 1] + 2

\* A round of this loop keeps what has been shown.
LEMMA GreedyStep ==
  ASSUME NEW name \in DOMAIN Files, NEW word \in Seq(Bytes \ {0}), NEW c, NEW p,
         Places(Files[name].spelled, c, word, p),
         NEW out, NEW i \in 1 .. Len(c), Kept(name, word, p, out, i)
  PROVE  LET tok == Tokenizers[name]
             e   == Ends(tok, c, i)
         IN  /\ e = {} => Kept(name, word, p, out, i + 1)
             /\ e # {} =>
                  /\ Max(e) \in i .. Len(c)
                  /\ Kept(name, word, p,
                          Append(out, Lookup(tok, SubSeq(c, i, Max(e)))),
                          Max(e) + 1)
<1> DEFINE tok == Tokenizers[name]
           e   == Ends(tok, c, i)
           sp  == Files[name].spelled
           N   == Len(word)
           z   == Len(c)
           x   == Printed(tok, out)
<1>1. /\ word \in Seq(Bytes) /\ N \in Nat /\ z \in Nat /\ i \in Nat /\ sp \in BOOLEAN
      /\ p[0] = 0 /\ p[N] = z /\ \A n \in 0 .. N : p[n] \in Nat
  <2>1. sp \in BOOLEAN
    BY StringsAre
  <2>2. c \in Seq(Bytes) /\ word \in Seq(Bytes) /\ p \in [0 .. N -> Nat]
        /\ p[0] = 0 /\ p[N] = z
    BY DEF Places
  <2> QED
    BY <2>1, <2>2, LenProperties
<1>2. \A u, v \in 0 .. N : u <= v => p[u] + (v - u) <= p[v]
  BY <1>1, PlacesOrder
<1>3. /\ e \in SUBSET (i .. z)
      /\ e # {} => Max(e) \in e /\ Max(e) \in i .. z
                   /\ Lookup(tok, SubSeq(c, i, Max(e))) # Empty
  BY <1>1, EndsAre
<1>4. ASSUME NEW j \in e
      PROVE  \E u \in 0 .. N - 1 : i = p[u] + 1
  <2>1. j \in i .. z /\ Lookup(tok, SubSeq(c, i, j)) # Empty
    BY DEF Ends
  <2> DEFINE id == Lookup(tok, SubSeq(c, i, j))
  <2>2. \E u \in 0 .. N - 1 : \E b \in u + 1 .. N :
          /\ i = p[u] + 1 /\ j = p[b]
          /\ Files[name].entries[id + 1] = SubSeq(word, u + 1, b)
    <3> DEFINE Part(u, b) == /\ i = p[u] + 1 /\ j = p[b]
                            /\ Files[name].entries[id + 1] = SubSeq(word, u + 1, b)
    <3>1. j \in i .. Len(c) /\ Lookup(Tokenizers[name], SubSeq(c, i, j)) # Empty
      BY <2>1
    <3>2. \E u \in 0 .. Len(word) - 1 : \E b \in u + 1 .. Len(word) : Part(u, b)
      <4> HIDE DEF e, tok, z, N
      <4> QED
        BY <1>1, <3>1, TokenInWord DEF tok
    <3> QED
      BY <3>2
  <2> HIDE DEF id, e
  <2> QED
    BY <2>2
<1>5. PICK a \in 0 .. N : /\ Shows(name, x, word, 0, a)
                          /\ \/ i = p[a] + 1
                             \/ a # 0 /\ i = p[a] /\ p[a] = p[a - 1] + 2
  BY DEF Kept
<1>6. out \in Seq(Decodable(tok)) /\ x \in Seq(Bytes)
  BY <1>5 DEF Kept, Shows
<1>7. a \in Nat /\ a \in Int /\ 0 <= a /\ 0 \in Int
  BY <1>1
<1>8. CASE a # 0 /\ i = p[a] /\ p[a] = p[a - 1] + 2
  <2>1. e = {}
    <3> SUFFICES ASSUME e # {} PROVE FALSE
      OBVIOUS
    <3>1. PICK u \in 0 .. N - 1 : i = p[u] + 1
      BY <1>4
    <3>2. u \in 0 .. N /\ a - 1 \in 0 .. N /\ u \in Int /\ a \in 0 .. N
      BY <1>1, <1>7, <1>8
    <3> DEFINE s == p[u]
               t == p[a]
               w == p[a - 1]
    <3>3. s \in Nat /\ t \in Nat /\ w \in Nat /\ t = w + 2 /\ t = s + 1
      BY <1>1, <1>8, <3>1, <3>2
    <3>4. /\ u <= a - 1 => s + ((a - 1) - u) <= w
          /\ a <= u => t + (u - a) <= s
      BY <1>2, <3>2
    <3> HIDE DEF s, t, w
    <3> QED
      BY <1>7, <3>2, <3>3, <3>4
  <2>2. i + 1 = p[a] + 1
    BY <1>8
  <2>3. Kept(name, word, p, out, i + 1)
    BY <1>5, <1>6, <2>2 DEF Kept
  <2> QED
    BY <2>1, <2>3
<1>9. CASE i = p[a] + 1
  <2>1. a # N
    <3>1. a = N => i = z + 1
      BY <1>1, <1>9
    <3> QED
      BY <1>1, <3>1
  <2>2. /\ a + 1 \in 1 .. N /\ a + 1 \in 0 .. N /\ (a + 1) - 1 = a /\ a + 1 # 0
        /\ a <= a + 1 /\ a + 1 \in Int
    BY <1>1, <1>7, <2>1
  <2>3. ASSUME e = {} PROVE Kept(name, word, p, out, i + 1)
    <3> DEFINE g == p[a]
               h == p[a + 1]
               l == Len(CodeOf(sp, word[a + 1]))
    <3>1. h = g + l /\ g \in Nat /\ i = g + 1 /\ h \in Nat
      BY <1>1, <1>9, <2>2 DEF Places
    <3>2. l \in {1, 2}
      <4>1. word[a + 1] \in Bytes
        BY <1>1, <2>2, ElementOfSeq
      <4> QED
        BY <1>1, <4>1, CodeOfTells
    <3>3. h <= z
      <4>1. N \in 0 .. N /\ a + 1 <= N
        BY <1>1, <2>2
      <4>2. p[a + 1] + (N - (a + 1)) <= p[N]
        BY <1>2, <2>2, <4>1
      <4>3. h + (N - (a + 1)) <= z
        BY <1>1, <4>2
      <4> HIDE DEF h
      <4> QED
        BY <1>1, <3>1, <4>1, <4>3
    <3>4. ~HasToken(name, word[a + 1])
      <4> SUFFICES ASSUME HasToken(name, word[a + 1]) PROVE FALSE
        OBVIOUS
      <4>1. Lookup(tok, SubSeq(c, p[(a + 1) - 1] + 1, p[a + 1])) # Empty
        BY <1>1, <2>2, ByteFound
      <4>2. Lookup(tok, SubSeq(c, i, h)) # Empty
        BY <1>9, <2>2, <4>1
      <4>3. h \in i .. z
        <5> HIDE DEF g, h, l, z
        <5> QED
          BY <1>1, <3>1, <3>2, <3>3
      <4>4. h \in e
        BY <4>2, <4>3 DEF Ends
      <4> QED
        BY <2>3, <4>4
    <3>5. Shows(name, <<>>, word, a, a + 1)
      BY <1>7, <3>4, ShowsNone
    <3>6. Shows(name, x \o <<>>, word, 0, a + 1)
      BY <1>5, <1>7, <2>2, <3>5, ShowsJoin
    <3>7. x \o <<>> = x
      BY <1>6, ConcatEmptySeq
    <3>8. Shows(name, x, word, 0, a + 1)
      BY <3>6, <3>7
    <3>9. i + 1 = h + 1 \/ (i + 1 = h /\ h = g + 2)
      <4> HIDE DEF g, h, l
      <4> QED
        BY <3>1, <3>2
    <3>10. i + 1 = p[a + 1] + 1
           \/ (a + 1 # 0 /\ i + 1 = p[a + 1] /\ p[a + 1] = p[(a + 1) - 1] + 2)
      BY <2>2, <3>9
    <3> QED
      BY <1>6, <2>2, <3>8, <3>10 DEF Kept
  <2>4. ASSUME e # {}
        PROVE  Kept(name, word, p, Append(out, Lookup(tok, SubSeq(c, i, Max(e)))),
                    Max(e) + 1)
    <3> DEFINE j  == Max(e)
               id == Lookup(tok, SubSeq(c, i, j))
    <3>1. j \in i .. z /\ id # Empty
      BY <1>3, <2>4
    <3> HIDE DEF e, j
    <3>2. /\ id \in 0 .. Len(Files[name].entries) - 1
          /\ \E u \in 0 .. N - 1 : \E b \in u + 1 .. N :
               /\ i = p[u] + 1 /\ j = p[b]
               /\ Files[name].entries[id + 1] = SubSeq(word, u + 1, b)
      BY <1>1, <3>1, TokenInWord
    <3> HIDE DEF id
    <3>3. PICK u \in 0 .. N - 1 : \E b \in u + 1 .. N :
               /\ i = p[u] + 1 /\ j = p[b]
               /\ Files[name].entries[id + 1] = SubSeq(word, u + 1, b)
      BY <3>2
    <3>4. PICK b \in u + 1 .. N :
               /\ i = p[u] + 1 /\ j = p[b]
               /\ Files[name].entries[id + 1] = SubSeq(word, u + 1, b)
      BY <3>3
    <3>5. u = a
      <4>1. u \in 0 .. N /\ a \in 0 .. N /\ u \in Int
        BY <1>1
      <4> DEFINE s == p[u]
                 t == p[a]
      <4>2. s \in Nat /\ t \in Nat /\ s + 1 = t + 1
        BY <1>1, <1>9, <3>4, <4>1
      <4>3. /\ u <= a => s + (a - u) <= t
            /\ a <= u => t + (u - a) <= s
        BY <1>2, <4>1
      <4> HIDE DEF s, t
      <4> QED
        BY <1>7, <4>1, <4>2, <4>3
    <3> DEFINE y == SubSeq(word, a + 1, b)
    <3>6. b \in Nat /\ a <= b /\ b <= N /\ b \in 0 .. N /\ b \in Int
      BY <1>1, <1>7, <3>4, <3>5
    <3>7. y \in Seq(Bytes \ {0}) /\ y \in Seq(Bytes)
      <4>1. a + 1 \in Int /\ b \in Int /\ 1 <= a + 1 /\ a + 1 <= b + 1 /\ b <= Len(word)
        BY <1>7, <3>6
      <4> QED
        BY <1>1, <4>1, SliceIs
    <3>8. Shows(name, y, word, a, b)
      BY <1>1, <1>7, <3>6, ShowsAll
    <3> HIDE DEF y
    <3>9. Files[name].entries[id + 1] = y
      BY <3>4, <3>5 DEF y
    <3>10. DecodeToBytes(tok, id) = y
      BY <3>2, <3>7, <3>9, TokenPrinted
    <3>11. id \in Decodable(tok)
      BY <3>2, <3>7, <3>10 DEF Decodable
    <3> DEFINE nw == Append(out, id)
    <3>12. nw \in Seq(Decodable(tok)) /\ nw = out \o <<id>>
      BY <1>6, <3>11, AppendProperties, AppendIsConcat
    <3>13. Printed(tok, nw) = x \o y
      <4>1. <<id>> \in Seq(Decodable(tok))
        BY <3>11
      <4>2. Printed(tok, out \o <<id>>) = Printed(tok, out) \o Printed(tok, <<id>>)
        BY <1>6, <4>1, PrintedJoin
      <4>3. Printed(tok, <<id>>) = y
        BY <3>10, <3>11, PrintedOne
      <4> QED
        BY <3>12, <4>2, <4>3
    <3>14. Shows(name, x \o y, word, 0, b)
      BY <1>5, <1>7, <3>6, <3>8, ShowsJoin
    <3> HIDE DEF nw
    <3>15. j + 1 = p[b] + 1
      BY <3>4
    <3>16. Kept(name, word, p, nw, j + 1)
      BY <3>6, <3>12, <3>13, <3>14, <3>15 DEF Kept
    <3> QED
      BY <3>16 DEF nw, id, j
  <2> QED
    BY <1>3, <2>3, <2>4
<1> QED
  BY <1>5, <1>8, <1>9

\* The tokens out show the first n bytes of s, or as many as there was room for.
Told(name, s, out, n, max) ==
  /\ out \in Seq(Decodable(Tokenizers[name])) /\ Len(out) <= max
  /\ \E a \in 0 .. n :
       /\ Shows(name, Printed(Tokenizers[name], out), s, 0, a)
       /\ Len(out) < max => a = n

\* The state of the loop over the spelling c of a word after m rounds.
GreedyWalk(name, word, c, p, max, m, w) ==
  /\ w.i \in Nat \ {0} /\ Len(w.out) <= max
  /\ Kept(name, word, p, w.out, w.i)
  /\ w.i > m \/ w.i > Len(c) \/ Len(w.out) >= max

\* A round keeps this.
LEMMA GreedyRoundKeeps ==
  ASSUME NEW name \in DOMAIN Files, NEW word \in Seq(Bytes \ {0}), NEW c, NEW p,
         Places(Files[name].spelled, c, word, p), NEW max \in Nat,
         NEW m \in Nat, NEW w, GreedyWalk(name, word, c, p, max, m, w)
  PROVE  GreedyWalk(name, word, c, p, max, m + 1,
                    GreedyRound(Tokenizers[name], c, max, w))
<1> DEFINE tok == Tokenizers[name]
           i   == w.i
           out == w.out
           l   == Len(out)
           z   == Len(c)
           e   == Ends(tok, c, i)
           d   == Max(e)
           id  == Lookup(tok, SubSeq(c, i, d))
           r   == GreedyRound(tok, c, max, w)
           K(o, j) == Kept(name, word, p, o, j)
<1>1. /\ i \in Nat \ {0} /\ l <= max /\ K(out, i)
      /\ i > m \/ i > z \/ l >= max
  BY DEF GreedyWalk
<1>2. out \in Seq(Decodable(tok)) /\ l \in Nat
  <2>1. out \in Seq(Decodable(tok))
    BY <1>1 DEF Kept
  <2> QED
    BY <2>1, LenProperties
<1>3. z \in Nat
  <2>1. c \in Seq(Bytes)
    BY DEF Places
  <2> QED
    BY <2>1, LenProperties
<1>4. CASE i > z \/ l >= max
  <2>1. ~(i <= z /\ l < max)
    <3> HIDE DEF i, l, z
    <3> QED
      BY <1>1, <1>2, <1>3, <1>4
  <2>2. r = w
    BY <1>4, <2>1 DEF GreedyRound
  <2>3. w.i > Len(c) \/ Len(w.out) >= max
    BY <1>4
  <2>4. GreedyWalk(name, word, c, p, max, m + 1, w)
    BY <1>1, <2>3 DEF GreedyWalk
  <2> QED
    BY <2>2, <2>4
<1>5. CASE ~(i > z \/ l >= max)
  <2>1. i <= z /\ l < max /\ i > m /\ i \in 1 .. z
    <3> HIDE DEF i, l, z
    <3> QED
      BY <1>1, <1>2, <1>3, <1>5
  <2>2. /\ e = {} => K(out, i + 1)
        /\ e # {} => d \in i .. z /\ K(Append(out, id), d + 1)
    BY <1>1, <2>1, GreedyStep
  <2>3. CASE e = {}
    <3>1. r = At(i + 1, out)
      BY <1>5, <2>1, <2>3 DEF GreedyRound
    <3>2. r.i = i + 1 /\ r.out = out
      BY <3>1 DEF At
    <3> HIDE DEF r, e
    <3>3. i + 1 \in Nat \ {0} /\ i + 1 > m + 1
      <4> HIDE DEF i
      <4> QED
        BY <1>1, <2>1
    <3>4. K(r.out, r.i) /\ Len(r.out) <= max
      BY <1>1, <2>2, <2>3, <3>2
    <3>5. r.i \in Nat \ {0} /\ r.i > m + 1
      BY <3>2, <3>3
    <3>6. GreedyWalk(name, word, c, p, max, m + 1, r)
      BY <3>4, <3>5 DEF GreedyWalk
    <3> QED
      BY <3>6 DEF r
  <2>4. CASE e # {}
    <3>1. r = At(d + 1, Append(out, id))
      BY <1>5, <2>1, <2>4 DEF GreedyRound
    <3>2. r.i = d + 1 /\ r.out = Append(out, id)
      BY <3>1 DEF At
    <3>3. d \in i .. z /\ K(Append(out, id), d + 1)
      BY <2>2, <2>4
    <3> HIDE DEF r, e, d, id
    <3>4. d + 1 \in Nat \ {0} /\ d + 1 > m + 1
      <4> HIDE DEF i, z
      <4> QED
        BY <1>1, <1>3, <2>1, <3>3
    <3>5. Len(Append(out, id)) = l + 1
      <4> DEFINE o == Append(out, id)
      <4>1. K(o, d + 1)
        BY <3>3
      <4>2. out \in Seq(Decodable(tok) \cup {id})
        <5> DEFINE S == Decodable(tok)
        <5>1. out \in Seq(S)
          BY <1>2
        <5>2. S \subseteq S \cup {id}
          OBVIOUS
        <5>3. Seq(S) \subseteq Seq(S \cup {id})
          <6> HIDE DEF S
          <6> QED
            BY <5>2
        <5> QED
          BY <5>1, <5>3
      <4> QED
        BY <4>2, AppendProperties
    <3>6. l + 1 <= max
      <4> HIDE DEF l
      <4> QED
        BY <1>2, <2>1
    <3>7. K(r.out, r.i) /\ Len(r.out) <= max
      BY <3>2, <3>3, <3>5, <3>6
    <3>8. r.i \in Nat \ {0} /\ r.i > m + 1
      BY <3>2, <3>4
    <3>9. GreedyWalk(name, word, c, p, max, m + 1, r)
      BY <3>7, <3>8 DEF GreedyWalk
    <3> QED
      BY <3>9 DEF r
  <2> QED
    BY <2>3, <2>4
<1> QED
  BY <1>4, <1>5

\* The tokens of a word show the word.
LEMMA GreedyKeeps ==
  ASSUME NEW name \in DOMAIN Files, NEW word \in Seq(Bytes \ {0}), NEW max \in Nat
  PROVE  LET c == Coded(Files[name].spelled, word)
         IN  Told(name, word, Greedy(Tokenizers[name], c, max), Len(word), max)
<1> DEFINE tok == Tokenizers[name]
           sp  == Files[name].spelled
           c   == Coded(sp, word)
           N   == Len(word)
           z   == Len(c)
<1>1. word \in Seq(Bytes) /\ sp \in BOOLEAN /\ c \in Seq(Bytes) /\ N \in Nat
  <2>1. word \in Seq(Bytes) /\ N \in Nat
    BY LenProperties
  <2>2. sp \in BOOLEAN
    BY StringsAre
  <2> QED
    BY <2>1, <2>2, CodedTyped
<1>2. PICK p : Places(sp, c, word, p)
  BY <1>1, CodedPlaces
<1> HIDE DEF c
<1>3. z \in Nat /\ p[0] = 0 /\ p[N] = z /\ \A n \in 0 .. N : p[n] \in Nat
  <2>1. z \in Nat
    BY <1>1, LenProperties
  <2> QED
    BY <1>2, <2>1 DEF Places
<1>4. PICK r : /\ r[0] = At(1, <<>>)
               /\ \A m \in 1 .. z : r[m] = GreedyRound(tok, c, max, r[m - 1])
               /\ Greedy(tok, c, max) = r[z].out
  <2>1. \E r : /\ r \in [0 .. z -> [i : Nat \ {0}, out : Seq(Int)]] /\ r[0] = At(1, <<>>)
               /\ \A m \in 1 .. z : r[m] = GreedyRound(tok, c, max, r[m - 1])
               /\ Greedy(tok, c, max) = r[z].out
    BY <1>1, GreedyLoop
  <2> HIDE DEF z, tok
  <2> QED
    BY <2>1
<1> DEFINE W(m, w) == GreedyWalk(name, word, c, p, max, m, w)
           P == {m \in 0 .. z : W(m, r[m])}
<1>5. W(0, r[0])
  <2> DEFINE w == At(1, <<>>)
             S == Decodable(tok)
  <2>1. w.i = 1 /\ w.out = <<>>
    BY DEF At
  <2>2. <<>> \in Seq(S) /\ Len(<<>>) = 0 /\ 0 <= max
    OBVIOUS
  <2>3. Printed(tok, <<>>) = <<>>
    <3> DEFINE t == <<>>
    <3>1. t \in Seq(S) /\ Len(t) = 0
      OBVIOUS
    <3>2. PICK f : f[0] = <<>> /\ Printed(tok, t) = f[Len(t)]
      <4> HIDE DEF t
      <4> QED
        BY <3>1, PrintedLoop
    <3> QED
      BY <3>1, <3>2
  <2>4. Shows(name, Printed(tok, <<>>), word, 0, 0)
    <3>1. 0 \in Int
      OBVIOUS
    <3> QED
      BY <2>3, <3>1, ShowsNone
  <2>5. 0 \in 0 .. N /\ 1 = p[0] + 1
    BY <1>1, <1>3
  <2>6. Kept(name, word, p, <<>>, 1)
    BY <2>2, <2>4, <2>5 DEF Kept
  <2>7. 1 \in Nat \ {0} /\ 1 > 0
    OBVIOUS
  <2>8. W(0, w)
    BY <2>1, <2>2, <2>6, <2>7 DEF GreedyWalk
  <2> QED
    BY <1>4, <2>8
<1>6. ASSUME NEW m \in 1 .. z, W(m - 1, r[m - 1]) PROVE W(m, r[m])
  <2>1. m - 1 \in Nat /\ (m - 1) + 1 = m
    BY <1>3
  <2>2. W((m - 1) + 1, GreedyRound(tok, c, max, r[m - 1]))
    BY <1>2, <1>6, <2>1, GreedyRoundKeeps
  <2>3. r[m] = GreedyRound(tok, c, max, r[m - 1])
    BY <1>4
  <2> QED
    BY <2>1, <2>2, <2>3
<1>7. W(z, r[z])
  <2>1. /\ 0 \in Int /\ z \in Int /\ 0 <= z
        /\ 0 \in P /\ \A m \in 0 + 1 .. z : m - 1 \in P => m \in P
    <3>1. 0 \in 0 .. z /\ 0 + 1 .. z = 1 .. z /\ \A m \in 1 .. z : m \in 0 .. z
      BY <1>3
    <3> HIDE DEF W
    <3> QED
      BY <1>3, <1>5, <1>6, <3>1
  <2>2. 0 .. z \subseteq P
    <3> HIDE DEF P
    <3> QED
      BY <2>1, IntervalInduction
  <2>3. z \in 0 .. z
    BY <1>3
  <2> QED
    BY <2>2, <2>3
<1> DEFINE w   == r[z]
           out == w.out
           l   == Len(out)
           x   == Printed(tok, out)
<1> HIDE DEF w
<1>8. /\ w.i \in Nat \ {0} /\ l <= max /\ Kept(name, word, p, out, w.i)
      /\ w.i > z \/ w.i > z \/ l >= max
  BY <1>7 DEF GreedyWalk, w
<1>9. PICK a \in 0 .. N : /\ Shows(name, x, word, 0, a)
                          /\ \/ w.i = p[a] + 1
                             \/ a # 0 /\ w.i = p[a] /\ p[a] = p[a - 1] + 2
  BY <1>8 DEF Kept
<1>10. out \in Seq(Decodable(tok)) /\ l \in Nat
  <2>1. out \in Seq(Decodable(tok))
    BY <1>8 DEF Kept
  <2> QED
    BY <2>1, LenProperties
<1>11. l < max => a = N
  <2> SUFFICES ASSUME l < max PROVE a = N
    OBVIOUS
  <2>1. w.i > z
    <3> HIDE DEF l, z
    <3> QED
      BY <1>8, <1>10
  <2> DEFINE g == p[a]
             i == w.i
  <2>2. g + (N - a) <= z
    <3>1. N \in 0 .. N /\ a <= N
      BY <1>1
    <3>2. p[a] + (N - a) <= p[N]
      BY <1>1, <1>2, <3>1, PlacesOrder
    <3> QED
      BY <1>3, <3>2
  <2>3. g \in Nat /\ (i = g + 1 \/ i = g)
    BY <1>3, <1>9
  <2>4. i \in Nat /\ i > z
    BY <1>8, <2>1
  <2> HIDE DEF g, i, z, N
  <2> QED
    BY <1>1, <1>3, <2>2, <2>3, <2>4
<1>12. Told(name, word, out, N, max)
  BY <1>8, <1>9, <1>10, <1>11 DEF Told
<1>13. Greedy(tok, c, max) = out
  BY <1>4 DEF w
<1> QED
  BY <1>12, <1>13 DEF c

\* The words of a text: word is a part of s from i on.
WordAt(s, i, word) ==
  /\ word \in Seq(Bytes) /\ Len(word) \in 1 .. Len(s) - i + 1
  /\ \A k \in 1 .. Len(word) : word[k] = s[(i - 1) + k]

\* A round of tokenizer_encode takes the next word.
LEMMA EncodeRoundIs ==
  ASSUME NEW name \in DOMAIN Files, NEW s \in Seq(Bytes), NEW max, NEW w,
         w.i \in 1 .. Len(s), ~(w.i > Len(s) \/ Len(w.out) >= max)
  PROVE  \E word :
           /\ WordAt(s, w.i, word)
           /\ EncodeRound(Tokenizers[name], s, max, w) =
                At(w.i + Len(word),
                   w.out \o Greedy(Tokenizers[name],
                                   Coded(Files[name].spelled, word),
                                   max - Len(w.out)))
<1> DEFINE tok  == Tokenizers[name]
           i    == w.i
           N    == Len(s)
           rest == SubSeq(s, i, N)
           n    == MatchWord(rest)
           word == SubSeq(rest, 1, n)
<1>1. N \in Nat /\ i \in 1 .. N
  BY LenProperties
<1>2. /\ rest \in Seq(Bytes) /\ Len(rest) = N - i + 1
      /\ \A k \in 1 .. N - i + 1 : rest[k] = s[i + k - 1]
  <2>1. i \in Int /\ N \in Int /\ 1 <= i /\ i <= N + 1 /\ N <= Len(s)
    BY <1>1
  <2> HIDE DEF i
  <2> QED
    BY <2>1, SliceIs
<1>3. n \in 1 .. N - i + 1
  <2>1. rest # <<>>
    <3>1. Len(rest) # 0
      <4> HIDE DEF N, i, rest
      <4> QED
        BY <1>1, <1>2
    <3> HIDE DEF rest
    <3> QED
      BY <3>1
  <2> HIDE DEF rest
  <2>2. n \in 1 .. Len(rest)
    BY <1>2, <2>1, WordMatched
  <2> QED
    BY <1>2, <2>2
<1>4. EncodeRound(tok, s, max, w) =
        At(i + n, w.out \o Greedy(tok, Coded(Files[name].spelled, word),
                                  max - Len(w.out)))
  <2>1. tok.is_byte_encoded = Files[name].spelled
    BY SpellingKnown
  <2> QED
    BY <2>1 DEF EncodeRound, Coded
<1> HIDE DEF n, rest
<1>5. /\ word \in Seq(Bytes) /\ Len(word) = n
      /\ \A k \in 1 .. n : word[k] = rest[k]
  <2>1. n \in 1 .. Len(rest)
    BY <1>2, <1>3
  <2> QED
    BY <1>2, <2>1, BeginningIs
<1>6. \A k \in 1 .. n : word[k] = s[(i - 1) + k]
  <2> HIDE DEF i, N, word
  <2>1. \A k \in 1 .. n : k \in 1 .. N - i + 1 /\ i + k - 1 = (i - 1) + k
    BY <1>1, <1>3
  <2> QED
    BY <1>2, <1>5, <2>1
<1> HIDE DEF word
<1>7. WordAt(s, i, word)
  BY <1>3, <1>5, <1>6 DEF WordAt
<1> QED
  BY <1>4, <1>5, <1>7

\* The tokens of a string are numbers.
LEMMA GreedyTyped ==
  ASSUME NEW name \in DOMAIN Files, NEW c \in Seq(Bytes), NEW max \in Nat
  PROVE  Greedy(Tokenizers[name], c, max) \in Seq(Int)
<1>1. PICK r : /\ r \in [0 .. Len(c) -> [i : Nat \ {0}, out : Seq(Int)]]
               /\ Greedy(Tokenizers[name], c, max) = r[Len(c)].out
  <2>1. \E r : /\ r \in [0 .. Len(c) -> [i : Nat \ {0}, out : Seq(Int)]]
               /\ r[0] = At(1, <<>>)
               /\ \A m \in 1 .. Len(c) :
                    r[m] = GreedyRound(Tokenizers[name], c, max, r[m - 1])
               /\ Greedy(Tokenizers[name], c, max) = r[Len(c)].out
    BY GreedyLoop
  <2> QED
    BY <2>1
<1>2. Len(c) \in 0 .. Len(c)
  BY LenProperties
<1> QED
  BY <1>1, <1>2

\* The loop over the words of a text.
LEMMA EncodeLoop ==
  ASSUME NEW name \in DOMAIN Files, NEW s \in Seq(Bytes), NEW max \in Nat
  PROVE  \E r : /\ r \in [0 .. Len(s) -> [i : Nat \ {0}, out : Seq(Int)]]
                /\ r[0] = At(1, <<>>)
                /\ \A m \in 1 .. Len(s) : r[m] = EncodeRound(Tokenizers[name], s, max, r[m - 1])
                /\ Encode(Tokenizers[name], s, max) = r[Len(s)].out
<1> DEFINE n == Len(s)
           V == [i : Nat \ {0}, out : Seq(Int)]
           v == At(1, <<>>)
           T(x, m) == EncodeRound(Tokenizers[name], s, max, x)
           S == [m \in 0 + 1 .. n |-> [x \in V |-> T(x, m)]]
           Def(f) == f = [m \in 0 .. n |-> IF m = 0 THEN v ELSE T(f[m - 1], m)]
           r == CHOOSE f : Def(f)
<1>1. n \in Nat /\ v \in V
  <2>1. <<>> \in Seq(Int)
    OBVIOUS
  <2> QED
    BY <2>1, LenProperties DEF At
<1>2. ASSUME NEW m \in 1 .. n, NEW x \in V PROVE T(x, m) \in V
  <2> DEFINE tok == Tokenizers[name]
             i   == x.i
             l   == Len(x.out)
  <2>1. i \in Nat \ {0} /\ x.out \in Seq(Int) /\ Len(s) \in Nat /\ l \in Nat
    <3>1. x.i \in Nat \ {0} /\ x.out \in Seq(Int)
      BY <1>2
    <3> QED
      BY <3>1, LenProperties
  <2>2. CASE i > Len(s) \/ l >= max
    <3>1. T(x, m) = x
      BY <2>2 DEF EncodeRound
    <3> QED
      BY <1>2, <3>1
  <2>3. CASE ~(i > Len(s) \/ l >= max)
    <3>1. i \in 1 .. Len(s) /\ max - l \in Nat
      <4> HIDE DEF i, l
      <4> QED
        BY <2>1, <2>3
    <3>2. PICK word : /\ WordAt(s, i, word)
                      /\ T(x, m) = At(i + Len(word),
                           x.out \o Greedy(tok, Coded(Files[name].spelled, word),
                                           max - l))
      BY <2>3, <3>1, EncodeRoundIs
    <3> DEFINE g == Greedy(tok, Coded(Files[name].spelled, word), max - l)
    <3>3. g \in Seq(Int)
      <4>1. word \in Seq(Bytes) /\ Files[name].spelled \in BOOLEAN
        BY <3>2, StringsAre DEF WordAt
      <4>2. Coded(Files[name].spelled, word) \in Seq(Bytes)
        BY <4>1, CodedTyped
      <4> HIDE DEF l
      <4> QED
        BY <3>1, <4>2, GreedyTyped
    <3>4. Len(word) \in Nat
      BY <3>2, LenProperties DEF WordAt
    <3> HIDE DEF g
    <3>5. i + Len(word) \in Nat \ {0} /\ x.out \o g \in Seq(Int)
      <4>1. x.out \o g \in Seq(Int)
        BY <2>1, <3>3, ConcatProperties
      <4> HIDE DEF i
      <4> QED
        BY <2>1, <3>4, <4>1
    <3>6. T(x, m) = At(i + Len(word), x.out \o g)
      BY <3>2 DEF g
    <3> QED
      BY <3>5, <3>6 DEF At
  <2> QED
    BY <2>2, <2>3
<1>3. 0 \in Int /\ n \in Int /\ 0 <= n /\ 0 + 1 .. n = 1 .. n
  BY <1>1
<1>4. Encode(Tokenizers[name], s, max) = r[Len(s)].out
  BY DEF Encode
<1> HIDE DEF n, V, v, T
<1>5. S \in [0 + 1 .. n -> [V -> V]]
  BY <1>2, <1>3
<1>6. \A m \in 0 .. n : m = 0 \/ (m \in 1 .. n /\ m - 1 \in 0 .. n)
  BY <1>1
<1>7. \E f : Def(f)
  <2>1. PICK f : LoopIs(f, V, v, 0, n, S)
    <3> HIDE DEF S
    <3> QED
      BY <1>1, <1>3, <1>5, LoopExists
  <2>2. /\ f \in [0 .. n -> V] /\ f[0] = v
        /\ \A m \in 1 .. n : f[m] = S[m][f[m - 1]]
    <3> HIDE DEF S
    <3> QED
      BY <1>3, <2>1 DEF LoopIs
  <2>3. \A m \in 1 .. n : S[m][f[m - 1]] = T(f[m - 1], m)
    BY <1>3, <1>6, <2>2
  <2> HIDE DEF S
  <2>4. \A m \in 0 .. n : f[m] = IF m = 0 THEN v ELSE T(f[m - 1], m)
    BY <1>6, <2>2, <2>3
  <2> QED
    BY <2>2, <2>4
<1>8. Def(r)
  <2> HIDE DEF Def
  <2> QED
    BY <1>7
<1> HIDE DEF r
<1>9. r[0] = v /\ \A m \in 1 .. n : r[m] = T(r[m - 1], m)
  <2>1. 0 \in 0 .. n /\ \A m \in 1 .. n : m \in 0 .. n /\ m # 0
    BY <1>1
  <2> QED
    BY <1>8, <2>1
<1>10. r \in [0 .. n -> V]
  <2> DEFINE P == {m \in 0 .. n : r[m] \in V}
  <2>1. 0 \in P /\ \A m \in 0 + 1 .. n : m - 1 \in P => m \in P
    BY <1>1, <1>2, <1>3, <1>6, <1>9
  <2>2. 0 .. n \subseteq P
    <3> HIDE DEF P
    <3> QED
      BY <1>3, <2>1, IntervalInduction
  <2> QED
    BY <1>8, <2>2
<1> QED
  BY <1>4, <1>9, <1>10 DEF n, V, v, T

\* The state of the loop over the text after m rounds.
EncodeWalk(name, s, max, m, w) ==
  /\ w.i \in 1 .. Len(s) + 1
  /\ Told(name, s, w.out, w.i - 1, max)
  /\ w.i > m \/ w.i > Len(s) \/ Len(w.out) >= max

\* A round keeps this.
LEMMA EncodeRoundKeeps ==
  ASSUME NEW name \in DOMAIN Files, NEW s \in Seq(Bytes \ {0}), NEW max \in Nat,
         NEW m \in Nat, NEW w, EncodeWalk(name, s, max, m, w)
  PROVE  EncodeWalk(name, s, max, m + 1, EncodeRound(Tokenizers[name], s, max, w))
<1> DEFINE tok == Tokenizers[name]
           S   == Decodable(tok)
           i   == w.i
           out == w.out
           l   == Len(out)
           N   == Len(s)
           x   == Printed(tok, out)
           r   == EncodeRound(tok, s, max, w)
<1>1. /\ i \in 1 .. N + 1 /\ Told(name, s, out, i - 1, max)
      /\ i > m \/ i > N \/ l >= max
  BY DEF EncodeWalk
<1>2. /\ s \in Seq(Bytes) /\ N \in Nat /\ out \in Seq(S) /\ l \in Nat /\ l <= max
  <2>1. out \in Seq(S) /\ l <= max
    BY <1>1 DEF Told
  <2>2. l \in Nat
    BY <2>1, LenProperties
  <2>3. s \in Seq(Bytes) /\ N \in Nat
    BY LenProperties
  <2> QED
    BY <2>1, <2>2, <2>3
<1>3. CASE i > N \/ l >= max
  <2>1. r = w
    BY <1>3 DEF EncodeRound
  <2>2. w.i > Len(s) \/ Len(w.out) >= max
    BY <1>3
  <2>3. EncodeWalk(name, s, max, m + 1, w)
    BY <1>1, <2>2 DEF EncodeWalk
  <2> QED
    BY <2>1, <2>3
<1>4. CASE ~(i > N \/ l >= max)
  <2>1. i \in 1 .. N /\ l < max /\ i > m /\ max - l \in Nat /\ i - 1 \in Nat
        /\ i - 1 \in Int
    <3> HIDE DEF i, l, N
    <3> QED
      BY <1>1, <1>2, <1>4
  <2>2. PICK word : /\ WordAt(s, i, word)
                    /\ r = At(i + Len(word),
                              out \o Greedy(tok, Coded(Files[name].spelled, word),
                                            max - l))
    BY <1>2, <1>4, <2>1, EncodeRoundIs
  <2> DEFINE n  == Len(word)
             k  == i - 1
             mx == max - l
             g  == Greedy(tok, Coded(Files[name].spelled, word), mx)
             y  == Printed(tok, g)
             o  == out \o g
  <2>3. word \in Seq(Bytes \ {0})
    <3>1. word \in Seq(Bytes) /\ n \in 1 .. N - i + 1
          /\ \A q \in 1 .. n : word[q] = s[k + q]
      BY <2>2 DEF WordAt
    <3>2. \A q \in 1 .. n : k + q \in 1 .. N
      <4> HIDE DEF i, n, N
      <4> QED
        BY <1>2, <2>1, <3>1
    <3>3. \A q \in 1 .. N : s[q] \in Bytes \ {0}
      BY ElementOfSeq
    <3>4. \A q \in 1 .. n : word[q] \in Bytes \ {0}
      <4> HIDE DEF k, n, N
      <4> QED
        BY <3>1, <3>2, <3>3
    <3>5. n \in Nat /\ word = [q \in 1 .. n |-> word[q]]
      BY <3>1, LenProperties
    <3>6. word \in [1 .. n -> Bytes \ {0}]
      <4> HIDE DEF n
      <4> QED
        BY <3>4, <3>5
    <3> DEFINE B == Bytes \ {0}
    <3>7. n \in Nat /\ word \in [1 .. n -> B]
      BY <3>5, <3>6
    <3> HIDE DEF n, B
    <3>8. word \in Seq(B)
      BY <3>7, SeqDef
    <3> QED
      BY <3>8 DEF B
  <2>4. /\ n \in Nat /\ n >= 1 /\ n <= N - i + 1
        /\ \A q \in 1 .. n : word[q] = s[k + q]
    <3>1. n \in 1 .. N - i + 1 /\ \A q \in 1 .. n : word[q] = s[k + q]
      BY <2>2 DEF WordAt
    <3> HIDE DEF i, n, N
    <3> QED
      BY <1>2, <2>1, <3>1
  <2>5. Told(name, word, g, n, mx)
    <3>1. mx \in Nat
      BY <2>1
    <3> HIDE DEF mx
    <3> QED
      BY <2>3, <3>1, GreedyKeeps
  <2> HIDE DEF g
  <2>6. PICK b \in 0 .. n : /\ Shows(name, y, word, 0, b)
                            /\ Len(g) < mx => b = n
    BY <2>5 DEF Told
  <2>7. g \in Seq(S) /\ Len(g) \in Nat /\ Len(g) <= mx
    <3>1. g \in Seq(S) /\ Len(g) <= mx
      BY <2>5 DEF Told
    <3> QED
      BY <3>1, LenProperties
  <2>8. Shows(name, x, s, 0, k)
    <3>1. PICK a \in 0 .. k : Shows(name, x, s, 0, a) /\ (l < max => a = k)
      BY <1>1 DEF Told
    <3> QED
      BY <2>1, <3>1
  <2>9. b \in Int /\ k \in Int /\ 0 \in Int /\ 0 <= k /\ k + b \in Int /\ k <= k + b
    <3> HIDE DEF n
    <3>1. k \in Nat
      BY <2>1
    <3> HIDE DEF k
    <3> QED
      BY <2>4, <2>6, <3>1
  <2>10. Shows(name, y, s, k, k + b)
    <3>1. \A q \in 1 .. b : word[q] = s[k + q]
      <4>1. \A q \in 1 .. b : q \in 1 .. n
        <5> HIDE DEF n
        <5> QED
          BY <2>4, <2>6
      <4> HIDE DEF n, k
      <4> QED
        BY <2>4, <4>1
    <3> HIDE DEF k, y
    <3> QED
      BY <2>6, <2>9, <3>1, ShowsPart
  <2>11. Shows(name, x \o y, s, 0, k + b)
    <3> HIDE DEF k, x, y
    <3> QED
      BY <2>8, <2>9, <2>10, ShowsJoin
  <2>12. Printed(tok, o) = x \o y
    BY <1>2, <2>7, PrintedJoin
  <2>13. o \in Seq(S) /\ Len(o) = l + Len(g)
    BY <1>2, <2>7, ConcatProperties
  <2> DEFINE at == i + n
  <2>14. r.i = at /\ r.out = o
    <3>1. r = At(at, o)
      BY <2>2 DEF g
    <3> HIDE DEF r, at, o
    <3> QED
      BY <3>1 DEF At
  <2> HIDE DEF r
  <2>15. (i + n) - 1 = k + n /\ Len(o) <= max /\ k + b \in 0 .. k + n
         /\ (Len(o) < max => k + b = k + n)
         /\ i + n \in 1 .. N + 1 /\ i + n > m + 1
    <3> DEFINE p == Len(o)
               u == Len(g)
    <3>1. p = l + u /\ u \in Nat /\ u <= max - l /\ (u < max - l => b = n)
      BY <2>6, <2>7, <2>13
    <3>2. b \in 0 .. n
      OBVIOUS
    <3> HIDE DEF o, p, u, n, i, l, N
    <3>3. p <= max /\ (p < max => b = n)
      BY <1>2, <2>1, <3>1
    <3>4. (i + n) - 1 = k + n /\ k + b \in 0 .. k + n
          /\ i + n \in 1 .. N + 1 /\ i + n > m + 1
      BY <1>2, <2>1, <2>4, <3>2
    <3> QED
      BY <3>3, <3>4 DEF p
  <2> HIDE DEF o
  <2>16. Told(name, s, o, (i + n) - 1, max)
    <3>1. o \in Seq(S) /\ Len(o) <= max
      BY <2>13, <2>15
    <3>2. Shows(name, Printed(tok, o), s, 0, k + b)
      BY <2>11, <2>12
    <3> DEFINE a == k + b
               z == k + n
    <3>3. a \in 0 .. z /\ Shows(name, Printed(tok, o), s, 0, a)
          /\ (Len(o) < max => a = z)
      BY <2>15, <3>2
    <3> HIDE DEF a, z
    <3>4. Told(name, s, o, z, max)
      BY <3>1, <3>3 DEF Told
    <3> QED
      BY <2>15, <3>4 DEF z
  <2>17. Told(name, s, r.out, r.i - 1, max)
    BY <2>14, <2>16
  <2>18. r.i \in 1 .. Len(s) + 1 /\ r.i > m + 1
    BY <2>14, <2>15
  <2>19. EncodeWalk(name, s, max, m + 1, r)
    BY <2>17, <2>18 DEF EncodeWalk
  <2> QED
    BY <2>19 DEF r
<1> QED
  BY <1>3, <1>4

\* The tokens of a text show the text.
LEMMA EncodeKeeps ==
  ASSUME NEW name \in DOMAIN Files, NEW s \in Seq(Bytes \ {0}), NEW max \in Nat
  PROVE  Told(name, s, Encode(Tokenizers[name], s, max), Len(s), max)
<1> DEFINE tok == Tokenizers[name]
           N   == Len(s)
<1>1. s \in Seq(Bytes) /\ N \in Nat
  BY LenProperties
<1>2. PICK r : /\ r[0] = At(1, <<>>)
               /\ \A m \in 1 .. N : r[m] = EncodeRound(tok, s, max, r[m - 1])
               /\ Encode(tok, s, max) = r[N].out
  <2>1. \E r : /\ r \in [0 .. N -> [i : Nat \ {0}, out : Seq(Int)]] /\ r[0] = At(1, <<>>)
               /\ \A m \in 1 .. N : r[m] = EncodeRound(tok, s, max, r[m - 1])
               /\ Encode(tok, s, max) = r[N].out
    BY <1>1, EncodeLoop
  <2> HIDE DEF N, tok
  <2> QED
    BY <2>1
<1> DEFINE W(m, w) == EncodeWalk(name, s, max, m, w)
           P == {m \in 0 .. N : W(m, r[m])}
<1>3. W(0, r[0])
  <2> DEFINE w == At(1, <<>>)
             S == Decodable(tok)
             t == <<>>
  <2>1. w.i = 1 /\ w.out = t
    BY DEF At
  <2>2. t \in Seq(S) /\ Len(t) = 0 /\ 0 <= max
    OBVIOUS
  <2>3. Printed(tok, t) = <<>>
    <3>1. PICK f : f[0] = <<>> /\ Printed(tok, t) = f[Len(t)]
      <4> HIDE DEF t
      <4> QED
        BY <2>2, PrintedLoop
    <3> QED
      BY <2>2, <3>1
  <2>4. Shows(name, Printed(tok, t), s, 0, 0)
    <3>1. 0 \in Int
      OBVIOUS
    <3> QED
      BY <2>3, <3>1, ShowsNone
  <2> HIDE DEF t
  <2>5. Told(name, s, t, 0, max)
    <3>1. 0 \in 0 .. 0
      OBVIOUS
    <3> QED
      BY <2>2, <2>4, <3>1 DEF Told
  <2>6. 1 \in 1 .. N + 1 /\ 1 > 0 /\ 1 - 1 = 0
    BY <1>1
  <2>7. W(0, w)
    BY <2>1, <2>5, <2>6 DEF EncodeWalk
  <2> QED
    BY <1>2, <2>7
<1>4. ASSUME NEW m \in 1 .. N, W(m - 1, r[m - 1]) PROVE W(m, r[m])
  <2>1. m - 1 \in Nat /\ (m - 1) + 1 = m
    BY <1>1
  <2>2. W((m - 1) + 1, EncodeRound(tok, s, max, r[m - 1]))
    BY <1>4, <2>1, EncodeRoundKeeps
  <2>3. r[m] = EncodeRound(tok, s, max, r[m - 1])
    BY <1>2
  <2> QED
    BY <2>1, <2>2, <2>3
<1>5. W(N, r[N])
  <2>1. /\ 0 \in Int /\ N \in Int /\ 0 <= N
        /\ 0 \in P /\ \A m \in 0 + 1 .. N : m - 1 \in P => m \in P
    <3>1. 0 \in 0 .. N /\ 0 + 1 .. N = 1 .. N /\ \A m \in 1 .. N : m \in 0 .. N
          /\ m - 1 \in 0 .. N
      BY <1>1
    <3> HIDE DEF W
    <3> QED
      BY <1>1, <1>3, <1>4, <3>1
  <2>2. 0 .. N \subseteq P
    <3> HIDE DEF P
    <3> QED
      BY <2>1, IntervalInduction
  <2>3. N \in 0 .. N
    BY <1>1
  <2> QED
    BY <2>2, <2>3
<1> DEFINE w   == r[N]
           out == w.out
           l   == Len(out)
           i   == w.i
<1> HIDE DEF w
<1>6. /\ i \in 1 .. N + 1 /\ Told(name, s, out, i - 1, max)
      /\ i > N \/ i > N \/ l >= max
  BY <1>5 DEF EncodeWalk, w
<1>7. PICK a \in 0 .. i - 1 : /\ Shows(name, Printed(tok, out), s, 0, a)
                              /\ l < max => a = i - 1
  BY <1>6 DEF Told
<1>8. out \in Seq(Decodable(tok)) /\ l \in Nat /\ l <= max
  <2>1. out \in Seq(Decodable(tok)) /\ l <= max
    BY <1>6 DEF Told
  <2> QED
    BY <2>1, LenProperties
<1>9. a \in 0 .. N /\ (l < max => a = N)
  <2> HIDE DEF i, l, N
  <2> QED
    BY <1>1, <1>6, <1>7, <1>8
<1>10. Told(name, s, out, N, max)
  BY <1>7, <1>8, <1>9 DEF Told
<1> QED
  BY <1>2, <1>10 DEF w

\* TextSurvives: what a text's tokens are decoded to is the text, or as much
\* of its beginning as there was room for, with the bytes in order and none of
\* those missing that have a token (tokenizer_encode, tokenizer_decode_to_bytes).
THEOREM SurvivesAsTold == TextSpec => []TextSurvives
<1>1. TextTyped => TextSurvives
  <2> SUFFICES ASSUME TextTyped PROVE TextSurvives
    OBVIOUS
  <2> DEFINE tok    == Tokenizers[vocabFile]
             tokens == Encode(tok, text, MaxTokens)
             back   == Printed(tok, tokens)
             N      == Len(text)
  <2>1. text \in Seq(Bytes \ {0}) /\ vocabFile \in DOMAIN Files /\ MaxTokens \in Nat
    BY TextAssumption DEF TextTyped
  <2>2. Told(vocabFile, text, tokens, N, MaxTokens)
    BY <2>1, EncodeKeeps
  <2> HIDE DEF tokens
  <2>3. PICK n \in 0 .. N : /\ Shows(vocabFile, back, text, 0, n)
                            /\ Len(tokens) < MaxTokens => n = N
    BY <2>2 DEF Told
  <2>4. Len(tokens) <= MaxTokens
    BY <2>2 DEF Told
  <2> HIDE DEF back
  <2>5. \E kept \in [1 .. Len(back) -> 1 .. n] :
          /\ \A i, j \in 1 .. Len(back) : i < j => kept[i] < kept[j]
          /\ \A i \in 1 .. Len(back) : back[i] = text[kept[i]]
          /\ \A m \in 1 .. n :
               (\A i \in 1 .. Len(back) : kept[i] # m) =>
                 ~HasToken(vocabFile, text[m])
    <3>1. 0 + 1 = 1
      OBVIOUS
    <3> QED
      BY <2>3, <3>1 DEF Shows
  <2> QED
    BY <2>3, <2>4, <2>5 DEF TextSurvives, tokens, back
<1> QED
  BY <1>1, TextStays, PTL
=============================================================================
