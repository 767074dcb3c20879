------------------------------ MODULE MCKernels ------------------------------
(***************************************************************************)
(* The kernels one dispatch table selects (dispatch_init): the rows of the *)
(* ternary projections and the convolution and scan between them.  The two *)
(* meet only through buffers, so a behaviour goes through one of the two.  *)
(*                                                                         *)
(* Ternary is run over widths around every boundary of its kernels.  Rows  *)
(* with one weight at each column in turn, under activations that differ   *)
(* from column to column, show where every column's weight goes; rows full *)
(* of one code under the largest activations show that nothing saturates;  *)
(* ties show both roundings.  Positions after the last column hold a code  *)
(* that would be noticed.                                                  *)
(*                                                                         *)
(* ConvRing is run with up to four threads on six channels of two heads,   *)
(* batches of up to four tokens and seven tokens between resets: every     *)
(* starting position, batches shorter and longer than the ring, shares     *)
(* that start in the middle of a head.                                     *)
(***************************************************************************)
EXTENDS ConvRing

CONSTANTS Widths, MaxWidth, TmacBlock, Rows

\* Codes have two bits, and the scale of the activations brings the largest
\* to 127, which is 508 quarter steps.
ASSUME TernaryAssumption ==
  /\ MaxWidth \in Nat /\ Widths \subseteq 1 .. MaxWidth
  /\ TmacBlock \in Nat \ {0}
  /\ \A w \in Widths :
       Rows[w] \subseteq [code   : [0 .. MaxWidth + 3 -> 0 .. 3],
                         scaled : [0 .. MaxWidth + 3 -> -508 .. 508]]

VARIABLES part,   \* the kernel at work: "projection" or "scan"
          bitlinear, entry, cols, row, quant, c, luts, total, phase

ternary == <<bitlinear, entry, cols, row, quant, c, luts, total, phase>>
kernels == <<part, vars, ternary>>

T == INSTANCE Ternary WITH kernel <- bitlinear

AllWidths == {4, 31, 32, 34, 36, 64, 67, 100}
Positions == 0 .. MaxWidth + 3

Distinct == [i \in Positions |-> 4 * (((37 * i) % 255) - 127)]
Ties     == [i \in Positions |-> 4 * (((37 * i) % 254) - 127) + 2]
Between  == [i \in Positions |-> 4 * (((37 * i) % 254) - 127) + (i % 4)]
Largest  == [i \in Positions |-> IF i % 3 = 0 THEN -508 ELSE 508]

Row(w, code, scaled) ==
  [code |-> [i \in Positions |-> IF i < w THEN code[i] ELSE 0],
   scaled |-> scaled]

OneWeight(at, code) == [i \in Positions |-> IF i = at THEN code ELSE 1]
Full(code)          == [i \in Positions |-> code]
Mixed               == [i \in Positions |-> (7 * i + i \div 5) % 4]

AllRows ==
  [w \in AllWidths |->
     {Row(w, OneWeight(at, code), Distinct) : at \in 0 .. w - 1, code \in {0, 2, 3}}
     \cup {Row(w, Full(code), x) : code \in {0, 2, 3}, x \in {Largest, Ties}}
     \cup {Row(w, Mixed, x) : x \in {Between, Largest, Ties}}]
-----------------------------------------------------------------------------
\* The table has the kernels of one instruction set; on NEON the scan may use
\* the Accelerate framework.
OneSet == CASE bitlinear = "scalar" -> kernel = "scalar"
            [] bitlinear = "avx2"   -> kernel = "vector"
            [] bitlinear = "neon"   -> kernel \in {"vector", "accelerate"}

\* The part that is not at work has one state for each table.
Idle ==
  IF part = "projection" THEN kernel # "accelerate"
  ELSE entry = "forward" /\ cols = 4 /\ row = Row(4, Mixed, Ties)

KernelsInit == /\ part \in {"projection", "scan"}
               /\ Init /\ T!Init /\ OneSet /\ Idle

Project   == part = "projection" /\ T!Next /\ UNCHANGED <<part, vars>>
Convolve  == part = "scan" /\ Next /\ UNCHANGED <<part, ternary>>

KernelsNext == Project \/ Convolve
KernelsSpec == KernelsInit /\ [][KernelsNext]_kernels

\* Every activation is rounded to a nearest integer and stored at its own
\* column, in the vector loops, whose narrowing shuffles columns, and in the
\* loops for the rest; only on exact ties may kernels differ.
QuantNearest == T!QuantNearest

\* However a kernel blocks and permutes the columns, its sum is the product
\* of the columns it has passed; a finished row has passed all of them, save
\* up to three when the NEON row worker is used alone on a width that is no
\* multiple of four.
PrefixExact == T!PrefixExact
=============================================================================
