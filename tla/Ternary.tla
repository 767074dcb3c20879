------------------------------ MODULE Ternary ------------------------------
(***************************************************************************)
(* One output row of a BitLinear layer: activations are quantised to int8, *)
(* then multiplied with a row of packed ternary weights by the scalar      *)
(* T-MAC kernel (src/src/kernel.c), the AVX2 kernel (src/src/arch/avx2.c)  *)
(* or the NEON kernel (src/src/arch/neon.c).  Each kernel walks the row in *)
(* wide steps with an order of columns of its own and finishes with        *)
(* narrower loops; all accumulate the same integer.                        *)
(*                                                                         *)
(* A kernel is entered by bitlinear_forward, which computes whole rows, or *)
(* by the row worker alone, as the fused block and the LM head with NUMA   *)
(* replicas do.  The rows of an unrolled group are computed alike; one row *)
(* is modelled.  The scales are left out: the row's integer is what is     *)
(* compared, and activations come in quarter steps of the quantiser.       *)
(***************************************************************************)
EXTENDS Integers, Sequences, Functions

CONSTANTS
  Widths,     \* numbers of columns, w->cols
  MaxWidth,   \* the largest of them
  TmacBlock,  \* groups of a column block, TMAC_BLOCK_SIZE (256)
  Rows        \* what a row and its activations may be, see MCKernels

VARIABLES
  kernel,  \* g_kernels.name
  entry,   \* "forward" or "row_worker"
  cols,    \* w->cols
  row,     \* [code, scaled]: 2-bit codes and activations times scale_x, by column
  quant,   \* x_quant_buf
  c,       \* columns done
  luts,    \* act_luts, the tables of the current column block
  total,   \* the row's sum
  phase    \* "prepare", "rows", "tail" or "done"

vars == <<kernel, entry, cols, row, quant, c, luts, total, phase>>

-----------------------------------------------------------------------------
(* Weights.                                                                *)

\* decode_weight: 00, 01, 10 are -1, 0, 1 and 11 is clipped to 1.
DecodeWeight(bits) == IF bits - 1 > 1 THEN 1 ELSE bits - 1

Bits(b, j) == (b \div 4 ^ j) % 4

\* UNPACK_LUT and the two masks of a byte.
Unpack(b, j) == DecodeWeight(Bits(b, j))
MaskOf(b, w) == (IF Unpack(b, 0) = w THEN 1 ELSE 0) + (IF Unpack(b, 1) = w THEN 2 ELSE 0)
                + (IF Unpack(b, 2) = w THEN 4 ELSE 0) + (IF Unpack(b, 3) = w THEN 8 ELSE 0)

PMask(b) == MaskOf(b, 1)
NMask(b) == MaskOf(b, -1)

\* Four codes in a byte, lowest column in the lowest bits.
PackByte(w0, w1, w2, w3) == w0 + 4 * w1 + 16 * w2 + 64 * w3

PackedByte(g) ==
  PackByte(row.code[4 * g], row.code[4 * g + 1], row.code[4 * g + 2],
           row.code[4 * g + 3])

\* Mutant: the last entry of the table misses an activation.
BuildLutShort(x0, x1, x2, x3) ==
  LET x01 == x0 + x1
      x23 == x2 + x3
  IN  <<0, x0, x1, x01, x2, x0 + x2, x1 + x2, x01 + x2,
        x3, x0 + x3, x1 + x3, x01 + x3, x23, x0 + x23, x1 + x23, x23>>

\* build_tmac_lut, entry m at m + 1: the sum of the activations named by m.
BuildLut(x0, x1, x2, x3) ==
  LET x01 == x0 + x1
      x23 == x2 + x3
  IN  <<0, x0, x1, x01, x2, x0 + x2, x1 + x2, x01 + x2,
        x3, x0 + x3, x1 + x3, x01 + x3, x23, x0 + x23, x1 + x23, x01 + x23>>

\* A group of four columns by two lookups and a subtraction.
LutDot(lut, b) == lut[PMask(b) + 1] - lut[NMask(b) + 1]

-----------------------------------------------------------------------------
(* Quantisation of activations in quarter steps.                           *)

Clamp(q) == IF q > 127 THEN 127 ELSE IF q < -128 THEN -128 ELSE q

\* Ties away from zero: the scalar cast, vcvtaq and roundf.
RoundAway(x) == IF x >= 0 THEN (x + 2) \div 4 ELSE -((2 - x) \div 4)

\* Ties to even, _MM_FROUND_TO_NEAREST_INT.
RoundEven(x) ==
  LET low == x \div 4
      up  == x % 4 > 2 \/ (x % 4 = 2 /\ low % 2 = 1)
  IN  IF up THEN low + 1 ELSE low

\* The lanes that put doublewords in order again: the second permutation of
\* the quantiser and of the deinterleaving below.
LanePerm == <<0, 4, 1, 5, 2, 6, 3, 7>>

\* Mutant: without the permutation that repairs the interleaving.
PackSourceAsPacked(k) == 8 * ((k \div 4) % 4) + 4 * (k \div 16) + (k % 4)

\* Four registers of 8 are narrowed by packs_epi32 and packs_epi16, which work
\* in 16-byte lanes: the low halves of the four come before the high halves,
\* until permutevar8x32 mends it.  Where byte k comes from.
PackSource(k) ==
  LET lane == LanePerm[(k \div 4) + 1]
  IN  8 * (lane % 4) + 4 * (lane \div 4) + (k % 4)

\* The vector loop of AVX2 takes whole blocks of 32 and leaves the rest to a
\* loop that rounds differently; the other kernels round alike everywhere.
Quantised(i) ==
  IF kernel = "avx2" /\ i < 32 * (cols \div 32)
  THEN Clamp(RoundEven(row.scaled[32 * (i \div 32) + PackSource(i % 32)]))
  ELSE Clamp(RoundAway(row.scaled[i]))

-----------------------------------------------------------------------------
(* AVX2: 32 columns from 8 bytes.                                          *)

DeintShuf == <<0, 4, 8, 12, 1, 5, 9, 13, 2, 6, 10, 14, 3, 7, 11, 15>>

\* Which of 32 activations shuffle_epi8 within the 16-byte lanes and then
\* permutevar8x32 bring to byte k.
Deinterleaved(k) ==
  LET byte == 4 * LanePerm[k \div 4 + 1] + (k % 4)
  IN  16 * (byte \div 16) + DeintShuf[(byte % 16) + 1]

\* Byte k of the shifted broadcast: quadword k / 8 is shifted right by twice
\* its number, which brings two bits of every byte to its low end.
ShiftDecoded(g, k) ==
  LET code == Bits(PackedByte(g + (k % 8)), k \div 8)
  IN  (IF code > 2 THEN 2 ELSE code) - 1

Saturate16(v) == IF v > 32767 THEN 32767 ELSE IF v < -32768 THEN -32768 ELSE v

\* _mm256_maddubs_epi16 of a pair of unsigned and a pair of signed bytes.
Maddubs(u0, u1, w0, w1) == Saturate16(u0 * w0 + u1 * w1)

\* Mutant: the offset is not taken out again.
PairDotOffset(x0, x1, w0, w1) == Maddubs(x0 + 128, x1 + 128, w0, w1)

\* Activations are made unsigned by adding 128, and what that adds to the
\* product is subtracted.
PairDot(x0, x1, w0, w1) ==
  Maddubs(x0 + 128, x1 + 128, w0, w1) - Maddubs(128, 128, w0, w1)

Avx2Dot(at) ==
  LET x(k) == quant[at + Deinterleaved(k)]
      w(k) == ShiftDecoded(at \div 4, k)
  IN  SumFunction([i \in 1 .. 16 |->
                     PairDot(x(2 * i - 2), x(2 * i - 1), w(2 * i - 2), w(2 * i - 1))])

-----------------------------------------------------------------------------
(* NEON: 64 columns from 16 bytes; vld4q_s8 deinterleaves, so that lane n  *)
(* of vector j holds column 4n + j.                                        *)

NeonDot(at) ==
  LET Lane(n, j) == DecodeWeight(Bits(PackedByte(at \div 4 + n), j))
                    * quant[at + 4 * n + j]
  IN  SumFunction([n \in 1 .. 16 |-> Lane(n - 1, 0) + Lane(n - 1, 1)
                                     + Lane(n - 1, 2) + Lane(n - 1, 3)])

\* The column loops that finish a row.
ColumnDot(k)  == Unpack(PackedByte(k \div 4), k % 4) * quant[k]
ColumnsDot(from, to) ==
  SumFunction([k \in from .. to - 1 |-> ColumnDot(k)])

-----------------------------------------------------------------------------
Groups == cols \div 4

Init ==
  /\ kernel \in {"scalar", "avx2", "neon"}
  /\ entry \in IF kernel = "scalar" THEN {"forward"} ELSE {"forward", "row_worker"}
  /\ cols \in Widths
  /\ row \in Rows[cols]
  /\ quant = [k \in 0 .. MaxWidth + 3 |-> 0]
  /\ c = 0 /\ luts = <<>> /\ total = 0 /\ phase = "prepare"

\* Normalise and quantise: only the row's columns of the buffer are written.
Prepare ==
  /\ phase = "prepare"
  /\ quant' = [k \in DOMAIN quant |-> IF k < cols THEN Quantised(k)
                                      ELSE quant[k]]
  /\ phase' = "rows"
  /\ UNCHANGED <<kernel, entry, cols, row, c, luts, total>>

\* Scalar: the tables of the next column block.
BuildLuts ==
  LET first == c \div 4
      n     == IF first + TmacBlock > Groups THEN Groups - first ELSE TmacBlock
  IN  /\ kernel = "scalar" /\ phase = "rows" /\ luts = <<>> /\ first < Groups
      /\ luts' = [g \in 1 .. n |->
                    LET at == 4 * (first + g - 1)
                    IN  BuildLut(quant[at], quant[at + 1], quant[at + 2],
                                 quant[at + 3])]
      /\ UNCHANGED <<kernel, entry, cols, row, quant, c, total, phase>>

\* Scalar: the row over one column block.
ScalarBlock ==
  /\ kernel = "scalar" /\ phase = "rows" /\ luts # <<>>
  /\ total' = total + SumFunction([g \in DOMAIN luts |->
                                     LutDot(luts[g], PackedByte(c \div 4 + g - 1))])
  /\ c' = c + 4 * Len(luts)
  /\ luts' = <<>>
  /\ UNCHANGED <<kernel, entry, cols, row, quant, phase>>

ScalarRowsDone ==
  /\ kernel = "scalar" /\ phase = "rows" /\ luts = <<>> /\ c \div 4 >= Groups
  /\ phase' = "tail"
  /\ UNCHANGED <<kernel, entry, cols, row, quant, c, luts, total>>

Avx2Step ==
  /\ kernel = "avx2" /\ phase = "rows" /\ c + 32 <= cols
  /\ total' = total + Avx2Dot(c)
  /\ c' = c + 32
  /\ UNCHANGED <<kernel, entry, cols, row, quant, luts, phase>>

Avx2RowsDone ==
  /\ kernel = "avx2" /\ phase = "rows" /\ c + 32 > cols
  /\ phase' = "tail"
  /\ UNCHANGED <<kernel, entry, cols, row, quant, c, luts, total>>

NeonStep ==
  /\ kernel = "neon" /\ phase = "rows" /\ c \div 4 + 16 <= Groups
  /\ total' = total + NeonDot(c)
  /\ c' = c + 64
  /\ UNCHANGED <<kernel, entry, cols, row, quant, luts, phase>>

\* NEON: the groups left, four columns each.
NeonGroups ==
  /\ kernel = "neon" /\ phase = "rows" /\ c \div 4 + 16 > Groups
  /\ total' = total + ColumnsDot(c, 4 * Groups)
  /\ c' = 4 * Groups
  /\ phase' = "tail"
  /\ UNCHANGED <<kernel, entry, cols, row, quant, luts>>

\* The columns left: part of the row worker on AVX2, of bitlinear_forward on
\* the others.  The NEON row worker alone leaves them out.
RemainingColumns ==
  /\ phase = "tail"
  /\ IF kernel = "neon" /\ entry = "row_worker"
     THEN UNCHANGED <<total, c>>
     ELSE /\ total' = total + ColumnsDot(c, cols)
          /\ c' = cols
  /\ phase' = "done"
  /\ UNCHANGED <<kernel, entry, cols, row, quant, luts>>

Next ==
  \/ Prepare \/ BuildLuts \/ ScalarBlock \/ ScalarRowsDone
  \/ Avx2Step \/ Avx2RowsDone \/ NeonStep \/ NeonGroups
  \/ RemainingColumns
  \/ phase = "done" /\ UNCHANGED vars

Spec == Init /\ [][Next]_vars

-----------------------------------------------------------------------------
\* Every activation is rounded to a nearest integer and stored at its own
\* column, in the vector loops, whose narrowing shuffles columns, and in the
\* loops for the rest; only on exact ties may kernels differ.
QuantNearest ==
  phase # "prepare" =>
    \A k \in 0 .. cols - 1 :
      /\ 4 * quant[k] - row.scaled[k] \in -2 .. 2
      /\ quant[k] \in -127 .. 127

\* The weights a file's codes stand for and the product of the first n
\* columns, one by one.
Weight(k) == IF row.code[k] = 0 THEN -1 ELSE IF row.code[k] = 1 THEN 0 ELSE 1
Product(n) == SumFunction([k \in 0 .. n - 1 |-> Weight(k) * quant[k]])

\* However a kernel blocks and permutes the columns, its sum is the product
\* of the columns it has passed; a finished row has passed all of them, save
\* up to three when the NEON row worker is used alone on a width that is no
\* multiple of four.
PrefixExact ==
  /\ total = Product(c)
  /\ c <= cols
  /\ phase = "done" =>
       c = IF kernel = "neon" /\ entry = "row_worker" THEN 4 * (cols \div 4)
           ELSE cols
=============================================================================
