------------------------------ MODULE WorkRange -----------------------------
(***************************************************************************)
(* How the rows or elements of a dispatch are divided among its threads:   *)
(* bm_work_range (src/src/threadpool.h) and the chunks of the row workers  *)
(* (src/src/block.c, src/src/arch/avx2.c).  Ranges are half-open.          *)
(***************************************************************************)
EXTENDS Integers

\* bm_work_range: the first thread ids get one task more than the others.
RangeStart(tid, nThreads, nTasks) ==
  LET base  == nTasks \div nThreads
      extra == nTasks % nThreads
  IN  IF tid >= nThreads THEN nTasks
      ELSE IF tid < extra THEN tid * (base + 1)
      ELSE extra * (base + 1) + (tid - extra) * base

RangeEnd(tid, nThreads, nTasks) ==
  LET base  == nTasks \div nThreads
      extra == nTasks % nThreads
  IN  IF tid >= nThreads THEN nTasks
      ELSE RangeStart(tid, nThreads, nTasks)
             + (IF tid < extra THEN base + 1 ELSE base)

TaskRange(tid, nThreads, nTasks) ==
  RangeStart(tid, nThreads, nTasks) .. RangeEnd(tid, nThreads, nTasks) - 1

\* The chunk size of a work-stealing dispatch, and how many chunks it makes.
ChunkSize(rows, nThreads, minChunk) ==
  LET cs == rows \div (nThreads * 4)
  IN  IF cs < minChunk THEN minChunk ELSE cs

TotalChunks(rows, cs) == (rows + cs - 1) \div cs

\* The rows of one chunk; the last chunk may be short.
ChunkRows(chunk, rows, cs) ==
  {r \in chunk * cs .. (chunk + 1) * cs - 1 : r < rows}
=============================================================================
