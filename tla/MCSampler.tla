----------------------------- MODULE MCSampler -----------------------------
(***************************************************************************)
(* Sampler with six tokens, a heap of up to four candidates (two levels    *)
(* below the root), two buckets of two logit steps, and words of two bits. *)
(***************************************************************************)
EXTENDS Sampler

\* Halved from each logit to the next.
Powers == [d \in 0 .. Underflow |-> 2 ^ (Underflow - d)]

\* Vectors of these logits with at most one tie for each of them.
AllVectors ==
  {l \in [0 .. Vocab - 1 -> {-2, 0, 2, 4}] :
     l[0] = 0 /\ \A v \in {-2, 0, 2, 4} :
       Cardinality({t \in 0 .. Vocab - 1 : l[t] = v}) <= 2}

Histories == {<<>>, <<1, 3, 1, -1, 6, 0>>}

\* The buffer as it was allocated, and after a call with either of the
\* histories that mark a token.
MarksLeft == {{}, {0, 1, 3}, {2}}

AllCalls ==
  [token: {0}, history: Histories, penalty: {2}, temp: {1, 2},
   minP: {NoMinP, 3}, topP: {<<1, 1>>, <<3, 4>>}, topK: {0, 2, 4, 5}]
  \cup
  [token: {-1, 0, 6}, history: {<<2, 2>>}, penalty: {0, 2}, temp: {Greedy},
   minP: {NoMinP}, topP: {<<1, 1>>}, topK: {0}]
=============================================================================
