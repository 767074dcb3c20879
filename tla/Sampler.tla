------------------------------ MODULE Sampler ------------------------------
(***************************************************************************)
(* The end of model_forward_step (src/src/model.c): the repetition penalty *)
(* on the logits the LM head has computed, then sample_advanced.  The      *)
(* sampler promises min_p, top_k and top_p filtering of a softmax, and     *)
(* avoids sorting the vocabulary by three shortcuts: a bucket histogram    *)
(* and a min-heap when top_k is small, no sort at all when the order does  *)
(* not matter, and a sort of the PartialK largest candidates only.         *)
(*                                                                         *)
(* Logits are integers and a candidate at distance d below the largest     *)
(* logit has the weight Expf[d], or 0 beyond Underflow, where expf         *)
(* underflows: what is compared and summed is exact.  min_p is the         *)
(* distance it allows, top_p a fraction, 1/temp an integer.                *)
(***************************************************************************)
EXTENDS Integers, Sequences, FiniteSets, FiniteSetsExt, Functions

CONSTANTS
  Vocab,        \* vocab_size
  Protected,    \* protected_tokens
  WordBits,     \* bits in a word of penalty_visited, 64 in the code
  HistBuckets,  \* HIST_BUCKETS, 128 in the code
  BucketWidth,  \* HIST_RANGE / (HIST_BUCKETS - 1)
  MaxHistK,     \* the largest top_k that takes the histogram path, 256
  PartialK,     \* PARTIAL_K, 256 in the code
  Underflow,    \* the largest distance with a weight above 0
  Expf,         \* expf of minus a distance, in some small unit
  LogitVectors, \* what the LM head may have computed
  LeftMarks,    \* the sets of tokens an earlier call may have left marked
  Calls         \* the arguments a caller may pass

Tokens == 0 .. Vocab - 1
NoMinP == -1
None   == -1
Greedy == 0       \* a temperature below 0.05, as 1/temp

ASSUME SamplerAssumption ==
  /\ Vocab \in Nat \ {0} /\ WordBits \in Nat \ {0}
  /\ HistBuckets \in Nat \ {0} /\ BucketWidth \in Nat \ {0}
  /\ MaxHistK \in Nat /\ PartialK \in Nat \ {0}

\* expf never grows with the distance.
ASSUME ExpfAssumption ==
  /\ Underflow \in Nat /\ Expf \in [0 .. Underflow -> Nat \ {0}]
  /\ \A d, e \in 0 .. Underflow : d <= e => Expf[e] <= Expf[d]

ASSUME InputsAssumption ==
  /\ LogitVectors \subseteq [Tokens -> Int]
  /\ LeftMarks \subseteq SUBSET Tokens
  /\ Calls \subseteq [token: Int, history: Seq(Int), penalty: Nat, temp: Nat,
                     minP: Nat \cup {NoMinP}, topP: Nat \X Nat, topK: Int]

VARIABLES
  phase,    \* where the call is
  args,     \* token, history, penalty, temp, minP, topP, topK
  raw,      \* history: the logits of the LM head
  logits,   \* m->logits
  maxLogit, \* the largest, after the temperature
  nseen,    \* entries of the history the penalty loop has seen, its i
  visited,  \* m->penalty_visited, the bits set in each word
  probs,    \* the candidates, as [id, val]
  total,    \* the sum they were normalised by
  result    \* the token returned

samplerVars ==
  <<phase, args, raw, logits, maxLogit, nseen, visited, probs, total, result>>

\* The bits of the tokens in S, in each word.
Marks(S) ==
  [w \in 0 .. (Vocab - 1) \div WordBits |->
     {t % WordBits : t \in {u \in S : u \div WordBits = w}}]

\* A call begins: the buffer of the marks is as the calls before have left it.
SamplerInit ==
  /\ phase = "called"
  /\ args \in Calls
  /\ raw \in LogitVectors /\ logits = raw /\ maxLogit = None
  /\ nseen = 0 /\ visited \in {Marks(S) : S \in LeftMarks}
  /\ probs = <<>> /\ total = 0 /\ result = None

Return(token) == result' = token /\ phase' = "returned"

\* A token outside the vocabulary: an error message and token 0.
RejectToken ==
  /\ phase = "called" /\ args.token \notin Tokens
  /\ Return(0)
  /\ UNCHANGED <<args, raw, logits, maxLogit, nseen, visited, probs, total>>

\* Mutant: the marks of an earlier call stay.
ForwardPassOldMarks ==
  /\ phase = "called" /\ args.token \in Tokens
  /\ phase' = "penalty"
  /\ UNCHANGED <<args, raw, logits, maxLogit, nseen, visited, probs, total,
                 result>>

\* The forward pass has left the logits; the visited bits are cleared.
ForwardPass ==
  /\ phase = "called" /\ args.token \in Tokens
  /\ phase' = "penalty"
  /\ visited' = [w \in DOMAIN visited |-> {}]
  /\ UNCHANGED <<args, raw, logits, maxLogit, nseen, probs, total, result>>

-----------------------------------------------------------------------------
(* The repetition penalty.                                                 *)

Seen(t) == t % WordBits \in visited[t \div WordBits]

\* A positive logit is divided by the penalty, another multiplied.
Penalised(l, penalty) == IF l > 0 THEN l \div penalty ELSE l * penalty

\* One entry of the history: out of range and already visited entries are
\* skipped, protected tokens are marked only.
PenaliseNext ==
  LET past == args.history[nseen + 1]
      new  == past \in Tokens /\ ~Seen(past)
  IN  /\ phase = "penalty" /\ nseen < Len(args.history)
      /\ nseen' = nseen + 1
      /\ visited' = IF new
                    THEN [visited EXCEPT ![past \div WordBits] =
                            @ \cup {past % WordBits}]
                    ELSE visited
      /\ logits' = IF new /\ past \notin Protected /\ args.penalty > 0
                   THEN [logits EXCEPT ![past] = Penalised(@, args.penalty)]
                   ELSE logits
      /\ UNCHANGED <<phase, args, raw, maxLogit, probs, total, result>>

\* A low temperature takes the first largest logit and samples nothing;
\* another scales every logit.
Temperature ==
  /\ phase = "penalty" /\ nseen = Len(args.history)
  /\ IF args.temp = Greedy
     THEN /\ Return(Min({t \in Tokens :
                           \A u \in Tokens : logits[u] <= logits[t]}))
          /\ UNCHANGED logits
     ELSE /\ phase' = "sample"
          /\ logits' = [t \in Tokens |-> logits[t] * args.temp]
          /\ UNCHANGED result
  /\ maxLogit' = Max({logits'[t] : t \in Tokens})
  /\ UNCHANGED <<args, raw, nseen, visited, probs, total>>

-----------------------------------------------------------------------------
(* The candidates.                                                         *)

Below(t) == maxLogit - logits[t]

PassesMinP(t) == args.minP = NoMinP \/ Below(t) <= args.minP

EffectiveK == IF args.topK \in 1 .. MaxHistK THEN args.topK ELSE 0

\* Everything from the last bucket's start on is counted in the last bucket.
Bucket(t) == Min({Below(t) \div BucketWidth, HistBuckets - 1})

CountUpTo(b) == Cardinality({t \in Tokens : PassesMinP(t) /\ Bucket(t) <= b})

\* The first bucket at which k candidates are counted, or the last one.
CutoffBucket ==
  Min({b \in 0 .. HistBuckets - 1 : CountUpTo(b) >= EffectiveK}
      \cup {HistBuckets - 1})

\* The j-th smallest number in S.
Nth(S, j) == CHOOSE t \in S : Cardinality({u \in S : u < t}) = j - 1

\* The candidates of S in the order of their tokens, keyed by their logit.
Extract(S) ==
  [j \in 1 .. Cardinality(S) |-> [id |-> Nth(S, j), val |-> logits[Nth(S, j)]]]

AboveCutoff ==
  LET b == CutoffBucket
  IN  {t \in Tokens : PassesMinP(t) /\ Below(t) <= (b + 1) * BucketWidth}

\* The entry that belongs at j: the smaller child (2j or 2j + 1) if it is
\* below the entry there.
Smallest(h, n, j) ==
  LET l == IF 2 * j <= n /\ h[2 * j].val < h[j].val THEN 2 * j ELSE j
  IN  IF 2 * j + 1 <= n /\ h[2 * j + 1].val < h[l].val THEN 2 * j + 1 ELSE l

Swap(h, j, k) == [h EXCEPT ![j] = h[k], ![k] = h[j]]

\* One round of heap_sift_down, on a heap and the index it is at.
SiftRound(hi, n) ==
  LET h == hi[1]
      j == hi[2]
      s == Smallest(h, n, j)
  IN  <<Swap(h, j, s), s>>

\* heap_sift_down from j in the first n entries: n rounds reach a leaf.
SiftDown(h, n, j) ==
  LET round[m \in 0 .. n] ==
        IF m = 0 THEN <<h, j>> ELSE SiftRound(round[m - 1], n)
  IN  round[n][1]

\* From the last entry with a child to the root.
BuildHeap(h, n) ==
  LET build[m \in 0 .. n \div 2] ==
        IF m = 0 THEN h ELSE SiftDown(build[m - 1], n, n \div 2 + 1 - m)
  IN  build[n \div 2]

\* The root is replaced by an entry above it.
HeapReplace(h, k, c) ==
  IF c.val > h[1].val THEN SiftDown([h EXCEPT ![1] = c], k, 1) ELSE h

\* The k largest of a sequence: a min-heap of its first k entries, then a
\* scan of the others.
HeapSelect(s, k) ==
  LET scan[j \in k .. Len(s)] ==
        IF j = k THEN BuildHeap(SubSeq(s, 1, k), k)
        ELSE HeapReplace(scan[j - 1], k, s[j])
  IN  scan[Len(s)]

\* expf of the distance to the largest logit.
Weight(d)  == IF d <= Underflow THEN Expf[d] ELSE 0
Softmax(s) == [j \in DOMAIN s |-> [s[j] EXCEPT !.val = Weight(maxLogit - @)]]

Mass(s) == SumFunction([j \in DOMAIN s |-> s[j].val])

\* qsort leaves equal candidates in an order of its own: every descending
\* rearrangement.
Rearrangements == [n \in 0 .. Vocab |-> Bijection(1 .. n, 1 .. n)]
Descending(s) ==
  LET order == {q \in Rearrangements[Len(s)] :
                  \A j, k \in 1 .. Len(s) : j < k => s[q[j]].val >= s[q[k]].val}
  IN  {[j \in 1 .. Len(s) |-> s[q[j]]] : q \in order}

\* The masses are compared as cs >= top_p, both sides times the total.
TopPActive       == args.topP[1] < args.topP[2]
Covers(p, cs, t) == cs * p[2] >= p[1] * t

\* Histogram path: top_k is small.  The order matters to top_p only.
KeepTopK ==
  LET cands == Extract(AboveCutoff)
      kept  == Softmax(IF Len(cands) > EffectiveK
                       THEN HeapSelect(cands, EffectiveK) ELSE cands)
  IN  /\ phase = "sample" /\ EffectiveK > 0
      /\ probs' \in IF TopPActive THEN Descending(kept) ELSE {kept}
      /\ total' = Mass(kept)
      /\ phase' = "filter"
      /\ UNCHANGED <<args, raw, logits, maxLogit, nseen, visited, result>>

MinPCandidates == Softmax(Extract({t \in Tokens : PassesMinP(t)}))

\* Mutant: top_k no longer asks for the sort.
OrderFreeWithoutTopK(n) == ~TopPActive

\* No order is needed: neither top_p nor top_k will cut the n candidates.
OrderFree(n) == ~TopPActive /\ (args.topK <= 0 \/ args.topK >= n)

\* The PartialK largest candidates cover top_p.
PartialSuffices(cands) ==
  /\ TopPActive /\ Len(cands) > PartialK
  /\ Covers(args.topP, Mass(HeapSelect(cands, PartialK)), Mass(cands))

\* The path without top_k, or with a large one.
KeepMinP ==
  LET cands == MinPCandidates
  IN  /\ phase = "sample" /\ EffectiveK = 0
      /\ probs' \in
           IF OrderFree(Len(cands)) THEN {cands}
           ELSE IF PartialSuffices(cands)
                THEN Descending(HeapSelect(cands, PartialK))
                ELSE Descending(cands)
      /\ total' = Mass(cands)
      /\ phase' = "filter"
      /\ UNCHANGED <<args, raw, logits, maxLogit, nseen, visited, result>>

-----------------------------------------------------------------------------
(* filter_and_sample; every caller passes min_p = 0.                       *)

\* The first prefix whose mass reaches top_p, or everything.
TopPCut(topP, s, t) ==
  Min({n \in 1 .. Len(s) : Covers(topP, Mass(SubSeq(s, 1, n)), t)}
      \cup {Len(s)})

\* What top_p and then top_k leave; the histogram path passes no top_k.
Cut(s, t) ==
  LET p == IF TopPActive THEN TopPCut(args.topP, s, t) ELSE Len(s)
  IN  IF EffectiveK = 0 /\ args.topK \in 1 .. p - 1 THEN args.topK ELSE p

Filter ==
  /\ phase = "filter"
  /\ probs' = SubSeq(probs, 1, Cut(probs, total))
  /\ phase' = "draw"
  /\ UNCHANGED <<args, raw, logits, maxLogit, nseen, visited, total, result>>

\* Mutant: the walk compares with <=.
PickLate(s, r) ==
  LET hit == {n \in 1 .. Len(s) : r <= Mass(SubSeq(s, 1, n))}
  IN  s[IF hit = {} THEN Len(s) ELSE Min(hit)].id

\* The first candidate whose cumulated mass exceeds r, or the last one.
Pick(s, r) ==
  LET hit == {n \in 1 .. Len(s) : r < Mass(SubSeq(s, 1, n))}
  IN  s[IF hit = {} THEN Len(s) ELSE Min(hit)].id

\* rng_float times the mass of the candidates: rng_float rounds a 53-bit
\* integer to float before it scales it and can return 1, so r reaches the
\* mass itself.
Draw ==
  /\ phase = "draw"
  /\ \E r \in 0 .. Mass(probs) : Return(Pick(probs, r))
  /\ UNCHANGED <<args, raw, logits, maxLogit, nseen, visited, probs, total>>

SamplerNext ==
  \/ RejectToken \/ ForwardPass \/ PenaliseNext \/ Temperature
  \/ KeepTopK \/ KeepMinP \/ Filter \/ Draw
  \/ phase = "returned" /\ UNCHANGED samplerVars

SamplerSpec == SamplerInit /\ [][SamplerNext]_samplerVars

-----------------------------------------------------------------------------
\* The logits are the LM head's, with the penalty applied exactly once to
\* every token of the history that is in the vocabulary and not protected,
\* however often it occurs, in whatever word of the bitset its mark is, and
\* whatever marks an earlier call has left (the penalty loop at the end of
\* model_forward_step).
PenalisedOnce ==
  phase \in {"penalty", "sample"} =>
    LET past   == {args.history[j] : j \in 1 .. nseen}
        expect == [t \in Tokens |->
                     IF t \in past \ Protected /\ args.penalty > 0
                     THEN Penalised(raw[t], args.penalty) ELSE raw[t]]
    IN  \A t \in Tokens :
          logits[t] = expect[t] * IF phase = "sample" THEN args.temp ELSE 1

\* The reference: sort everything, keep what min_p and the first cut leave,
\* then the second.  With a small top_k it is cut first and top_p is relative
\* to what is left; the histogram forgets tokens more than its range below
\* the best.  Without, top_p is relative to all candidates and cut first.
InRange(t) == EffectiveK = 0 \/ Below(t) <= HistBuckets * BucketWidth

\* How often each value occurs in a sequence.
Counts(s) == [v \in Range(s) |-> Cardinality({j \in DOMAIN s : s[j] = v})]

\* The j-th largest weight in S, with repetitions.
NthWeight(S, j) ==
  CHOOSE w \in {Weight(Below(t)) : t \in S} :
    /\ Cardinality({t \in S : Weight(Below(t)) > w}) < j
    /\ Cardinality({t \in S : Weight(Below(t)) >= w}) >= j

NaiveMasses ==
  LET S      == {t \in Tokens : PassesMinP(t) /\ InRange(t)}
      k      == Cardinality(S)
      m      == IF EffectiveK > 0 THEN Min({EffectiveK, k}) ELSE k
      first  == [j \in 1 .. m |-> NthWeight(S, j)]
      all    == SumFunction(first)
      nucleus == Min({m} \cup
                     {j \in 1 .. m :
                        TopPActive
                        /\ Covers(args.topP, SumFunction(SubSeq(first, 1, j)),
                                  all)})
  IN  Counts(SubSeq(first, 1, IF EffectiveK = 0 /\ args.topK > 0
                                THEN Min({args.topK, nucleus}) ELSE nucleus))

\* The shortcuts lose nothing: the candidates left to draw from are distinct
\* tokens with their own weights, and those weights are the ones the
\* reference keeps.
KeptIsNaive ==
  phase = "draw" =>
    LET kept == [j \in DOMAIN probs |-> probs[j].val]
    IN  /\ \A j, k \in DOMAIN probs : probs[j].id = probs[k].id => j = k
        /\ \A j \in DOMAIN probs : kept[j] = Weight(Below(probs[j].id))
        /\ Counts(kept) = NaiveMasses

\* Whether or not the candidates are sorted, each is drawn by exactly its
\* weight of the values below the mass, and a random number of 1 still names
\* a candidate.
DrawProportional ==
  phase = "draw" =>
    /\ \A j \in DOMAIN probs :
         Cardinality({r \in 0 .. Mass(probs) - 1 :
                        Pick(probs, r) = probs[j].id}) = probs[j].val
    /\ Pick(probs, Mass(probs)) \in {probs[j].id : j \in DOMAIN probs}
=============================================================================
